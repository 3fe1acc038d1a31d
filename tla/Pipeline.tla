------------------------------ MODULE Pipeline ------------------------------
(***************************************************************************)
(* The passes of DrakeEngine.__init__ (src/runtime.py), each followed by a *)
(* verify_graph call, and one step with the graph they leave: fusion, then *)
(* dead-code elimination, then common-subexpression elimination.           *)
(*                                                                         *)
(* The graph may be the caller's (the argument graph), but the tensors a   *)
(* step provides and those it looks up afterwards have fixed names, which  *)
(* depend on the number of layers only.                                    *)
(***************************************************************************)
EXTENDS FusedExecution, Traffic, DecodeGraph

CONSTANT NumLayers(_)    \* for a graph: the values of the argument num_layers

ASSUME NumLayersAssumption == \A g \in Graphs : NumLayers(g) \subseteq Int

VARIABLES num_layers,                                    \* the engine's
          phase,                                         \* what is running
          fused_graph,                                   \* the engine's graph
          dce_i, live, keep, dce_removed,                \* DCE
          cse_i, remap, seen, cse_ops, cse_removed,      \* CSE
          result                                         \* what becomes of the step
                                                         \* whose ops have all run:
                                                         \* "pending", "found", "missing"

dceVars == <<dce_i, live, keep, dce_removed>>
cseVars == <<cse_i, remap, seen, cse_ops, cse_removed>>
stepVars == <<pos, sub, env, status>>
engineVars == <<vars, phase, fused_graph, dceVars, cseVars, stepVars>>
allVars == <<engineVars, num_layers, result>>

\* Each pass works on the graph the one before has left in the engine.
Dce == INSTANCE DCE WITH graph <- fused_graph, i <- dce_i
Cse == INSTANCE CSE WITH graph <- fused_graph, i <- cse_i, new_ops <- cse_ops,
                         removed <- cse_removed
Step == INSTANCE ExecuteGraph WITH graph <- fused_graph

\* The base graph's own execution, for what it provides and what it means.
Base == INSTANCE ExecuteGraph

Layers == 0..(num_layers - 1)

\* The tensors a step provides, whatever its graph asks for: x, and every
\* layer's weights and caches.
Provided ==
    {<<"x", 0>>} \cup (UNION {WeightNames(num_layers, l) : l \in Layers})
        \cup (UNION {LET io == CacheIoNames(num_layers, l) IN {io.k_in, io.v_in} : l \in Layers})

StepTensors == [t \in Provided |-> Given(t)]

\* The tensors it looks up for its result.
StepResults ==
    {<<"output", 0>>} \cup
        IF num_layers > 1
        THEN UNION {LET io == CacheIoNames(num_layers, l) IN {io.k_out, io.v_out} : l \in Layers}
        ELSE {<<"cache_k_out", 0>>, <<"cache_v_out", 0>>}
----------------------------------------------------------------------------
PipelineInit ==
    /\ Init
    /\ num_layers \in NumLayers(graph)
    /\ phase = "fuse"
    /\ fused_graph = graph
    /\ dce_i = 0 /\ live = {} /\ keep = {} /\ dce_removed = <<>>
    /\ cse_i = 1 /\ remap = <<>> /\ seen = <<>> /\ cse_ops = <<>> /\ cse_removed = <<>>
    /\ pos = 1 /\ sub = 1 /\ env = <<>> /\ status = "running"
    /\ result = "pending"

FuseOps ==
    /\ phase = "fuse"
    /\ Fuse
    /\ UNCHANGED <<phase, fused_graph, dceVars, cseVars, num_layers, result>>

\* A pass has left its graph in the engine: verify_graph lets the constructor
\* go on, or raises, and there is no engine.
Leave(g, next) ==
    /\ fused_graph' = g
    /\ phase' = IF Verified(g) THEN next ELSE "rejected"

StartDce ==
    /\ phase = "fuse" /\ Finished
    /\ Leave(FusedGraph, "dce")
    /\ dce_i' = Len(new_ops)
    /\ live' = Range(graph.graph_outputs)
    /\ keep' = {}
    /\ UNCHANGED <<vars, dce_removed, cseVars, stepVars, num_layers, result>>

EliminateDeadCode ==
    /\ phase = "dce"
    /\ UNCHANGED <<vars, phase, fused_graph, dce_removed, cseVars, stepVars, num_layers, result>>
    /\ Dce!KeepLive \/ Dce!SkipDead

StartCse ==
    /\ phase = "dce" /\ Dce!Finished
    /\ Leave(Dce!Pruned, "cse")
    /\ dce_removed' = Dce!Removed
    /\ UNCHANGED <<vars, dce_i, live, keep, cseVars, stepVars, num_layers, result>>

EliminateCommonSubexpressions ==
    /\ phase = "cse"
    /\ UNCHANGED <<vars, phase, fused_graph, dceVars, stepVars, num_layers, result>>
    /\ Cse!DropDuplicate \/ Cse!KeepCanonical

\* The engine is built; step binds the weights, x and as many caches as the
\* engine has layers, and executes the graph on them.
StartStep ==
    /\ phase = "cse" /\ Cse!Finished
    /\ Leave(Cse!Deduped, "step")
    /\ env' = StepTensors
    /\ UNCHANGED <<vars, dceVars, cseVars, pos, sub, status, num_layers, result>>

ExecuteStep ==
    /\ phase = "step"
    /\ UNCHANGED <<vars, phase, fused_graph, dceVars, cseVars, num_layers, result>>
    /\ Step!Next

\* execute_graph has returned its tensors: step looks up its results among
\* them, and raises where one is missing.
ReadResults ==
    /\ phase = "step" /\ status = "returned" /\ result = "pending"
    /\ result' = IF StepResults \subseteq DOMAIN env THEN "found" ELSE "missing"
    /\ UNCHANGED <<engineVars, num_layers>>

PipelineNext ==
    \/ FuseOps \/ StartDce \/ EliminateDeadCode \/ StartCse
    \/ EliminateCommonSubexpressions \/ StartStep \/ ExecuteStep \/ ReadResults

\* The constructor and step are sequential code of one thread.
PipelineSpec == PipelineInit /\ [][PipelineNext]_allVars /\ WF_allVars(PipelineNext)

\* The figure of traffic_saved_bytes in a step's result: the fused ops are
\* those of the executed graph, their tensors' readers those of the base graph.
Saved ==
    MapThenSumSet(LAMBDA k : TrafficSavedBytes(fused_graph.ops[k], graph),
                  DOMAIN fused_graph.ops)

FusionSummary ==
    [original_op_count |-> Len(graph.ops), fused_op_count |-> Len(fused_graph.ops),
     fusions |-> records]
----------------------------------------------------------------------------
(***************************************************************************)
(* Properties.                                                             *)
(***************************************************************************)

\* "correct-by-construction": of a base graph the verifier accepts, no pass
\* makes a graph that a later verify_graph call rejects, and none leaves a
\* tensor without the producer the base graph gave it.
ConstructionSucceeds ==
    /\ phase # "rejected"
    /\ phase = "step" => External(fused_graph) \subseteq External(graph)

\* What the base graph computes: its ops applied in order.
BaseValues == FoldLeft(Base!Assign, Base!InitialTensors(graph), graph.ops)

\* The tensors that the ops of the engine's graph, fused ones by their sub-ops,
\* read and make.
ReadInStep == UNION {ReadBy(SubOps(fused_graph.ops[k])) : k \in DOMAIN fused_graph.ops}
MadeInStep == UNION {WrittenBy(SubOps(fused_graph.ops[k])) : k \in DOMAIN fused_graph.ops}

\* Tensors common-subexpression elimination has dropped that a sub-op of a
\* fused op still reads.
StaleReads ==
    DOMAIN remap \cap
        UNION {ReadBy(SubOps(fused_graph.ops[k])) :
                  k \in {n \in DOMAIN fused_graph.ops : fused_graph.ops[n].kind = "fused"}}

\* The passes are semantics-preserving: a step that finds its results has
\* them, and every other output of the base graph that an op makes, with the
\* value the base graph itself computes, unless a dropped tensor has the name
\* of one that step provides.
StepComputesBaseOutputs ==
    result = "found" /\ Base!Implemented(graph) /\ StaleReads \cap Provided = {} =>
        \A t \in StepResults \cup (Range(graph.graph_outputs) \cap WrittenBy(graph.ops)) :
            t \in DOMAIN env /\ env[t] = BaseValues[t]

Missing(wanted) == wanted \ (Provided \cup MadeInStep)

\* A base graph that asks for nothing but what a step provides and declares
\* as outputs, and makes, what a step looks up.
SuitsStep(g) ==
    /\ External(g) \subseteq Provided
    /\ StepResults \subseteq WrittenBy(g.ops) \cap Range(g.graph_outputs)

\* A step of an engine that was built raises exactly when something it reads
\* is neither provided nor made by any op: nothing comes too late.  While the
\* graph runs that is an input, or a dropped tensor which some sub-op still
\* reads: the verifier sees a fused op's inputs, the execution its sub-ops.
\* After that it is a result.  With a base graph that suits the step only
\* dropped tensors are left.
RaisesExactlyOnMissing ==
    phase = "step" /\ Base!Implemented(graph) =>
        /\ status = "raised" => Missing(ReadInStep) # {}
        /\ status = "returned" => Missing(ReadInStep) = {}
        /\ result = "missing" => Missing(StepResults) # {}
        /\ result = "found" => Missing(StepResults) = {}
        /\ SuitsStep(graph) => Missing(ReadInStep) \subseteq StaleReads /\ Missing(StepResults) = {}

\* Building the engine, executing its graph and reading the results come to
\* an end.
StepEnds == <>(phase = "rejected" \/ status = "raised" \/ result # "pending")

\* fusion_summary reports the records of the fusion pass, whatever the later
\* passes removed.  Together with the names dead-code elimination removed they
\* still account for the executed graph: the fusions listed are those left in
\* it and those removed, no fused op is ever deduplicated (its repr tells its
\* sub-ops' outputs, which are its own), and the ops left, each for as many as
\* it runs, and those gone come to the original count.
SummaryAccountsForEveryOp ==
    phase = "step" =>
        LET summary == FusionSummary
            Left == DOMAIN fused_graph.ops
            FusedLeft == {k \in Left : fused_graph.ops[k].kind = "fused"}
            Gone == dce_removed \o cse_removed
            Listed == {summary.fusions[n].fused_op_name : n \in DOMAIN summary.fusions}
            Runs(name) ==
                IF name \in Listed
                THEN LET n == CHOOSE n \in DOMAIN summary.fusions :
                                 summary.fusions[n].fused_op_name = name
                     IN Len(summary.fusions[n].sub_op_names)
                ELSE 1
        IN /\ Listed \ Range(dce_removed) = {fused_graph.ops[k].name : k \in FusedLeft}
           /\ Cardinality(Listed \ Range(dce_removed)) = Cardinality(FusedLeft)
           /\ summary.original_op_count =
                 MapThenSumSet(LAMBDA k : Runs(fused_graph.ops[k].name), Left)
                     + MapThenSumSet(LAMBDA n : Runs(Gone[n]), DOMAIN Gone)

\* What fusing the k-th op of the executed graph saves there: a tensor read
\* later in its window is not read back, and not written when no other op of
\* the executed graph reads it and step returns it to nobody.
ReallySaved(k) ==
    LET op == fused_graph.ops[k]
        HandedOn(at) ==
            \E j \in (at[1] + 1)..Len(SubOps(op)) :
                op.attrs.sub_ops[at[1]].outputs[at[2]] \in Range(op.attrs.sub_ops[j].inputs)
        WantedElsewhere(t) ==
            \/ t \in Range(graph.graph_outputs)
            \/ \E j \in (DOMAIN fused_graph.ops) \ {k} : t \in Range(fused_graph.ops[j].inputs)
        SavedBy(at) ==
            LET t == op.attrs.sub_ops[at[1]].outputs[at[2]] IN
            IF ~ HandedOn(at) THEN 0
            ELSE (IF WantedElsewhere(t) THEN 1 ELSE 2) * BytesOf(graph, t)
    IN IF op.kind # "fused" THEN 0
       ELSE MapThenSumSet(SavedBy, DOMAIN AllOutputs(op.attrs.sub_ops))

\* The traffic a step reports is counted on the base graph but saved on the
\* executed one.  It never claims more than is saved, deduplication sends no
\* reader to a tensor that was counted as internal; and it claims less only
\* where dead-code elimination removed something.
TrafficNeverOverstated ==
    status = "returned" =>
        LET really == MapThenSumSet(ReallySaved, DOMAIN fused_graph.ops) IN
        /\ Saved <= really
        /\ Saved < really => dce_removed # <<>>
----------------------------------------------------------------------------
(***************************************************************************)
(* What the documentation says and the code does not do.                   *)
(***************************************************************************)

\* cse.py:6-7: the pass "rewires everything downstream to read the canonical
\* outputs instead", so no step of an engine that was built, with a base graph
\* that suits it, looks up a dropped tensor and raises.
EverythingDownstreamRewired ==
    phase = "step" /\ Base!Implemented(graph) /\ SuitsStep(graph) => status # "raised"
=============================================================================

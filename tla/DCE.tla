-------------------------------- MODULE DCE --------------------------------
(***************************************************************************)
(* eliminate_dead_code of src/passes/dce.py: one reverse scan over the ops *)
(* of a graph verify_graph accepted, one step per op.                      *)
(***************************************************************************)
EXTENDS GraphPass

VARIABLES live,     \* the tensors found to be needed
          keep      \* the positions of the ops found to be live

vars == <<graph, i, live, keep>>

\* The pass starts on g.
StartsOn(g) ==
    /\ i = Len(g.ops)
    /\ live = Range(g.graph_outputs)
    /\ keep = {}

Init == graph \in Graphs /\ Verified(graph) /\ StartsOn(graph)

Visiting == i >= 1

\* Mutant of IsLive: only the op's first output is looked at.
IsLiveByFirst(op) == op.outputs # <<>> /\ op.outputs[1] \in live

IsLive(op) == Range(op.outputs) \cap live # {}

\* Mutant of KeepLive: the inputs are not marked.
KeepWithoutInputs ==
    /\ Visiting
    /\ IsLive(graph.ops[i])
    /\ keep' = keep \cup {i}
    /\ i' = i - 1
    /\ UNCHANGED <<graph, live>>

KeepLive ==
    /\ Visiting
    /\ IsLive(graph.ops[i])
    /\ keep' = keep \cup {i}
    /\ live' = live \cup Range(graph.ops[i].inputs)
    /\ i' = i - 1
    /\ UNCHANGED graph

\* Mutant of SkipDead: a dead op's inputs are marked all the same.
SkipAndMark ==
    /\ Visiting
    /\ ~ IsLive(graph.ops[i])
    /\ live' = live \cup Range(graph.ops[i].inputs)
    /\ i' = i - 1
    /\ UNCHANGED <<graph, keep>>

SkipDead ==
    /\ Visiting
    /\ ~ IsLive(graph.ops[i])
    /\ i' = i - 1
    /\ UNCHANGED <<graph, live, keep>>

Finished == i = 0
Terminated == Finished /\ UNCHANGED vars

Next == KeepLive \/ SkipDead \/ Terminated

Spec == Init /\ [][Next]_vars
----------------------------------------------------------------------------
\* The k-th of a set of positions, and the ops at them in their order.
NthOf(positions, k) ==
    CHOOSE p \in positions : Cardinality({q \in positions : q < p}) = k - 1

OpsAmong(ops, positions) ==
    [k \in 1..Cardinality(positions) |-> ops[NthOf(positions, k)]]

\* The graph of those ops, which declares the shapes its ops and its
\* interface refer to and no others.
Rebuild(g, ops) ==
    LET referenced == ReadBy(ops) \cup WrittenBy(ops)
                        \cup Range(g.graph_inputs) \cup Range(g.graph_outputs)
    IN [g EXCEPT !.ops = ops,
                 !.shapes = [t \in (DOMAIN g.shapes) \cap referenced |-> g.shapes[t]]]

\* The pass's first result.
Pruned == Rebuild(graph, OpsAmong(graph.ops, keep))

\* Mutant of Removed: the ops that stay are named.
RemovedAsKept ==
    LET kept == OpsAmong(graph.ops, keep)
    IN [k \in DOMAIN kept |-> kept[k].name]

\* The second.
Removed ==
    LET dead == OpsAmong(graph.ops, (DOMAIN graph.ops) \ keep)
    IN [k \in DOMAIN dead |-> dead[k].name]
----------------------------------------------------------------------------
(***************************************************************************)
(* Properties.                                                             *)
(***************************************************************************)

\* The type invariant: the scan keeps only ops it has passed, and marks only
\* tensors that are outputs or inputs of a kept op.
TypeOK ==
    /\ Verified(graph)
    /\ i \in 0..Len(graph.ops)
    /\ keep \subseteq (i + 1)..Len(graph.ops)
    /\ live = Range(graph.graph_outputs) \cup UNION {Range(graph.ops[k].inputs) : k \in keep}

\* A set of ops that can run without the others: it has the producers of the
\* graph's outputs and of everything its ops read.
SelfContained(K) ==
    \A k \in DOMAIN graph.ops :
        Range(graph.ops[k].outputs)
            \cap (Range(graph.graph_outputs) \cup UNION {Range(graph.ops[j].inputs) : j \in K})
            # {} => k \in K

\* "one reverse scan suffices": what the pass keeps is the smallest
\* self-contained set of ops.
KeepsExactlyNeeded ==
    Finished => /\ SelfContained(keep)
                /\ \A K \in SUBSET DOMAIN graph.ops : SelfContained(K) => keep \subseteq K

\* The verify_graph call after the pass never raises, although ops and shapes
\* are gone, and no tensor lost its producer: one that had, and kept its
\* shape, would pass for a parameter the caller provides.
PrunedVerifies ==
    Finished => Verified(Pruned) /\ External(Pruned) \subseteq External(graph)
=============================================================================

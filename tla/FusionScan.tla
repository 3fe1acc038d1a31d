---------------------------- MODULE FusionScan -----------------------------
(***************************************************************************)
(* The forward scan that both strategies of src/passes/fusion.py end in,   *)
(* whatever window either one chooses: at each position it fuses a window  *)
(* that matches a pattern, or keeps the op.                                *)
(***************************************************************************)
EXTENDS Fusion

CONSTANT Graphs     \* the graphs a caller may hand to the engine

ASSUME GraphsAssumption == \A g \in Graphs : IsBaseGraph(g)

\* No caller names an op the way _make_fused_op does ("fused_norm_matmul_0").
ASSUME NamesAssumption == \A name \in Name : name \notin FusedKind \X Nat

VARIABLES graph,      \* the base graph
          i,          \* the position the scan has reached
          fuse_idx,   \* the number of the next fused op
          new_ops,    \* the ops of the result so far
          records,    \* one FusionRecord per fused op
          starts      \* history: where in graph.ops each new op begins

vars == <<graph, i, fuse_idx, new_ops, records, starts>>

FusionRecord ==
    [fused_op_name : FusedKind \X Nat, fused_kind : FusedKind, sub_op_names : Seq(Name)]

Init ==
    /\ graph \in Graphs
    /\ Verified(graph)
    /\ i = 1
    /\ fuse_idx = 0
    /\ new_ops = <<>>
    /\ records = <<>>
    /\ starts = <<>>

Scanning == i <= Len(graph.ops)

Length(p) == Len(Patterns[p].kinds)
Window(k, p) == SubSeq(graph.ops, k, k + Length(p) - 1)

\* The fused op of pattern p's window here joins the result, and the scan
\* moves on by jump.
FuseAndJump(p, jump) ==
    LET window == Window(i, p)
        fused == MakeFusedOp(window, Patterns[p].fused_kind, fuse_idx)
    IN /\ Scanning
       /\ new_ops' = Append(new_ops, fused)
       /\ records' = Append(records,
              [fused_op_name |-> fused.name, fused_kind |-> Patterns[p].fused_kind,
               sub_op_names |-> [k \in DOMAIN window |-> window[k].name]])
       /\ i' = i + jump
       /\ fuse_idx' = fuse_idx + 1
       /\ starts' = Append(starts, i)
       /\ UNCHANGED graph

\* The op goes over as it is.
KeepAndCount(idx) ==
    /\ Scanning
    /\ new_ops' = Append(new_ops, graph.ops[i])
    /\ i' = i + 1
    /\ fuse_idx' = idx
    /\ starts' = Append(starts, i)
    /\ UNCHANGED <<graph, records>>

\* The pass has returned.
Finished == i > Len(graph.ops)
Terminated == Finished /\ UNCHANGED vars

\* _rebuild_graph: the result carries everything but the ops over.
FusedGraph == [graph EXCEPT !.ops = new_ops]

\* The abstract specification of a strategy: some matching window is fused,
\* or the op is kept.
ScanNext ==
    \/ KeepAndCount(fuse_idx)
    \/ \E p \in Matches(graph.ops, i) : FuseAndJump(p, Length(p))

ScanSpec == Init /\ [][ScanNext]_vars
----------------------------------------------------------------------------
(***************************************************************************)
(* Properties of either strategy.                                          *)
(***************************************************************************)

\* The type invariant: the scan's position, the numbering of the fused ops
\* and the lists the loop builds keep their shapes.
TypeOK ==
    /\ graph \in Graphs
    /\ i \in 1..(Len(graph.ops) + 1)
    /\ fuse_idx \in Nat
    /\ new_ops \in Seq(PlainOp \cup FusedOp)
    /\ records \in Seq(FusionRecord)
    /\ Len(records) = fuse_idx
    /\ starts \in Seq(1..Len(graph.ops))
    /\ Len(starts) = Len(new_ops)

\* The position in graph.ops at which the k-th new op's successor begins.
NextStart(k) == IF k = Len(starts) THEN i ELSE starts[k + 1]

\* Fusing never loses, repeats or reorders an op: what the ops built so far
\* execute, one after the other, is exactly the part of the base graph the
\* scan has passed (run's "jumps past it").
ExecutionOrderPreserved ==
    /\ (starts = <<>> /\ i = 1) \/ (starts # <<>> /\ starts[1] = 1)
    /\ \A k \in DOMAIN starts :
          /\ starts[k] < NextStart(k)
          /\ SubOps(new_ops[k]) = SubSeq(graph.ops, starts[k], NextStart(k) - 1)

\* The tensors a sequence of ops needs from elsewhere: read by one of them
\* and not written by an earlier one.
NeedsFromOutside(ops) ==
    UNION {Range(ops[k].inputs) \ WrittenBy(SubSeq(ops, 1, k - 1)) : k \in DOMAIN ops}

\* _make_fused_op's interface is exact: a pass that looks only at inputs and
\* outputs (verify, dead-code elimination) misses no tensor the sub-ops need
\* or make and sees none they do not.
InterfaceExact ==
    \A k \in DOMAIN new_ops :
        /\ Range(new_ops[k].inputs) = NeedsFromOutside(SubOps(new_ops[k]))
        /\ Range(new_ops[k].outputs) = WrittenBy(SubOps(new_ops[k]))

\* "Fusion must preserve every structural invariant" (runtime.py:70): the
\* verify_graph call after fusion never raises.
FusedGraphVerifies == Finished => Verified(FusedGraph)

\* The plan of a bucket and the fusion summary find a fused op by its name:
\* no two fused ops share one, and each one's record lists its sub-ops.
FusedNamesIdentify ==
    \A k \in DOMAIN new_ops : new_ops[k].kind = "fused" =>
        /\ \A j \in DOMAIN new_ops : new_ops[j].name = new_ops[k].name => j = k
        /\ \E r \in DOMAIN records :
              /\ records[r].fused_op_name = new_ops[k].name
              /\ records[r].sub_op_names =
                    [m \in DOMAIN new_ops[k].attrs.sub_ops |->
                        new_ops[k].attrs.sub_ops[m].name]
=============================================================================

-------------------------------- MODULE CSE --------------------------------
(***************************************************************************)
(* eliminate_common_subexpressions of src/passes/cse.py: one scan over the *)
(* ops of a graph verify_graph accepted, one step per op.                  *)
(***************************************************************************)
EXTENDS GraphPass

VARIABLES remap,    \* what each dropped tensor is replaced by
          seen,     \* the canonical op of each structural key
          new_ops,  \* the ops kept so far
          removed   \* the names of the ops dropped so far

vars == <<graph, i, remap, seen, new_ops, removed>>

Starts == i = 1 /\ remap = <<>> /\ seen = <<>> /\ new_ops = <<>> /\ removed = <<>>

Init == graph \in Graphs /\ Verified(graph) /\ Starts

Scanning == i <= Len(graph.ops)
----------------------------------------------------------------------------
Replaced(t) == IF t \in DOMAIN remap THEN remap[t] ELSE t
ReplacedIn(tensors) == [k \in DOMAIN tensors |-> Replaced(tensors[k])]

\* repr of an op's attrs: the sub-ops of a fused op print as "outputs =
\* kind(inputs) attrs", without their names.
Repr(attrs) ==
    <<attrs.param, attrs.fused_kind,
      [k \in DOMAIN attrs.sub_ops |->
          LET op == attrs.sub_ops[k] IN <<op.outputs, op.kind, op.inputs, op.attrs.param>>]>>

\* Mutants of Key: the inputs are not rewritten first, or the attributes are
\* left out.
KeyAsWritten(op) == <<op.kind, op.inputs, Repr(op.attrs), Len(op.outputs)>>
KeyWithoutAttrs(op) == <<op.kind, ReplacedIn(op.inputs), <<>>, Len(op.outputs)>>

Key(op) == <<op.kind, ReplacedIn(op.inputs), Repr(op.attrs), Len(op.outputs)>>

\* Mutant of ProducesGraphOutput: only the first output is looked at.
FirstIsGraphOutput(op) ==
    op.outputs # <<>> /\ op.outputs[1] \in Range(graph.graph_outputs)

ProducesGraphOutput(op) == Range(op.outputs) \cap Range(graph.graph_outputs) # {}

IsRedundant(op) == Key(op) \in DOMAIN seen /\ ~ ProducesGraphOutput(op)

\* At every output of a redundant op, the tensor of canonical that replaces it.
DropFor(canonical, canonicalNow) ==
    LET op == graph.ops[i]
        At(t) == CHOOSE k \in DOMAIN op.outputs : op.outputs[k] = t
    IN /\ Scanning
       /\ IsRedundant(op)
       /\ remap' = [t \in DOMAIN remap \cup Range(op.outputs) |->
                       IF t \in Range(op.outputs) THEN canonical.outputs[At(t)] ELSE remap[t]]
       /\ seen' = [seen EXCEPT ![Key(op)] = canonicalNow]
       /\ removed' = Append(removed, op.name)
       /\ i' = i + 1
       /\ UNCHANGED <<graph, new_ops>>

\* Mutant of DropDuplicate: the dropped op becomes the canonical one.
DropAndReplace == DropFor(seen[Key(graph.ops[i])], graph.ops[i])

\* The op computes what its canonical op does, output by output.
DropDuplicate == DropFor(seen[Key(graph.ops[i])], seen[Key(graph.ops[i])])

\* The op joins the result as kept, and as first if it is the first of its
\* key: the canonical one.
KeepAs(kept, first) ==
    LET op == graph.ops[i] IN
    /\ Scanning
    /\ ~ IsRedundant(op)
    /\ new_ops' = Append(new_ops, kept)
    /\ seen' = [key \in DOMAIN seen \cup {Key(op)} |->
                   IF key \in DOMAIN seen THEN seen[key] ELSE first]
    /\ i' = i + 1
    /\ UNCHANGED <<graph, remap, removed>>

Rewired(op) == [op EXCEPT !.inputs = ReplacedIn(op.inputs)]

\* Mutants of KeepCanonical: the op is kept with the inputs it had, or is
\* remembered with them.
KeepUnrewired == KeepAs(graph.ops[i], graph.ops[i])
KeepAndRememberUnrewired == KeepAs(Rewired(graph.ops[i]), graph.ops[i])

\* The op stays, reading canonical tensors.  Its attrs, a fused op's sub-ops
\* included, are not touched.
KeepCanonical == KeepAs(Rewired(graph.ops[i]), Rewired(graph.ops[i]))

Finished == i > Len(graph.ops)
Terminated == Finished /\ UNCHANGED vars

Next == DropDuplicate \/ KeepCanonical \/ Terminated

Spec == Init /\ [][Next]_vars

\* The pass's first result; the second is removed.
Deduped ==
    LET outputs == ReplacedIn(graph.graph_outputs)
        referenced == ReadBy(new_ops) \cup WrittenBy(new_ops)
                        \cup Range(graph.graph_inputs) \cup Range(outputs)
    IN [graph EXCEPT !.ops = new_ops,
                     !.graph_outputs = outputs,
                     !.shapes = [t \in (DOMAIN graph.shapes) \cap referenced |-> graph.shapes[t]]]
----------------------------------------------------------------------------
(***************************************************************************)
(* Properties.                                                             *)
(***************************************************************************)

\* The type invariant: every op the scan has passed is kept or dropped, and
\* the canonical ops are ops that were kept.
TypeOK ==
    /\ Verified(graph)
    /\ i \in 1..(Len(graph.ops) + 1)
    /\ Len(new_ops) + Len(removed) = i - 1
    /\ Range(seen) \subseteq Range(new_ops)
    /\ DOMAIN remap \subseteq WrittenBy(SubSeq(graph.ops, 1, i - 1))

\* One look-up in remap is enough, because what a tensor is replaced by is
\* never replaced itself and stays available: the remap is a function from
\* the dropped tensors onto tensors of kept ops.
RemapIsCanonical ==
    \A t \in DOMAIN remap :
        /\ t \notin WrittenBy(new_ops)
        /\ remap[t] \notin DOMAIN remap
        /\ remap[t] \in WrittenBy(new_ops)

\* "chains collapse too": one scan leaves no two structurally identical ops,
\* except a later one that must stay because it makes a graph output.
NoDuplicatesLeft ==
    \A j, k \in DOMAIN new_ops :
        j < k /\ Key(new_ops[j]) = Key(new_ops[k]) => ProducesGraphOutput(new_ops[k])

\* "Graph-output names are never renamed": step() looks the results up under
\* the names the base graph declared.
OutputNamesKept == ReplacedIn(graph.graph_outputs) = graph.graph_outputs

\* The verify_graph call after the pass never raises, and for a reason it
\* cannot see itself: no tensor lost its producer.  One that had, and kept its
\* shape, would pass for a parameter the caller provides.
DedupedVerifies ==
    Finished => Verified(Deduped) /\ External(Deduped) \subseteq External(graph)
=============================================================================

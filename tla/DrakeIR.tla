------------------------------ MODULE DrakeIR ------------------------------
(***************************************************************************)
(* The graph IR of src/ir.py: an operation reads and writes named tensors, *)
(* a graph is a list of operations with the tensors' symbolic shapes and   *)
(* the graph's interface.                                                  *)
(*                                                                         *)
(* An Op's attrs dict is a record with the same fields for every op, so    *)
(* that two attrs can always be compared: param stands for the entries of  *)
(* a plain op ("eps" of an rmsnorm, "position" of a rope), fused_kind and  *)
(* sub_ops are those of an op the fusion pass built.  List positions are   *)
(* counted from 1, where Python counts from 0.                             *)
(***************************************************************************)
EXTENDS Integers, FiniteSets, Sequences, Functions

CONSTANTS Tensor,   \* the tensor names
          Name,     \* the names of the ops a caller builds
          Kind,     \* the kinds of the ops a caller builds
          Param     \* the attributes of the ops a caller builds

\* The fusion pass marks its ops with a kind no caller uses.
ASSUME FusedIsNoKind == "fused" \notin Kind
----------------------------------------------------------------------------
PlainAttrs(param) == [param |-> param, fused_kind |-> "", sub_ops |-> <<>>]

MkOp(name, kind, inputs, outputs, attrs) ==
    [name |-> name, kind |-> kind, inputs |-> inputs, outputs |-> outputs,
     attrs |-> attrs]

PlainOp ==
    [name : Name, kind : Kind, inputs : Seq(Tensor), outputs : Seq(Tensor),
     attrs : [param : Param, fused_kind : {""}, sub_ops : {<<>>}]]

\* The tensors some op of the list reads, and those some op writes.
ReadBy(ops) == UNION {Range(ops[k].inputs) : k \in DOMAIN ops}
WrittenBy(ops) == UNION {Range(ops[k].outputs) : k \in DOMAIN ops}

\* What executing an op of either sort runs, in order.
SubOps(op) == IF op.kind = "fused" THEN op.attrs.sub_ops ELSE <<op>>

\* An op, plain or fused, is a record of its five fields; a graph is a record
\* of a list of such, their tensors' shapes and the lists of its interface.
IsOp(op) ==
    /\ op = MkOp(op.name, op.kind, op.inputs, op.outputs, op.attrs)
    /\ op.inputs \in Seq(Range(op.inputs))
    /\ op.outputs \in Seq(Range(op.outputs))

MkGraph(ops, shapes, graph_inputs, graph_outputs) ==
    [ops |-> ops, shapes |-> shapes, graph_inputs |-> graph_inputs,
     graph_outputs |-> graph_outputs]

IsGraph(g) ==
    /\ g = MkGraph(g.ops, g.shapes, g.graph_inputs, g.graph_outputs)
    /\ g.ops \in Seq(Range(g.ops))
    /\ \A k \in DOMAIN g.ops : IsOp(g.ops[k])
    /\ g.graph_inputs \in Seq(Range(g.graph_inputs))
    /\ g.graph_outputs \in Seq(Range(g.graph_outputs))

\* A well-typed graph of plain ops: what a caller hands to the engine.
IsBaseGraph(g) ==
    /\ g = MkGraph(g.ops, g.shapes, g.graph_inputs, g.graph_outputs)
    /\ g.ops \in Seq(PlainOp)
    /\ DOMAIN g.shapes \subseteq Tensor
    /\ g.graph_inputs \in Seq(Tensor)
    /\ g.graph_outputs \in Seq(Tensor)
=============================================================================

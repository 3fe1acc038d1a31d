------------------------------ MODULE Traffic ------------------------------
(***************************************************************************)
(* The analytic traffic model of src/passes/fusion.py and src/ir.py: how   *)
(* many bytes of memory traffic a fused window saves.                      *)
(***************************************************************************)
EXTENDS Fusion, SequencesExt

CONSTANT Dims       \* the argument dims: the size of every named dimension

ASSUME DimsAssumption == \A d \in DOMAIN Dims : Dims[d] \in Nat

\* Mutant of ConsumerCount: the graph's interface is no consumer.
OpsReading(g, t) == Cardinality({k \in DOMAIN g.ops : t \in Range(g.ops[k].inputs)})

ConsumerCount(g, t) ==
    Cardinality({k \in DOMAIN g.ops : t \in Range(g.ops[k].inputs)})
        + (IF t \in Range(g.graph_outputs) THEN 1 ELSE 0)

NumElements(shape) == FoldLeft(LAMBDA n, d : n * Dims[d], 1, shape)

DtypeBytes == 4

BytesOf(g, t) == NumElements(g.shapes[t]) * DtypeBytes

\* What the o-th output of the window's k-th op saves.  Read later in the
\* window, its tensor need not be read back, nor written if nothing else
\* reads it.
SavedAt(window, g, k, o) ==
    LET t == window[k].outputs[o]
        internal == Cardinality({j \in (k + 1)..Len(window) : t \in Range(window[j].inputs)})
        external == ConsumerCount(g, t) - internal
    IN IF internal = 0 THEN 0
       ELSE (IF external <= 0 THEN 2 ELSE 1) * BytesOf(g, t)

GroupTrafficSaved(window, g) ==
    MapThenSumSet(LAMBDA at : SavedAt(window, g, at[1], at[2]), DOMAIN AllOutputs(window))

TrafficSavedBytes(op, g) ==
    IF op.kind # "fused" THEN 0 ELSE GroupTrafficSaved(op.attrs.sub_ops, g)
=============================================================================

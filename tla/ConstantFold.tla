---------------------------- MODULE ConstantFold ----------------------------
(***************************************************************************)
(* fold_constants of src/passes/constant_fold.py: one forward scan over a  *)
(* graph's ops, one step per op, that names the ops whose inputs are all   *)
(* known to be constant.  Nobody need have verified the graph.             *)
(***************************************************************************)
EXTENDS GraphPass

CONSTANT ConstantSets       \* the sets of tensors a caller calls constant

VARIABLES constants,        \* the caller's set
          known_constants,  \* the tensors found to be constant
          foldable          \* the names of the foldable ops, in order

foldVars == <<graph, constants, i, known_constants, foldable>>

FoldInit ==
    /\ graph \in Graphs
    /\ constants \in ConstantSets
    /\ i = 1
    /\ known_constants = constants
    /\ foldable = <<>>

Scanning == i <= Len(graph.ops)

\* An op without inputs is foldable.
AllKnown(op) == Range(op.inputs) \subseteq known_constants

\* Mutant of Fold: an op's outputs do not become constant.
FoldAlone ==
    /\ Scanning
    /\ AllKnown(graph.ops[i])
    /\ foldable' = Append(foldable, graph.ops[i].name)
    /\ i' = i + 1
    /\ UNCHANGED <<graph, constants, known_constants>>

Fold ==
    /\ Scanning
    /\ AllKnown(graph.ops[i])
    /\ foldable' = Append(foldable, graph.ops[i].name)
    /\ known_constants' = known_constants \cup Range(graph.ops[i].outputs)
    /\ i' = i + 1
    /\ UNCHANGED <<graph, constants>>

Pass ==
    /\ Scanning
    /\ ~ AllKnown(graph.ops[i])
    /\ i' = i + 1
    /\ UNCHANGED <<graph, constants, known_constants, foldable>>

FoldFinished == i > Len(graph.ops)
FoldTerminated == FoldFinished /\ UNCHANGED foldVars

FoldNext == Fold \/ Pass \/ FoldTerminated

FoldSpec == FoldInit /\ [][FoldNext]_foldVars
----------------------------------------------------------------------------
(***************************************************************************)
(* Properties.                                                             *)
(***************************************************************************)

\* The ops that can be folded, in whatever order they are looked at: the
\* least set that holds every op whose inputs are constants or outputs of ops
\* of the set.
CanFold ==
    LET Positions == DOMAIN graph.ops
        MadeBy(S) == UNION {Range(graph.ops[k].outputs) : k \in S}
        Closed(S) ==
            \A k \in Positions : Range(graph.ops[k].inputs) \subseteq constants \cup MadeBy(S)
                                    => k \in S
    IN {k \in Positions : \A S \in SUBSET Positions : Closed(S) => k \in S}

\* "allowing the analysis to discover transitive opportunities": in a graph
\* the verifier accepts one forward scan finds every op that can be folded,
\* and in any graph none that cannot.
FoldsExactlyConstantOps ==
    FoldFinished =>
        LET Names == {graph.ops[k].name : k \in CanFold}
        IN /\ Range(foldable) \subseteq Names
           /\ Verified(graph) => Names \subseteq Range(foldable)
=============================================================================

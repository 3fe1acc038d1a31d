------------------------------- MODULE Verify -------------------------------
(***************************************************************************)
(* The graph verifier of src/passes/verify.py.  collect_graph_errors       *)
(* appends one message per problem; here every problem is the pair (or     *)
(* triple) of values its message names, and the problems are grouped by    *)
(* the invariant they violate.                                             *)
(***************************************************************************)
EXTENDS DrakeIR

\* Tensors declared with a shape that no op produces: graph inputs and
\* model parameters, available before any op runs.
External(g) == DOMAIN g.shapes \ WrittenBy(g.ops)

\* Mutants of ProducedBefore: an op may read its own output, or the graph's
\* inputs count as absent.
ProducedUpTo(g, k) ==
    Range(g.graph_inputs) \cup External(g) \cup WrittenBy(SubSeq(g.ops, 1, k))
ProducedByOpsBefore(g, k) == External(g) \cup WrittenBy(SubSeq(g.ops, 1, k - 1))

\* What the executor may assume is there before the op at position k runs.
ProducedBefore(g, k) ==
    Range(g.graph_inputs) \cup External(g) \cup WrittenBy(SubSeq(g.ops, 1, k - 1))

\* Mutant of MultiplyProduced: an op's own outputs are not compared.
MultiplyProducedAcrossOps(g) ==
    UNION {{k} \X (Range(g.ops[k].outputs) \cap WrittenBy(SubSeq(g.ops, 1, k - 1))) :
              k \in DOMAIN g.ops}

\* Invariant 1: <<op, output>> positions whose tensor already has a producer.
MultiplyProduced(g) ==
    UNION {{k} \X {o \in DOMAIN g.ops[k].outputs :
                      LET outputs == g.ops[k].outputs IN
                      \/ outputs[o] \in WrittenBy(SubSeq(g.ops, 1, k - 1))
                      \/ \E p \in 1..(o - 1) : outputs[p] = outputs[o]} : k \in DOMAIN g.ops}

\* Mutant of RedefinedInputs: nothing is checked.
NoRedefinedInputs(g) == {}

\* Invariant 2: an op that outputs a declared graph input.
RedefinedInputs(g) ==
    UNION {{k} \X (Range(g.ops[k].outputs) \cap Range(g.graph_inputs)) :
              k \in DOMAIN g.ops}

\* Invariant 3: an op that reads a tensor only it or a later op produces.
UsedBeforeDef(g) ==
    UNION {{k} \X (  (Range(g.ops[k].inputs) \cap WrittenBy(g.ops))
                   \ ProducedBefore(g, k)) : k \in DOMAIN g.ops}

\* Invariant 4: a graph output nothing produces.
UnproducedOutputs(g) ==
    Range(g.graph_outputs) \ (WrittenBy(g.ops) \cup Range(g.graph_inputs))

\* Invariant 5: a tensor an op mentions that has no declared shape.
UndeclaredShapes(g) ==
    UNION {{k} \X (  (Range(g.ops[k].inputs) \cup Range(g.ops[k].outputs))
                   \ DOMAIN g.shapes) : k \in DOMAIN g.ops}

CollectGraphErrors(g) ==
    [single_assignment |-> MultiplyProduced(g),
     input_redefinition |-> RedefinedInputs(g),
     def_before_use |-> UsedBeforeDef(g),
     outputs_produced |-> UnproducedOutputs(g),
     shapes_declared |-> UndeclaredShapes(g)]

\* verify_graph returns instead of raising GraphVerificationError.
Verified(g) ==
    LET errors == CollectGraphErrors(g) IN
    \A inv \in DOMAIN errors : errors[inv] = {}
=============================================================================

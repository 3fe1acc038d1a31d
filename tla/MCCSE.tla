------------------------------- MODULE MCCSE -------------------------------
(***************************************************************************)
(* Values for the constants of CSE.                                        *)
(***************************************************************************)
EXTENDS CSE, MCPassGraphs

\* The engine's fused graphs: two windows of the same shape, whose sub-ops
\* differ at least in their outputs, after a repeated op.
FusedPair ==
    LET Window(k, d) ==
            <<Plain(k, "rmsnorm", <<d, W>>, <<T(k)>>),
              Plain(k + 1, "matmul", <<T(k), W>>, <<T(k + 1)>>)>>
        Fused(k, d) ==
            [name |-> <<"fused_norm_matmul", k>>, kind |-> "fused", inputs |-> <<d, W>>,
             outputs |-> <<T(k), T(k + 1)>>,
             attrs |-> [param |-> "", fused_kind |-> "fused_norm_matmul",
                        sub_ops |-> Window(k, d)]]
    IN {GraphOf(<<a, b, Fused(3, d), Fused(5, e)>>, <<T(6)>>) :
            a \in Gelus(1), b \in Gelus(2), d \in {T(1), T(2)}, e \in {T(1), T(2), T(4)}}

MCGraphsSet ==
    Chains \cup Pairs \cup FusedPair \cup {BuildDecodeStepGraph(1)}
        \cup NormPairs
MCTensor == TensorsOf(MCGraphsSet)
MCName == NamesOf(MCGraphsSet)
MCParam == {"", "eps", "seq_len"}
=============================================================================

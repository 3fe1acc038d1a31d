--------------------------- MODULE MCConstantFold ---------------------------
(***************************************************************************)
(* Values for the constants of ConstantFold: chains and two-output ops, in *)
(* execution order and reversed, and any of their leaves constant.         *)
(***************************************************************************)
EXTENDS ConstantFold, MCPassGraphs, SequencesExt

Ordered == Chains \cup Pairs \cup NormPairs
Reversed == {[g EXCEPT !.ops = Reverse(g.ops)] : g \in Pairs \cup NormPairs}

MCGraphsSet == Ordered \cup Reversed
MCTensor == TensorsOf(MCGraphsSet)
MCName == NamesOf(MCGraphsSet)
MCParam == {"", "eps", "seq_len"}

\* Inputs, parameters, and tensors some op makes.
MCConstantSets == {{}, {X}, {W}, {X, W}, {T(1)}, {T(2), W}}
=============================================================================

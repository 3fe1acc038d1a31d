------------------------------- MODULE MCDCE -------------------------------
(***************************************************************************)
(* Values for the constants of DCE.                                        *)
(***************************************************************************)
EXTENDS DCE, MCPassGraphs

MCGraphsSet == Chains \cup Pairs \cup {BuildDecodeStepGraph(1)}
MCTensor == TensorsOf(MCGraphsSet)
MCName == NamesOf(MCGraphsSet)
MCParam == {"", "eps", "seq_len"}
=============================================================================

--------------------------- MODULE MCGreedyFusion ---------------------------
(***************************************************************************)
(* Values for the constants of GreedyFusion.                               *)
(***************************************************************************)
EXTENDS GreedyFusion, MCGraphs

MCGraphsSet ==
    ThreeOpGraphs \cup FourOpGraphs \cup AttentionGraphs \cup DecodeGraphs
        \cup InterruptedGraphs
MCTensor == TensorsOf(MCGraphsSet)
MCName == NamesOf(MCGraphsSet)
MCParam == {"", "eps", "seq_len"}

\* The default list behind an empty pattern, which a caller of run may pass:
\* were it to match, the scan would never move on.
MCPatterns == <<[kinds |-> <<>>, fused_kind |-> "fused_nothing"]>> \o PATTERNS
=============================================================================

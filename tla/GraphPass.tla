----------------------------- MODULE GraphPass -----------------------------
(***************************************************************************)
(* What the passes that look at a graph op by op have in common: the graph *)
(* a caller hands to the pass, and the op its scan has reached.            *)
(***************************************************************************)
EXTENDS Verify

CONSTANT Graphs     \* the graphs the pass may be given

ASSUME GraphsAssumption == \A g \in Graphs : IsGraph(g)

VARIABLES graph,    \* the graph the pass works on
          i         \* the position the scan has reached
=============================================================================

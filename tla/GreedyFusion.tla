---------------------------- MODULE GreedyFusion ----------------------------
(***************************************************************************)
(* FusionPass.run of src/passes/fusion.py, one step per iteration of its   *)
(* scan, as DrakeEngine.__init__ calls it: on a base graph verify_graph    *)
(* accepted.                                                               *)
(***************************************************************************)
EXTENDS FusionScan

\* The scan is at the start of a window of pattern p, the first pattern of
\* the list to match there.
IsFirstMatch(p) == p \in Matches(graph.ops, i) /\ \A q \in Matches(graph.ops, i) : p <= q

\* Mutant of FuseWindow: the scan goes on inside the window it has fused.
FuseWindowJumpOne(p) == IsFirstMatch(p) /\ FuseAndJump(p, 1)

FuseWindow(p) == IsFirstMatch(p) /\ FuseAndJump(p, Length(p))

\* Mutants of KeepOp: an op is kept although a pattern matches, or the kept
\* op takes a number.
KeepAnyOp == KeepAndCount(fuse_idx)
KeepNumberedOp == Matches(graph.ops, i) = {} /\ KeepAndCount(fuse_idx + 1)

\* No pattern matches.
KeepOp == Matches(graph.ops, i) = {} /\ KeepAndCount(fuse_idx)

Next == KeepOp \/ (\E p \in DOMAIN Patterns : FuseWindow(p)) \/ Terminated

Spec == Init /\ [][Next]_vars
----------------------------------------------------------------------------
(***************************************************************************)
(* Properties.                                                             *)
(***************************************************************************)

\* The greedy choice is the longest window available ("longest-pattern-
\* first"), though the code only tries the patterns in list order.
GreedyTakesLongest ==
    \A k \in DOMAIN starts : \A p \in Matches(graph.ops, starts[k]) :
        Len(Patterns[p].kinds) <= NextStart(k) - starts[k]

\* One scan is enough: no window of the finished graph matches a pattern,
\* so running the pass again would change nothing.
NothingLeftToFuse ==
    Finished => \A k \in DOMAIN new_ops : Matches(new_ops, k) = {}
----------------------------------------------------------------------------
(***************************************************************************)
(* What the documentation says and the code does not do.                   *)
(***************************************************************************)

\* fusion.py:63: windows that are not "an actual dependency chain" are
\* rejected, i.e. every op of a fused window feeds the one after it.
FusedWindowsAreChains ==
    \A k \in DOMAIN new_ops :
        LET window == SubOps(new_ops[k]) IN
        \A m \in 1..(Len(window) - 1) : Feeds(window[m], window[m + 1])
=============================================================================

-------------------------- MODULE CostOptimalFusion --------------------------
(***************************************************************************)
(* FusionPass.run_cost_optimal of src/passes/fusion.py: a backward dynamic *)
(* program over the positions of a verified base graph, one step per       *)
(* position, then a forward scan that carries its choices out.             *)
(***************************************************************************)
EXTENDS FusionScan, Traffic

\* bytes_of finds the size of every dimension it meets.
ASSUME ShapesAssumption ==
    \A g \in Graphs : \A t \in DOMAIN g.shapes : g.shapes[t] \in Seq(DOMAIN Dims)

VARIABLES dp_i,       \* the position the dynamic program has reached
          best,       \* best[k]: the bytes that can be saved from k onward
          choice      \* choice[k]: the pattern to fuse at k, or NoChoice

dpVars == <<dp_i, best, choice>>
optimalVars == <<vars, dpVars>>

NoChoice == 0

OptimalInit ==
    /\ Init
    /\ dp_i = Len(graph.ops)
    /\ best = [k \in 1..(Len(graph.ops) + 1) |-> 0]
    /\ choice = [k \in DOMAIN graph.ops |-> NoChoice]

\* What fusing pattern p's window at k saves, and what can be saved from
\* there onward.
SavedBy(k, p) == GroupTrafficSaved(Window(k, p), graph)
Candidate(p) == SavedBy(dp_i, p) + best[dp_i + Length(p)]

Scoring == dp_i >= 1

Settle(bytes, p) ==
    /\ best' = [best EXCEPT ![dp_i] = bytes]
    /\ choice' = [choice EXCEPT ![dp_i] = p]
    /\ dp_i' = dp_i - 1
    /\ UNCHANGED vars

NothingGained == Scoring /\ \A q \in Matches(graph.ops, dp_i) : Candidate(q) <= best[dp_i + 1]

\* Mutant of LeaveUnfused: what can be saved further on is forgotten.
LeaveForNothing == NothingGained /\ Settle(0, NoChoice)

\* No window saves more than leaving the op unfused.
LeaveUnfused == NothingGained /\ Settle(best[dp_i + 1], NoChoice)

\* Mutant of ChooseWindow: the first window that saves something is taken.
ChooseFirstGain(p) ==
    /\ Scoring
    /\ p \in Matches(graph.ops, dp_i)
    /\ Candidate(p) > best[dp_i + 1]
    /\ \A q \in Matches(graph.ops, dp_i) : Candidate(q) > best[dp_i + 1] => p <= q
    /\ Settle(Candidate(p), p)

\* The first of the windows that save most.
ChooseWindow(p) ==
    /\ Scoring
    /\ p \in Matches(graph.ops, dp_i)
    /\ Candidate(p) > best[dp_i + 1]
    /\ \A q \in Matches(graph.ops, dp_i) :
          Candidate(q) <= Candidate(p) /\ (Candidate(q) = Candidate(p) => p <= q)
    /\ Settle(Candidate(p), p)

Score == LeaveUnfused \/ \E p \in DOMAIN Patterns : ChooseWindow(p)
----------------------------------------------------------------------------
Selecting == ~ Scoring /\ Scanning

\* Mutant of KeepUnfused: the choice is not looked at.
KeepAnyway == Selecting /\ KeepAndCount(fuse_idx) /\ UNCHANGED dpVars

KeepUnfused == Selecting /\ choice[i] = NoChoice /\ KeepAndCount(fuse_idx) /\ UNCHANGED dpVars

FuseChosen ==
    /\ Selecting
    /\ choice[i] # NoChoice
    /\ FuseAndJump(choice[i], Length(choice[i]))
    /\ UNCHANGED dpVars

OptimalTerminated == ~ Scoring /\ Finished /\ UNCHANGED optimalVars

OptimalNext == Score \/ KeepUnfused \/ FuseChosen \/ OptimalTerminated

OptimalSpec == OptimalInit /\ [][OptimalNext]_optimalVars
----------------------------------------------------------------------------
(***************************************************************************)
(* Properties.                                                             *)
(***************************************************************************)

\* The type invariant: every choice is a window that matches where it is to
\* be fused, the savings from a position never grow along the list, and
\* nothing is fused before everything is scored.
SelectionTypeOK ==
    /\ i \in 1..(Len(graph.ops) + 1)
    /\ dp_i \in 0..Len(graph.ops)
    /\ best \in [1..(Len(graph.ops) + 1) -> Nat]
    /\ DOMAIN choice = DOMAIN graph.ops
    /\ \A k \in DOMAIN graph.ops : choice[k] # NoChoice => choice[k] \in Matches(graph.ops, k)
    /\ \A k \in (dp_i + 1)..Len(graph.ops) : best[k] >= best[k + 1]
    /\ Scoring => new_ops = <<>>

\* The readers of the tensors of a window, told one by one over the whole
\* graph and not counted.
NeededOutside(k, p, t) ==
    \/ t \in Range(graph.graph_outputs)
    \/ \E j \in DOMAIN graph.ops :
          j \notin k..(k + Length(p) - 1) /\ t \in Range(graph.ops[j].inputs)

\* The docstring of _group_traffic_saved: twice the bytes of a tensor the
\* window hands on if "nothing outside the group needs it", once otherwise.
\* The difference of two counters that the code uses says the same.
SavingsAreExact ==
    Scoring => \A p \in Matches(graph.ops, dp_i) :
        LET handed == Internal(Window(dp_i, p))
            Saved(t) == (IF NeededOutside(dp_i, p, t) THEN 1 ELSE 2) * BytesOf(graph, t)
        IN SavedBy(dp_i, p) = MapThenSumSet(Saved, handed)

\* Every set of matching windows from a position on that do not overlap.
Selections(from) ==
    LET n == Len(graph.ops)
        windows == UNION {{k} \X Matches(graph.ops, k) : k \in from..n}
    IN {S \in SUBSET windows :
            \A a, b \in S : a # b => a[1] + Length(a[2]) <= b[1] \/ b[1] + Length(b[2]) <= a[1]}

TotalSaved(S) == MapThenSumSet(LAMBDA a : SavedBy(a[1], a[2]), S)

\* "provably optimal": no set of windows that do not overlap saves more than
\* the entry computed last, and one saves as much.
BestIsOptimal ==
    new_ops = <<>> => best[dp_i + 1] = Max({TotalSaved(S) : S \in Selections(dp_i + 1)})

\* The forward scan realises what the dynamic program promised: the savings
\* reported for the ops of the result add up to best, and the result runs
\* every op of the base graph once, in order, and verifies.
PromiseKept ==
    ~ Scoring /\ Finished =>
        /\ MapThenSumSet(LAMBDA k : TrafficSavedBytes(new_ops[k], graph), DOMAIN new_ops)
              = best[1]
        /\ FlattenSeq([k \in DOMAIN new_ops |-> SubOps(new_ops[k])]) = graph.ops
        /\ Verified(FusedGraph)
=============================================================================

--------------------------- MODULE FusedExecution ---------------------------
(***************************************************************************)
(* The greedy fusion pass followed by an execution of the fused graph, as  *)
(* an engine without the clean-up passes does it: GreedyFusion builds the  *)
(* graph, ExecuteGraph runs it on the base graph's inputs and parameters.  *)
(*                                                                         *)
(* "Fusion here does not change *what* is computed": the composition is    *)
(* shown to implement ExecuteGraph running the base graph itself.          *)
(***************************************************************************)
EXTENDS GreedyFusion

CONSTANTS Compute(_, _, _, _), Given(_)

VARIABLES pos, sub, env, status    \* those of the execution

runVars == <<vars, pos, sub, env, status>>

Execution == INSTANCE ExecuteGraph WITH graph <- FusedGraph

\* The execution of the base graph that a state of this one stands for: the
\* next op it runs is the base graph's op at this position.
BasePos ==
    IF ~ Finished THEN 1
    ELSE IF pos <= Len(new_ops) THEN starts[pos] + sub - 1
    ELSE Len(graph.ops) + 1

Unfused == INSTANCE ExecuteGraph WITH pos <- BasePos, sub <- 1
----------------------------------------------------------------------------
RunInit ==
    /\ Init
    /\ pos = 1
    /\ sub = 1
    /\ env = Execution!InitialTensors(graph)
    /\ status = "running"

Fuse ==
    /\ KeepOp \/ \E p \in DOMAIN Patterns : FuseWindow(p)
    /\ UNCHANGED <<pos, sub, env, status>>

Execute ==
    /\ Finished
    /\ UNCHANGED vars
    /\ Execution!Next

RunNext == Fuse \/ Execute

\* Both passes are sequential loops of one thread.
RunSpec == RunInit /\ [][RunNext]_runVars /\ WF_runVars(RunNext)
----------------------------------------------------------------------------
(***************************************************************************)
(* Properties.                                                             *)
(***************************************************************************)

\* "Fusion here does not change *what* is computed": every step of executing
\* the fused graph is the step the base graph's own execution takes next,
\* and it ends, or fails, exactly when that one does.
ImplementsUnfused == Unfused!Spec
=============================================================================

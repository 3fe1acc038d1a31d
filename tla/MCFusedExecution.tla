-------------------------- MODULE MCFusedExecution --------------------------
(***************************************************************************)
(* Values for the constants of FusedExecution.  Computed values are terms, *)
(* so two tensors are equal only when they are computed the same way.      *)
(***************************************************************************)
EXTENDS FusedExecution, MCGraphs

MCGiven(t) == <<"given", t>>
MCCompute(kind, param, args, k) == <<kind, param, args, k>>

\* One graph whose last op no implementation exists for.
UnknownKind ==
    {GraphOf(<<Plain(1, "rmsnorm", <<X, W>>, <<T(1)>>),
               Plain(2, "matmul", <<T(1), W>>, <<T(2)>>),
               Plain(3, "silu", <<T(2)>>, <<T(3)>>)>>, <<T(3)>>)}

MCGraphsSet ==
    ThreeOpGraphs \cup AttentionGraphs \cup UnknownKind \cup {BuildDecodeStepGraph(1)}
        \cup {g \in InterruptedGraphs : g.ops[6].kind = "gelu" \/ g.ops[13].kind = "gelu"}
MCTensor == TensorsOf(MCGraphsSet)
MCName == NamesOf(MCGraphsSet)
MCKinds == MCKind \cup {"silu"}
MCParam == {"", "eps", "seq_len"}

\* The default list behind an empty pattern: were it to match, the scan would
\* never move on.
MCPatterns == <<[kinds |-> <<>>, fused_kind |-> "fused_nothing"]>> \o PATTERNS
=============================================================================

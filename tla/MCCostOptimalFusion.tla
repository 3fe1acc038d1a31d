------------------------ MODULE MCCostOptimalFusion ------------------------
(***************************************************************************)
(* Values for the constants of CostOptimalFusion.                          *)
(***************************************************************************)
EXTENDS CostOptimalFusion, MCGraphs

MCDims ==
    [batch |-> 2, hidden_dim |-> 3, n_heads |-> 1, head_dim |-> 3, qkv_dim |-> 9,
     ffn_dim |-> 8, seq_len |-> 1, next_seq_len |-> 2, none |-> 0]

\* A chain in which every window competes with another one, over tensors that
\* are large, small or empty, with readers outside the windows.
Chain(d, e, f, outs) ==
    GraphOf(<<Plain(1, "add", <<X, X>>, <<T(1)>>), Plain(2, "rmsnorm", <<d, W>>, <<T(2)>>),
              Plain(3, "matmul", <<T(2), W>>, <<T(3)>>), Plain(4, "gelu", <<e>>, <<T(4)>>),
              Plain(5, "add", <<f, f>>, <<T(5)>>)>>, outs)

Shapes == {<<>>, <<"batch">>, <<"hidden_dim", "ffn_dim">>, <<"none">>}

\* The same graph over tensors of other sizes.
Resized(g, s1, s2, s3) ==
    [g EXCEPT !.shapes = [t \in DOMAIN g.shapes |->
        CASE t = T(1) -> s1 [] t = T(2) -> s2 [] t = T(3) -> s3 [] OTHER -> <<"batch">>]]

MCGraphsSet ==
    {Resized(Chain(d, e, f, outs), s1, s2, s3) :
        d \in {X, T(1)}, e \in {T(2), T(3)}, f \in {T(1), T(4)},
        outs \in {<<T(5)>>, <<T(5), T(3)>>}, s1 \in Shapes, s2 \in Shapes, s3 \in Shapes}
    \cup AttentionGraphs \cup {BuildDecodeStepGraph(1)}
MCTensor == TensorsOf(MCGraphsSet)
MCName == NamesOf(MCGraphsSet)
MCParam == {"", "eps", "seq_len"}

\* A caller's list, with short patterns before the longer ones that begin with
\* them: the order of the list must not decide what is found best.
MCPatterns == <<[kinds |-> <<>>, fused_kind |-> "fused_nothing"]>> \o Reverse(PATTERNS)
=============================================================================

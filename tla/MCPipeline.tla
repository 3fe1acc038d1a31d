----------------------------- MODULE MCPipeline -----------------------------
(***************************************************************************)
(* Values for the constants of Pipeline.  Computed values are terms, so    *)
(* two tensors are equal only when they are computed the same way.         *)
(***************************************************************************)
EXTENDS Pipeline, MCPassGraphs

MCGiven(t) == <<"given", t>>
MCCompute(kind, param, args, k) == <<kind, param, args, k>>

\* A repeated or differing pair, an op on either, and a matmul that may close
\* a window with it: there is something to fuse, to prune and to merge.
FusablePairs ==
    {GraphOf(<<a, b, c, Plain(4, "matmul", <<d, W>>, <<T(4)>>)>>, outs) :
        a \in Gelus(1) \cup Norms(1), b \in Gelus(2) \cup Norms(2),
        c \in {n \in Norms(3) : n.attrs.param = "eps"} \cup {Plain(3, "add", <<T(1), T(2)>>, <<T(3)>>)},
        d \in {T(2), T(3)}, outs \in {<<T(4)>>, <<T(4), T(2)>>, <<T(3)>>}}

\* An add and a norm of two equal projections, fused or not.
FusableAdds ==
    {GraphOf(<<a, b, Plain(3, "add", <<d, e>>, <<T(3)>>), c>>, <<T(4)>>) :
        a \in Gelus(1), b \in Gelus(2), d \in {T(1), T(2)}, e \in {X, T(2)}, c \in Norms(4)}

\* A fused norm and matmul, readers of the one and of the other, and perhaps
\* a second fusion, any of which may be dead.
FusedReaders ==
    {GraphOf(<<a, Plain(2, "matmul", <<T(1), W>>, <<T(2)>>), c, d>>, outs) :
        a \in {Plain(1, "rmsnorm", <<X, W>>, <<T(1)>>)},
        c \in {Plain(3, "add", <<e, X>>, <<T(3)>>) : e \in {T(1), T(2)}}
                \cup {Plain(3, "rmsnorm", <<e, W>>, <<T(3)>>) : e \in {X, T(2)}},
        d \in {Plain(4, "matmul", <<T(3), W>>, <<T(4)>>), Plain(4, "add", <<T(1), T(2)>>, <<T(4)>>)},
        outs \in {<<T(2)>>, <<T(4)>>, <<T(3), T(1)>>}}

Renamed(ops, t, u) ==
    LET New(s) == [j \in DOMAIN s |-> IF s[j] = t THEN u ELSE s[j]]
    IN [k \in DOMAIN ops |->
           [ops[k] EXCEPT !.inputs = New(@), !.outputs = New(@)]]

\* A graph that suits a step of n layers: behind ops that extend the layers'
\* caches, with the first output under the name a step looks up, and with a
\* weight that the engine has.
Completed(g, n) ==
    LET Output == <<"output", 0>>
        Updates == [p \in 1..n |->
                       LET io == CacheIoNames(n, p - 1) IN
                       Plain(-p, "kv_cache_update", <<X, X, io.k_in, io.v_in>>,
                             <<io.k_out, io.v_out>>)]
        CacheOuts == FlattenSeq([p \in 1..n |-> Updates[p].outputs])
        Ops == Renamed(g.ops, g.graph_outputs[1], Output)
    IN GraphOf(Updates \o Renamed(Ops, W, <<"w_up", LayerPrefix(0, n)>>),
               <<Output>> \o CacheOuts \o Tail(g.graph_outputs))

\* The second op makes a tensor with the name of a weight.
NamedAsWeight(g) == Completed([g EXCEPT !.ops = Renamed(@, T(2), <<"w_norm1", 0>>)], 1)

\* The third op, dead or not, reads a tensor that no step provides.
AsksForMore(g) == Completed([g EXCEPT !.ops[3].inputs[1] = <<"extra", 0>>], 1)

\* Graphs that suit no step: without its results, or in need of more.
Unsuitable == FusedReaders \cup {AsksForMore(g) : g \in FusedReaders \cup FusableAdds}

TwoLayers == {Completed(g, 2) : g \in FusedReaders}

MCGraphsSet ==
    {Completed(g, 1) : g \in FusedReaders \cup FusablePairs \cup FusableAdds}
        \cup {NamedAsWeight(g) : g \in {h \in FusableAdds : h.ops[2].inputs = <<X>>}}
        \cup Unsuitable \cup TwoLayers \cup {BuildDecodeStepGraph(1)}

\* A caller's graph need not have as many layers as the engine is told.
MCNumLayers(g) ==
    IF g = BuildDecodeStepGraph(1) THEN {0, 1, 2}
    ELSE IF g \in TwoLayers THEN 1..3
    ELSE {1}

MCTensor == TensorsOf(MCGraphsSet)
MCName == NamesOf(MCGraphsSet)
MCParam == {"", "eps", "seq_len"}

\* The default list behind an empty pattern: were it to match, the scan would
\* never move on.
MCPatterns == <<[kinds |-> <<>>, fused_kind |-> "fused_nothing"]>> \o PATTERNS

MCDims == [d \in {"batch", "seq_len", "next_seq_len", "hidden_dim", "n_heads", "head_dim",
                  "qkv_dim", "ffn_dim"} |-> IF d = "next_seq_len" THEN 2 ELSE 1]
=============================================================================

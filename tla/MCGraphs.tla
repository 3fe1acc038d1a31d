------------------------------ MODULE MCGraphs ------------------------------
(***************************************************************************)
(* The families of small graphs the model-checking modules draw from.      *)
(* Tensor and op names are pairs, as in DecodeGraph.                       *)
(***************************************************************************)
EXTENDS DecodeGraph, FiniteSets, TLC

MCKind == {"rmsnorm", "matmul", "split_qkv", "rope", "kv_cache_update", "attn_qk",
           "attn_softmax", "attn_av", "reshape", "add", "gelu"}

\* The k-th op of a small graph writes T(k); X and W are external, and have
\* names under which a step provides a tensor.
T(k) == <<"t", k>>
X == <<"x", 0>>
W == <<"w_up", 0>>

Plain(k, kind, inputs, outputs) ==
    [name |-> <<"op", k>>, kind |-> kind, inputs |-> inputs, outputs |-> outputs,
     attrs |-> [param |-> "", fused_kind |-> "", sub_ops |-> <<>>]]

\* Every k-th op over the tensors available when it runs: any kind of the
\* two-to-three-op patterns, wired in any topologically ordered way.
OpsAt(k) ==
    LET D == {X} \cup {T(j) : j \in 1..(k - 1)} IN
         {Plain(k, "rmsnorm", <<d, W>>, <<T(k)>>) : d \in D}
    \cup {Plain(k, "matmul", <<d, W>>, <<T(k)>>) : d \in D}
    \cup {Plain(k, "gelu", <<d>>, <<T(k)>>) : d \in D}
    \cup {Plain(k, "add", <<d, e>>, <<T(k)>>) : d \in D, e \in D}

GraphOf(ops, outputs) ==
    LET S == {X, W} \cup UNION {{ops[k].inputs[j] : j \in DOMAIN ops[k].inputs} :
                                   k \in DOMAIN ops}
                    \cup UNION {{ops[k].outputs[j] : j \in DOMAIN ops[k].outputs} :
                                   k \in DOMAIN ops}
    IN [ops |-> ops, shapes |-> [t \in S |-> <<"batch", "hidden_dim">>],
        graph_inputs |-> <<X>>, graph_outputs |-> outputs]

\* All graphs of three such ops, and all chains of four whose first op is
\* one of the two that start most patterns.
ThreeOpGraphs ==
    {GraphOf(<<a, b, c>>, <<T(3)>>) : a \in OpsAt(1), b \in OpsAt(2), c \in OpsAt(3)}

FourOpGraphs ==
    {GraphOf(<<a, b, c, d>>, <<T(4)>>) :
        a \in {o \in OpsAt(1) : o.kind \in {"rmsnorm", "add"}},
        b \in {o \in OpsAt(2) : o.kind \in {"rmsnorm", "matmul"}},
        c \in {o \in OpsAt(3) : o.kind \in {"rmsnorm", "matmul", "gelu"}},
        d \in {o \in OpsAt(4) : o.kind \in {"matmul", "gelu"}}}

\* The four ops of the KV-cache-aware pattern with every wiring of their
\* inputs among the tensors of the attention block.
AttentionGraphs ==
    LET K == <<"k_out", 0>>
        V == <<"v_out", 0>>
        kv == Plain(1, "kv_cache_update",
                    << <<"k", 0>>, <<"v", 0>>, <<"k_in", 0>>, <<"v_in", 0>> >>, <<K, V>>)
    IN {GraphOf(<<kv, Plain(2, "attn_qk", <<X, a>>, <<T(2)>>),
                  Plain(3, "attn_softmax", <<b>>, <<T(3)>>),
                  Plain(4, "attn_av", <<c, d>>, <<T(4)>>)>>, <<T(4), K, V>>) :
            a \in {K, X}, b \in {T(2), X}, c \in {T(2), T(3), X}, d \in {V, X}}

DecodeGraphs == {BuildDecodeStepGraph(n) : n \in 1..2}

\* A decode graph with a gelu of its input slipped in before position p:
\* every window that spans p is broken up.
Interrupted(g, p) ==
    [g EXCEPT !.ops = SubSeq(g.ops, 1, p - 1)
                        \o <<Plain(0, "gelu", <<X>>, <<T(0)>>)>>
                        \o SubSeq(g.ops, p, Len(g.ops)),
              !.shapes = (T(0) :> <<"batch", "hidden_dim">>) @@ g.shapes]

InterruptedGraphs ==
    LET g == BuildDecodeStepGraph(1) IN {Interrupted(g, p) : p \in 1..(Len(g.ops) + 1)}

TensorsOf(GG) == UNION {DOMAIN g.shapes : g \in GG}
NamesOf(GG) == {op.name : op \in UNION {{g.ops[k] : k \in DOMAIN g.ops} : g \in GG}}
=============================================================================

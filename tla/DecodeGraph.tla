---------------------------- MODULE DecodeGraph -----------------------------
(***************************************************************************)
(* build_decode_step_graph of src/ir.py: the graph of one decode step      *)
(* across num_layers stacked transformer layers.                           *)
(*                                                                         *)
(* A tensor or op name is a pair <<local name, layer prefix>>.  The prefix *)
(* f"l{layer}_" is layer + 1, the empty prefix is 0: what the properties   *)
(* need of the string is that different layers never share a name.         *)
(***************************************************************************)
EXTENDS Integers, Sequences

LayerPrefix(layer, num_layers) == IF num_layers > 1 THEN layer + 1 ELSE 0

CacheIoNames(num_layers, layer) ==
    LET p == LayerPrefix(layer, num_layers) IN
    [k_in |-> <<"cache_k_in", p>>, v_in |-> <<"cache_v_in", p>>,
     k_out |-> <<"cache_k_out", p>>, v_out |-> <<"cache_v_out", p>>]

\* The parameters of a layer.
WeightNames(num_layers, layer) ==
    {"w_norm1", "w_qkv", "w_o", "w_norm2", "w_up", "w_down"}
        \X {LayerPrefix(layer, num_layers)}

\* The declared shape of every tensor local to a layer.
LocalShapes ==
    LET BH == <<"batch", "hidden_dim">>
        BHD == <<"batch", "n_heads", "head_dim">>
        CacheIn == <<"batch", "seq_len", "n_heads", "head_dim">>
        CacheOut == <<"batch", "next_seq_len", "n_heads", "head_dim">>
        BHT == <<"batch", "n_heads", "next_seq_len">>
    IN [w_norm1 |-> <<"hidden_dim">>, x_norm |-> BH,
        w_qkv |-> <<"hidden_dim", "qkv_dim">>, qkv |-> <<"batch", "qkv_dim">>,
        q |-> BHD, k_new |-> BHD, v_new |-> BHD, q_rot |-> BHD, k_rot |-> BHD,
        cache_k_in |-> CacheIn, cache_v_in |-> CacheIn,
        cache_k_out |-> CacheOut, cache_v_out |-> CacheOut,
        scores |-> BHT, probs |-> BHT, attn_out |-> BHD, attn_out_flat |-> BH,
        w_o |-> <<"hidden_dim", "hidden_dim">>, attn_proj |-> BH,
        resid1 |-> BH, w_norm2 |-> <<"hidden_dim">>, resid1_norm |-> BH,
        w_up |-> <<"hidden_dim", "ffn_dim">>, ff_hidden |-> <<"batch", "ffn_dim">>,
        ff_act |-> <<"batch", "ffn_dim">>, w_down |-> <<"ffn_dim", "hidden_dim">>,
        ff_out |-> BH]

LayerOps(prefix, input_name, output_name) ==
    LET n(local) == <<local, prefix>>
        MkPlain(name, kind, inputs, outputs, param) ==
            [name |-> n(name), kind |-> kind, inputs |-> inputs, outputs |-> outputs,
             attrs |-> [param |-> param, fused_kind |-> "", sub_ops |-> <<>>]]
    IN << MkPlain("norm1", "rmsnorm", <<input_name, n("w_norm1")>>, <<n("x_norm")>>, "eps"),
          MkPlain("qkv_proj", "matmul", <<n("x_norm"), n("w_qkv")>>, <<n("qkv")>>, ""),
          MkPlain("split", "split_qkv", <<n("qkv")>>, <<n("q"), n("k_new"), n("v_new")>>, ""),
          MkPlain("rope", "rope", <<n("q"), n("k_new")>>, <<n("q_rot"), n("k_rot")>>, "seq_len"),
          MkPlain("kv_update", "kv_cache_update",
                  <<n("k_rot"), n("v_new"), n("cache_k_in"), n("cache_v_in")>>,
                  <<n("cache_k_out"), n("cache_v_out")>>, ""),
          MkPlain("qk", "attn_qk", <<n("q_rot"), n("cache_k_out")>>, <<n("scores")>>, ""),
          MkPlain("softmax", "attn_softmax", <<n("scores")>>, <<n("probs")>>, ""),
          MkPlain("av", "attn_av", <<n("probs"), n("cache_v_out")>>, <<n("attn_out")>>, ""),
          MkPlain("flatten", "reshape", <<n("attn_out")>>, <<n("attn_out_flat")>>, ""),
          MkPlain("o_proj", "matmul", <<n("attn_out_flat"), n("w_o")>>, <<n("attn_proj")>>, ""),
          MkPlain("resid1", "add", <<input_name, n("attn_proj")>>, <<n("resid1")>>, ""),
          MkPlain("norm2", "rmsnorm", <<n("resid1"), n("w_norm2")>>, <<n("resid1_norm")>>, "eps"),
          MkPlain("up_proj", "matmul", <<n("resid1_norm"), n("w_up")>>, <<n("ff_hidden")>>, ""),
          MkPlain("act", "gelu", <<n("ff_hidden")>>, <<n("ff_act")>>, ""),
          MkPlain("down_proj", "matmul", <<n("ff_act"), n("w_down")>>, <<n("ff_out")>>, ""),
          MkPlain("resid2", "add", <<n("resid1"), n("ff_out")>>, <<output_name>>, "") >>

\* The residual stream between the layers: the tensor layer reads and the
\* one it writes.
LayerInput(layer) == IF layer = 0 THEN <<"x", 0>> ELSE <<"output", layer>>
LayerOutput(layer, num_layers) ==
    IF layer = num_layers - 1 THEN <<"output", 0>> ELSE <<"output", layer + 1>>

OpsPerLayer == 16

\* For one layer and more; for fewer the code raises ValueError and there is
\* no graph.
BuildDecodeStepGraph(num_layers) ==
    LET Layers == 0..(num_layers - 1)
        Stream == {LayerInput(l) : l \in Layers} \cup {LayerOutput(l, num_layers) : l \in Layers}
        Locals == (DOMAIN LocalShapes) \X {LayerPrefix(l, num_layers) : l \in Layers}
        Caches(l) == CacheIoNames(num_layers, l)
    IN [ops |-> [p \in 1..(OpsPerLayer * num_layers) |->
                    LET l == (p - 1) \div OpsPerLayer IN
                    LayerOps(LayerPrefix(l, num_layers), LayerInput(l),
                             LayerOutput(l, num_layers))[1 + ((p - 1) % OpsPerLayer)]],
        shapes |-> [t \in Stream \cup Locals |->
                        IF t \in Stream THEN <<"batch", "hidden_dim">> ELSE LocalShapes[t[1]]],
        graph_inputs |-> [p \in 1..(1 + 2 * num_layers) |->
                             IF p = 1 THEN <<"x", 0>>
                             ELSE IF p % 2 = 0 THEN Caches(p \div 2 - 1).k_in
                             ELSE Caches(p \div 2 - 1).v_in],
        graph_outputs |-> [p \in 1..(1 + 2 * num_layers) |->
                             IF p = 1 THEN <<"output", 0>>
                             ELSE IF p % 2 = 0 THEN Caches(p \div 2 - 1).k_out
                             ELSE Caches(p \div 2 - 1).v_out]]
=============================================================================

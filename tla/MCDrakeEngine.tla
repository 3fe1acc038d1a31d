--------------------------- MODULE MCDrakeEngine ----------------------------
(***************************************************************************)
(* Values for the constants of DrakeEngine: the built-in graph of one and  *)
(* of two layers as the passes leave it, boundaries of every sort, and     *)
(* prompts that end next to a boundary.                                    *)
(***************************************************************************)
EXTENDS DrakeEngine

CONSTANTS r1, r2

F == INSTANCE Fusion WITH Patterns <- <<>>

\* The windows of a layer that run fuses: first op, last op and kind.
FusedWindows ==
    << <<1, 2, "fused_norm_matmul">>, <<5, 8, "fused_attention_kvupdate">>,
       <<11, 12, "fused_add_rmsnorm">>, <<13, 14, "fused_matmul_gelu">> >>

\* The ops of layer l with those windows fused.
FusedLayer(ops, l) ==
    LET base == l * OpsPerLayer
        Fused(w) == F!MakeFusedOp(SubSeq(ops, base + FusedWindows[w][1], base + FusedWindows[w][2]),
                                  FusedWindows[w][3], 4 * l + w - 1)
    IN <<Fused(1), ops[base + 3], ops[base + 4], Fused(2), ops[base + 9], ops[base + 10],
         Fused(3), Fused(4), ops[base + 15], ops[base + 16]>>

FusedDecode(num_layers) ==
    LET g == BuildDecodeStepGraph(num_layers) IN
    [g EXCEPT !.ops = FlattenSeq([n \in 1..num_layers |-> FusedLayer(g.ops, n - 1)])]

OneLayer == FusedDecode(1)
TwoLayers == FusedDecode(2)

\* A caller's own graph, in which a projection bears the name of an add.
TwoOfOneName ==
    [OneLayer EXCEPT !.ops[6].name = OneLayer.ops[10].name]

EngineOf(graph, num_layers, seq_boundaries, batch_boundaries) ==
    [graph |-> graph, num_layers |-> num_layers,
     seq_boundaries |-> seq_boundaries, batch_boundaries |-> batch_boundaries]

MCEngines ==
    {EngineOf(OneLayer, 1, DEFAULT_SEQ_BOUNDARIES, DEFAULT_BATCH_BOUNDARIES),
     EngineOf(TwoLayers, 2, DEFAULT_SEQ_BOUNDARIES, DEFAULT_BATCH_BOUNDARIES),
     EngineOf(TwoOfOneName, 1, <<1, 1, 3>>, <<>>),
     EngineOf(OneLayer, 1, <<>>, <<2, 8>>),
     EngineOf(OneLayer, 1, <<1024, 128>>, <<8>>)}

\* Bound: the lengths a session begins with.
Lengths == {0, 127, 1023, 2^(Width - 1) - 2}

\* A small and a large batch, in lock-step lengths or not; layers whose
\* caches differ in length.
MCPrompts(e) ==
    LET Prompt(b, n) == [batch |-> b, lengths |-> n] IN
    IF e.num_layers = 1
    THEN {(r1 :> Prompt(1, <<n1>>)) @@ (r2 :> Prompt(8, <<n2>>)) : n1 \in Lengths, n2 \in {127}}
    ELSE {(r1 :> Prompt(7, n1)) @@ (r2 :> Prompt(7, n2)) : n1 \in {<<127, 127>>}, n2 \in {<<3, 0>>, <<0, 2>>}}

MCRequest == {r1, r2}
=============================================================================

------------------------------- MODULE Fusion -------------------------------
(***************************************************************************)
(* What the two selection strategies of src/passes/fusion.py share: the    *)
(* patterns, when a window of ops matches one, and the fused op that takes *)
(* the window's place.                                                     *)
(***************************************************************************)
EXTENDS Verify

CONSTANT Patterns   \* the argument patterns of run: a list, tried in order

\* Mutant of PATTERNS: the short patterns come first.
ShortPatternsFirst ==
    << [kinds |-> <<"rmsnorm", "matmul">>, fused_kind |-> "fused_norm_matmul"],
       [kinds |-> <<"rmsnorm", "matmul", "gelu">>,
        fused_kind |-> "fused_norm_matmul_gelu"] >>

\* The default value of that argument.
PATTERNS ==
    << [kinds |-> <<"kv_cache_update", "attn_qk", "attn_softmax", "attn_av">>,
        fused_kind |-> "fused_attention_kvupdate"],
       [kinds |-> <<"rmsnorm", "matmul", "gelu">>,
        fused_kind |-> "fused_norm_matmul_gelu"],
       [kinds |-> <<"attn_qk", "attn_softmax", "attn_av">>,
        fused_kind |-> "fused_attention"],
       [kinds |-> <<"add", "rmsnorm">>, fused_kind |-> "fused_add_rmsnorm"],
       [kinds |-> <<"rmsnorm", "matmul">>, fused_kind |-> "fused_norm_matmul"],
       [kinds |-> <<"matmul", "gelu">>, fused_kind |-> "fused_matmul_gelu"] >>

FusedKind == {Patterns[p].fused_kind : p \in DOMAIN Patterns}

ASSUME PatternsAssumption ==
    /\ Patterns \in Seq(Range(Patterns))
    /\ \A p \in DOMAIN Patterns : Patterns[p].kinds \in Seq(Kind)
----------------------------------------------------------------------------
\* op produces a tensor that later reads.
Feeds(op, later) == Range(op.outputs) \cap Range(later.inputs) # {}

\* The scan visits the window's ops in order and marks what each marked op
\* feeds, starting from the first; the last one must end up marked.  An
\* empty window has no last op and is rejected.
IsConnectedChain(window) ==
    LET reached[j \in 1..Len(window)] ==
            \/ j = 1
            \/ \E k \in 1..(j - 1) : reached[k] /\ Feeds(window[k], window[j])
    IN Len(window) > 0 /\ reached[Len(window)]

\* The patterns that match the ops from position i on.
Matches(ops, i) ==
    {p \in DOMAIN Patterns :
        LET kinds == Patterns[p].kinds
            window == SubSeq(ops, i, i + Len(kinds) - 1)
        IN /\ i + Len(kinds) - 1 <= Len(ops)
           /\ \A k \in DOMAIN kinds : window[k].kind = kinds[k]
           /\ IsConnectedChain(window)}
----------------------------------------------------------------------------
(***************************************************************************)
(* A fused op's interface lists tensors in the order its window mentions   *)
(* them, each once.  The mentions are a function from positions <<op,      *)
(* argument>>, ordered lexicographically, to tensors.                      *)
(***************************************************************************)
Before(p, q) == p[1] < q[1] \/ (p[1] = q[1] /\ p[2] < q[2])

FirstMentions(f) ==
    {p \in DOMAIN f : \A q \in DOMAIN f : Before(q, p) => f[q] # f[p]}

Nth(P, k) == CHOOSE p \in P : Cardinality({q \in P : Before(q, p)}) = k - 1

DistinctInOrder(f) ==
    [k \in 1..Cardinality(FirstMentions(f)) |-> f[Nth(FirstMentions(f), k)]]

\* Mutant of AllInputs: only the first op's inputs are collected.
FirstOpInputs(window) == [p \in {1} \X (DOMAIN window[1].inputs) |-> window[1].inputs[p[2]]]

AllInputs(window) ==
    [p \in UNION {{k} \X (DOMAIN window[k].inputs) : k \in DOMAIN window} |->
        window[p[1]].inputs[p[2]]]

AllOutputs(window) ==
    [p \in UNION {{k} \X (DOMAIN window[k].outputs) : k \in DOMAIN window} |->
        window[p[1]].outputs[p[2]]]

\* Mutant of Internal: the tensors handed on inside the window stay inputs.
NothingInternal(window) == {}

Internal(window) == WrittenBy(window) \cap ReadBy(window)

\* Mutant of FusedName: the running index is left out.
UnnumberedName(fused_kind, index) == <<fused_kind, 0>>

FusedName(fused_kind, index) == <<fused_kind, index>>

\* The inputs the window does not produce itself; every output is kept.
MakeFusedOp(window, fused_kind, index) ==
    LET reads == AllInputs(window)
        outer == {p \in DOMAIN reads : reads[p] \notin Internal(window)}
    IN MkOp(FusedName(fused_kind, index), "fused",
            DistinctInOrder([p \in outer |-> reads[p]]),
            DistinctInOrder(AllOutputs(window)),
            [param |-> "", fused_kind |-> fused_kind, sub_ops |-> window])

FusedOp ==
    [name : FusedKind \X Nat, kind : {"fused"},
     inputs : Seq(Tensor), outputs : Seq(Tensor),
     attrs : [param : {""}, fused_kind : FusedKind, sub_ops : Seq(PlainOp)]]
=============================================================================

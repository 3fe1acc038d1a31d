----------------------------- MODULE Specialize -----------------------------
(***************************************************************************)
(* src/passes/specialize.py: the buckets that two lists of boundaries cut  *)
(* the shapes (seq_len, batch) into, the reference classifier, and the     *)
(* kernel plan of a bucket.  A bucket's upper ends are exclusive, and -1   *)
(* stands for no end.                                                      *)
(***************************************************************************)
EXTENDS Integers, FiniteSets, Sequences

DEFAULT_SEQ_BOUNDARIES == <<128, 1024>>
DEFAULT_BATCH_BOUNDARIES == <<8>>

\* No boundary is negative, and none is below an earlier one.
InOrder(boundaries) ==
    \A j \in DOMAIN boundaries :
        0 <= boundaries[j] /\ \A k \in 1..j : boundaries[k] <= boundaries[j]

Edges(boundaries) == <<0>> \o boundaries \o <<-1>>

NumBuckets(seq_boundaries, batch_boundaries) ==
    (Len(seq_boundaries) + 1) * (Len(batch_boundaries) + 1)

\* Mutant of BuildBucketTable: the batch ranges are the outer loop.
BatchMajorTable(seq_boundaries, batch_boundaries) ==
    LET seq_edges == Edges(seq_boundaries)
        batch_edges == Edges(batch_boundaries)
        ns == Len(seq_boundaries) + 1
    IN [id \in 0..(NumBuckets(seq_boundaries, batch_boundaries) - 1) |->
           LET bi == 1 + (id \div ns)
               si == 1 + (id % ns)
           IN [bucket_id |-> id, seq_lo |-> seq_edges[si], seq_hi |-> seq_edges[si + 1],
               batch_lo |-> batch_edges[bi], batch_hi |-> batch_edges[bi + 1]]]

\* The bucket of every id: one per pair of neighbouring edges, the batch
\* ranges in the inner loop.
BuildBucketTable(seq_boundaries, batch_boundaries) ==
    LET seq_edges == Edges(seq_boundaries)
        batch_edges == Edges(batch_boundaries)
        nb == Len(batch_boundaries) + 1
    IN [id \in 0..(NumBuckets(seq_boundaries, batch_boundaries) - 1) |->
           LET si == 1 + (id \div nb)
               bi == 1 + (id % nb)
           IN [bucket_id |-> id, seq_lo |-> seq_edges[si], seq_hi |-> seq_edges[si + 1],
               batch_lo |-> batch_edges[bi], batch_hi |-> batch_edges[bi + 1]]]

\* lo <= n < hi, where a negative hi is no bound.
InRange(n, lo, hi) == lo <= n /\ (hi >= 0 => n < hi)

BucketContains(bucket, seq_len, batch) ==
    /\ InRange(seq_len, bucket.seq_lo, bucket.seq_hi)
    /\ InRange(batch, bucket.batch_lo, bucket.batch_hi)

CountReached(n, boundaries) == Cardinality({k \in DOMAIN boundaries : n >= boundaries[k]})

Classify(seq_len, batch, seq_boundaries, batch_boundaries) ==
    CountReached(seq_len, seq_boundaries) * (Len(batch_boundaries) + 1)
        + CountReached(batch, batch_boundaries)
----------------------------------------------------------------------------
ATTENTION_KINDS == {"fused_attention", "fused_attention_kvupdate"}
MATMUL_KINDS ==
    {"fused_norm_matmul", "fused_norm_matmul_gelu", "fused_matmul_gelu", "matmul"}

\* A KernelVariant: its name and its one parameter, 0 where it has none.
KernelVariant(name, param) == [name |-> name, param |-> param]

\* Mutant of Below: the sentinel is compared like any other end.
BelowUnguarded(hi, limit) == hi <= limit

\* The range with the exclusive end hi stays below limit.
Below(hi, limit) == hi # -1 /\ hi <= limit

VariantFor(fused_kind, bucket) ==
    IF fused_kind \in ATTENTION_KINDS
    THEN IF Below(bucket.seq_hi, 128) THEN KernelVariant("vector", 0)
         ELSE IF Below(bucket.seq_hi, 1024) THEN KernelVariant("tiled", 64)
         ELSE KernelVariant("tiled", 128)
    ELSE IF fused_kind \in MATMUL_KINDS
    THEN IF Below(bucket.batch_hi, 8) THEN KernelVariant("single_block", 0)
         ELSE KernelVariant("blocked_batch", 8)
    ELSE KernelVariant("default", 0)

\* The kind an op is specialized as: a fused op's is that of its pattern.
VariantKind(op) == IF op.kind = "fused" THEN op.attrs.fused_kind ELSE op.kind

\* A KernelPlan: variants are keyed by the ops' names, and of two ops with
\* one name the later one's is kept.
Specialized(fused_graph, bucket) ==
    LET ops == fused_graph.ops
        LastNamed(name) ==
            CHOOSE k \in DOMAIN ops :
                ops[k].name = name /\ \A j \in DOMAIN ops : ops[j].name = name => j <= k
    IN [bucket |-> bucket,
        variants |-> [name \in {ops[k].name : k \in DOMAIN ops} |->
                         VariantFor(VariantKind(ops[LastNamed(name)]), bucket)]]
=============================================================================

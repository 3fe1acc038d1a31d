---------------------------- MODULE DispatchJit -----------------------------
(***************************************************************************)
(* src/codegen/dispatch_jit.py: the classifier compiled to native code.    *)
(* It is specialize.py's classify in Width-bit two's complement integers   *)
(* (32 in the code): ctypes cuts its arguments down to Width bits, and     *)
(* every sum and product wraps.                                            *)
(***************************************************************************)
EXTENDS Specialize

CONSTANT Width      \* of the native integers

\* That a power of two is a number, and twice the one before, is arithmetic
\* the theorems could not do without and the provers have no rules for.
ASSUME WidthAssumption ==
    /\ Width \in Nat \ {0, 1}
    /\ 2^(Width - 1) \in Nat \ {0}
    /\ 2^Width = 2 * 2^(Width - 1)

Wrap(n) ==
    LET low == n % 2^Width IN
    IF low >= 2^(Width - 1) THEN low - 2^Width ELSE low

\* The non-negative integers a native one can hold.
Fits(n) == 0 <= n /\ n < 2^(Width - 1)

\* Mutant of BucketIndex: the comparison is the strict one.
BucketIndexAbove(value, boundaries) ==
    Wrap(Cardinality({k \in DOMAIN boundaries : value > Wrap(boundaries[k])}))

\* The comparisons that hold, added up: a chain of additions that may wrap
\* comes to the sum, wrapped.
BucketIndex(value, boundaries) ==
    Wrap(Cardinality({k \in DOMAIN boundaries : value >= Wrap(boundaries[k])}))

\* drake_dispatch, called with Python integers.
NativeClassify(seq_len, batch, seq_boundaries, batch_boundaries) ==
    LET seq_idx == BucketIndex(Wrap(seq_len), seq_boundaries)
        batch_idx == BucketIndex(Wrap(batch), batch_boundaries)
        num_batch_buckets == Wrap(Len(batch_boundaries) + 1)
    IN Wrap(Wrap(seq_idx * num_batch_buckets) + batch_idx)
=============================================================================

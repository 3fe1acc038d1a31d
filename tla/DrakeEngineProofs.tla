------------------------- MODULE DrakeEngineProofs --------------------------
(***************************************************************************)
(* What holds in every session, with any engine, any requests and however  *)
(* many tokens and failures.  First the tables: the buckets of boundaries  *)
(* that are in order partition the shapes, and the two classifiers name    *)
(* the one a shape lies in.  Then the session itself, from an invariant of *)
(* the running step, up to what Decoding promises.                         *)
(***************************************************************************)
EXTENDS DrakeEngine, GraphLemmas

\* Of boundaries in order a size reaches those up to the number it reaches.
LEMMA ReachedComeFirst ==
    ASSUME NEW bs \in Seq(Nat), InOrder(bs), NEW n \in Nat
    PROVE  /\ CountReached(n, bs) \in 0..Len(bs)
           /\ \A k \in 1..Len(bs) : n >= bs[k] <=> k <= CountReached(n, bs)
<1> DEFINE Reached == {k \in DOMAIN bs : n >= bs[k]}
           c == Cardinality(Reached)
<1>1. Len(bs) \in Nat /\ DOMAIN bs = 1..Len(bs) /\ \A k \in 1..Len(bs) : bs[k] \in Nat
  BY LenProperties, ElementOfSeq
<1>2. /\ IsFiniteSet(1..Len(bs)) /\ Cardinality(1..Len(bs)) = Len(bs)
  BY <1>1, PositionsCounted
<1>3. IsFiniteSet(Reached) /\ c <= Len(bs)
  BY <1>1, <1>2, FS_Subset
<1>4. c \in Nat
  BY <1>3, FS_CardinalityType
<1>5. ASSUME NEW k \in Reached PROVE 1..k \subseteq Reached
  <2>1. k \in 1..Len(bs) /\ n >= bs[k]
    BY <1>1
  <2>2. ASSUME NEW j \in 1..k PROVE j \in Reached
    <3>1. j \in 1..Len(bs) /\ bs[j] <= bs[k]
      BY <1>1, <2>1 DEF InOrder
    <3>2. n >= bs[j]
      BY <1>1, <2>1, <3>1
    <3> QED  BY <1>1, <3>1, <3>2
  <2> QED  BY <2>2
<1>6. ASSUME NEW k \in Reached PROVE k \in 1..c
  <2>1. k \in 1..Len(bs)
    BY <1>1
  <2>2. IsFiniteSet(1..k) /\ Cardinality(1..k) = k
    <3>1. k \in Nat
      BY <1>1, <2>1
    <3> QED  BY <3>1, PositionsCounted
  <2>3. k <= c
    BY <1>3, <1>5, <2>2, FS_Subset
  <2> QED  BY <1>1, <1>4, <2>1, <2>3
<1>7. Reached = 1..c
  <2>1. Reached \in SUBSET (1..c)
    BY <1>6
  <2>2. IsFiniteSet(1..c) /\ Cardinality(1..c) = c
    BY <1>4, PositionsCounted
  <2> QED  BY <2>1, <2>2, FS_Subset
<1>8. c = CountReached(n, bs)
  BY DEF CountReached
<1>9. \A k \in 1..Len(bs) : n >= bs[k] <=> k \in 1..c
  BY <1>1, <1>7
<1> HIDE DEF c
<1> QED  BY <1>1, <1>3, <1>4, <1>8, <1>9

\* The edges of a list of boundaries.
LEMMA EdgesProperties ==
    ASSUME NEW bs \in Seq(Nat)
    PROVE  /\ Edges(bs)[1] = 0
           /\ \A k \in 1..Len(bs) : Edges(bs)[k + 1] = bs[k]
           /\ Edges(bs)[Len(bs) + 2] = -1
<1>1. Len(bs) \in Nat /\ bs \in Seq(Int) /\ <<0>> \in Seq(Int) /\ <<-1>> \in Seq(Int)
  <2>1. bs \in [1..Len(bs) -> Nat] /\ Len(bs) \in Nat
    BY LenProperties
  <2>2. bs \in [1..Len(bs) -> Int]
    BY <2>1
  <2> QED  BY <2>1, <2>2, SeqDef
<1> DEFINE front == <<0>> \o bs
<1>2. /\ front \in Seq(Int) /\ Len(front) = 1 + Len(bs)
      /\ \A j \in 1..(1 + Len(bs)) : front[j] = IF j <= 1 THEN <<0>>[j] ELSE bs[j - 1]
  <2>1. Len(<<0>>) = 1
    OBVIOUS
  <2> QED  BY <1>1, <2>1, ConcatProperties
<1>3. Edges(bs) = front \o <<-1>>
  BY DEF Edges
<1> HIDE DEF front
<1>4. \A j \in 1..((1 + Len(bs)) + 1) :
         Edges(bs)[j] = IF j <= 1 + Len(bs) THEN front[j] ELSE <<-1>>[j - (1 + Len(bs))]
  <2>1. Len(<<-1>>) = 1
    OBVIOUS
  <2> QED  BY <1>1, <1>2, <1>3, <2>1, ConcatProperties
<1>5. Edges(bs)[1] = 0
  <2>1. 1 \in 1..((1 + Len(bs)) + 1) /\ 1 <= 1 + Len(bs) /\ 1 \in 1..(1 + Len(bs))
    BY <1>1
  <2> QED  BY <1>2, <1>4, <2>1
<1>6. ASSUME NEW k \in 1..Len(bs) PROVE Edges(bs)[k + 1] = bs[k]
  <2>1. /\ k + 1 \in 1..((1 + Len(bs)) + 1) /\ k + 1 <= 1 + Len(bs)
        /\ k + 1 \in 1..(1 + Len(bs)) /\ ~ (k + 1 <= 1) /\ (k + 1) - 1 = k
    BY <1>1
  <2> QED  BY <1>2, <1>4, <2>1
<1>7. Edges(bs)[Len(bs) + 2] = -1
  <2>1. /\ Len(bs) + 2 \in 1..((1 + Len(bs)) + 1) /\ ~ (Len(bs) + 2 <= 1 + Len(bs))
        /\ (Len(bs) + 2) - (1 + Len(bs)) = 1
    BY <1>1
  <2> QED  BY <1>4, <2>1
<1> QED  BY <1>5, <1>6, <1>7

\* A size lies between one pair of neighbouring edges, that after as many
\* boundaries as it reaches.
LEMMA OneRange ==
    ASSUME NEW bs \in Seq(Nat), InOrder(bs), NEW n \in Nat, NEW s \in 0..Len(bs)
    PROVE  InRange(n, Edges(bs)[s + 1], Edges(bs)[s + 2]) <=> s = CountReached(n, bs)
<1> DEFINE c == CountReached(n, bs)
           lo == Edges(bs)[s + 1]
           hi == Edges(bs)[s + 2]
<1>1. Len(bs) \in Nat /\ \A k \in 1..Len(bs) : bs[k] \in Nat
  BY LenProperties, ElementOfSeq
<1>2. c \in 0..Len(bs) /\ \A k \in 1..Len(bs) : n >= bs[k] <=> k <= c
  BY ReachedComeFirst
<1> HIDE DEF c
<1>3. lo <= n <=> s <= c
  <2>1. CASE s = 0
    <3>1. lo = 0
      BY <2>1, EdgesProperties
    <3> QED  BY <1>1, <1>2, <2>1, <3>1
  <2>2. CASE s # 0
    <3>1. s \in 1..Len(bs)
      BY <1>1, <2>2
    <3>2. lo = bs[s] /\ bs[s] \in Nat /\ (n >= bs[s] <=> s <= c)
      BY <1>1, <1>2, <3>1, EdgesProperties
    <3> QED  BY <3>2
  <2> QED  BY <2>1, <2>2
<1>4. (hi >= 0 => n < hi) <=> c <= s
  <2>1. CASE s = Len(bs)
    <3>1. hi = -1
      BY <2>1, EdgesProperties
    <3>2. ~ (hi >= 0)
      BY <3>1
    <3> QED  BY <1>1, <1>2, <2>1, <3>2
  <2>2. CASE s # Len(bs)
    <3>1. s + 1 \in 1..Len(bs) /\ (s + 1) + 1 = s + 2
      BY <1>1, <2>2
    <3>2. hi = bs[s + 1] /\ bs[s + 1] \in Nat /\ (n >= bs[s + 1] <=> s + 1 <= c)
      BY <1>1, <1>2, <3>1, EdgesProperties
    <3> QED  BY <1>1, <1>2, <3>2
  <2> QED  BY <2>1, <2>2
<1>5. InRange(n, lo, hi) <=> s <= c /\ c <= s
  BY <1>3, <1>4 DEF InRange
<1>6. (s <= c /\ c <= s) <=> s = c
  BY <1>1, <1>2
<1> QED  BY <1>5, <1>6 DEF c

\* Rows and columns of a table laid out in a row.
LEMMA RowAndColumn ==
    ASSUME NEW rows \in Nat, NEW cols \in Nat \ {0}, NEW id \in 0..(rows * cols - 1)
    PROVE  /\ id \div cols \in 0..(rows - 1) /\ id % cols \in 0..(cols - 1)
           /\ id = (id \div cols) * cols + (id % cols)
<1> DEFINE q == id \div cols
           r == id % cols
<1>1. rows * cols \in Nat /\ id \in Nat /\ id < rows * cols
  OBVIOUS
<1>2. q \in Int /\ r \in 0..(cols - 1) /\ id = cols * q + r
  BY <1>1
<1> HIDE DEF q, r
<1>3. cols * q = q * cols /\ q * cols \in Int
  BY <1>2
<1>4. q >= 0
  <2>1. q <= -1 => q * cols <= -cols
    BY <1>2
  <2> QED  BY <1>1, <1>2, <1>3, <2>1
<1>5. q < rows
  <2>1. q >= rows => q * cols >= rows * cols
    BY <1>2
  <2> QED  BY <1>1, <1>2, <1>3, <2>1
<1> QED  BY <1>2, <1>3, <1>4, <1>5 DEF q, r

LEMMA RowAndColumnUnique ==
    ASSUME NEW cols \in Nat \ {0}, NEW q \in Int, NEW p \in Int,
           NEW r \in 0..(cols - 1), NEW t \in 0..(cols - 1), q * cols + r = p * cols + t
    PROVE  q = p /\ r = t
<1>1. q * cols \in Int /\ p * cols \in Int
  OBVIOUS
<1>2. ASSUME q < p PROVE FALSE
  <2>1. (q + 1) * cols <= p * cols /\ (q + 1) * cols = q * cols + cols
    BY <1>2
  <2> QED  BY <1>1, <2>1
<1>3. ASSUME p < q PROVE FALSE
  <2>1. (p + 1) * cols <= q * cols /\ (p + 1) * cols = p * cols + cols
    BY <1>3
  <2> QED  BY <1>1, <2>1
<1>4. q = p
  BY <1>2, <1>3
<1> QED  BY <1>1, <1>4

LEMMA IdOfRowAndColumn ==
    ASSUME NEW rows \in Nat, NEW cols \in Nat,
           NEW row \in 0..(rows - 1), NEW col \in 0..(cols - 1)
    PROVE  row * cols + col \in 0..(rows * cols - 1)
<1>1. row \in Nat /\ row + 1 <= rows
  OBVIOUS
<1>2. (row + 1) * cols <= rows * cols
  BY <1>1
<1>3. row * cols \in Nat /\ rows * cols \in Nat /\ (row + 1) * cols = row * cols + cols
  BY <1>1
<1>4. col \in Nat /\ col < cols
  OBVIOUS
<1> DEFINE x == row * cols
           y == rows * cols
<1>5. x \in Nat /\ y \in Nat /\ x + cols <= y
  BY <1>2, <1>3
<1> HIDE DEF x, y
<1>6. x + col \in 0..(y - 1)
  BY <1>1, <1>4, <1>5
<1> QED  BY <1>6 DEF x, y

\* The buckets of build_bucket_table partition the shapes: for every two
\* lists of boundaries in order, repeated ones and none at all included, and
\* every shape, the one bucket that contains it is the one classify names.
THEOREM BucketsPartitionShapes ==
    ASSUME NEW seq_boundaries \in Seq(Nat), InOrder(seq_boundaries),
           NEW batch_boundaries \in Seq(Nat), InOrder(batch_boundaries),
           NEW seq_len \in Nat, NEW batch_size \in Nat
    PROVE  LET table == BuildBucketTable(seq_boundaries, batch_boundaries) IN
           {id \in DOMAIN table : BucketContains(table[id], seq_len, batch_size)}
               = {Classify(seq_len, batch_size, seq_boundaries, batch_boundaries)}
<1> DEFINE table == BuildBucketTable(seq_boundaries, batch_boundaries)
           ns == Len(seq_boundaries) + 1
           nb == Len(batch_boundaries) + 1
           cs == CountReached(seq_len, seq_boundaries)
           cb == CountReached(batch_size, batch_boundaries)
           named == cs * nb + cb
<1>1. ns \in Nat /\ nb \in Nat \ {0} /\ ns - 1 = Len(seq_boundaries) /\ nb - 1 = Len(batch_boundaries)
  BY LenProperties
<1>2. DOMAIN table = 0..(ns * nb - 1)
  BY DEF BuildBucketTable, NumBuckets
<1>3. ASSUME NEW id \in DOMAIN table
      PROVE  /\ table[id].seq_lo = Edges(seq_boundaries)[1 + (id \div nb)]
             /\ table[id].seq_hi = Edges(seq_boundaries)[(1 + (id \div nb)) + 1]
             /\ table[id].batch_lo = Edges(batch_boundaries)[1 + (id % nb)]
             /\ table[id].batch_hi = Edges(batch_boundaries)[(1 + (id % nb)) + 1]
  BY <1>2, <1>3 DEF BuildBucketTable, NumBuckets
<1>4. named = Classify(seq_len, batch_size, seq_boundaries, batch_boundaries)
  BY DEF Classify
<1>5. cs \in 0..(ns - 1) /\ cb \in 0..(nb - 1)
  BY <1>1, ReachedComeFirst
<1>6. ASSUME NEW id \in DOMAIN table
      PROVE  BucketContains(table[id], seq_len, batch_size) <=> id = named
  <2> DEFINE q == id \div nb
             r == id % nb
  <2>1. q \in 0..(ns - 1) /\ r \in 0..(nb - 1) /\ id = q * nb + r
    BY <1>1, <1>2, RowAndColumn
  <2>2. table[id].seq_lo = Edges(seq_boundaries)[q + 1] /\ table[id].seq_hi = Edges(seq_boundaries)[q + 2]
    <3>1. 1 + q = q + 1 /\ (1 + q) + 1 = q + 2
      BY <2>1
    <3> QED  BY <1>3, <3>1
  <2>3. table[id].batch_lo = Edges(batch_boundaries)[r + 1] /\ table[id].batch_hi = Edges(batch_boundaries)[r + 2]
    <3>1. 1 + r = r + 1 /\ (1 + r) + 1 = r + 2
      BY <2>1
    <3> QED  BY <1>3, <3>1
  <2> HIDE DEF q, r, table, cs, cb, ns, nb
  <2>4. InRange(seq_len, table[id].seq_lo, table[id].seq_hi) <=> q = cs
    BY <1>1, <2>1, <2>2, OneRange DEF cs
  <2>5. InRange(batch_size, table[id].batch_lo, table[id].batch_hi) <=> r = cb
    BY <1>1, <2>1, <2>3, OneRange DEF cb
  <2>6. q = cs /\ r = cb <=> id = cs * nb + cb
    <3>1. /\ q \in Int /\ cs \in Int /\ nb \in Nat \ {0}
          /\ r \in 0..(nb - 1) /\ cb \in 0..(nb - 1) /\ id = q * nb + r
      BY <1>1, <1>5, <2>1
    <3>2. ASSUME id = cs * nb + cb PROVE q = cs /\ r = cb
      <4>1. q * nb + r = cs * nb + cb
        BY <3>1, <3>2
      <4> QED  BY <3>1, <4>1, RowAndColumnUnique
    <3> QED  BY <3>1, <3>2
  <2> QED  BY <2>4, <2>5, <2>6 DEF BucketContains, named
<1>7. named \in DOMAIN table
  <2> HIDE DEF table, cs, cb, ns, nb
  <2> QED  BY <1>1, <1>2, <1>5, IdOfRowAndColumn DEF named
<1> HIDE DEF table, named
<1>8. {id \in DOMAIN table : BucketContains(table[id], seq_len, batch_size)} = {named}
  BY <1>6, <1>7
<1> QED  BY <1>4, <1>8 DEF table
----------------------------------------------------------------------------
\* A number the native integers hold is left as it is.
LEMMA WrapOfFitting ==
    ASSUME NEW n \in Int, Fits(n)
    PROVE  Wrap(n) = n
<1> DEFINE h == 2^(Width - 1)
           m == 2^Width
<1>1. h \in Nat \ {0} /\ m = 2 * h
  BY WidthAssumption
<1>2. n \in Nat /\ n < h
  BY DEF Fits
<1> HIDE DEF h, m
<1>3. n % m \in 0..(m - 1) /\ n = m * (n \div m) + (n % m) /\ n \div m \in Int
  <2>1. m \in Nat \ {0} /\ n \in Int
    BY <1>1, <1>2
  <2>2. n % m \in 0..(m - 1)
    BY <2>1
  <2>3. n \div m \in Int
    BY <2>1
  <2>4. n = m * (n \div m) + (n % m)
    BY <2>1
  <2> QED  BY <2>2, <2>3, <2>4
<1>4. n % m = n
  <2>1. /\ m \in Nat \ {0} /\ n \in 0..(m - 1) /\ n \div m \in Int /\ 0 \in Int
        /\ (n \div m) * m + (n % m) = 0 * m + n
    BY <1>1, <1>2, <1>3
  <2> QED  BY <1>3, <2>1, RowAndColumnUnique
<1>5. ~ (n >= h)
  BY <1>1, <1>2
<1> QED  BY <1>4, <1>5 DEF Wrap, h, m

\* What an engine's boundaries are: native integers, at most as many as there
\* are buckets.
Boundaries(bs) == bs \in Seq({n \in Nat : Fits(n)}) /\ Fits(Len(bs) + 1)

LEMMA BoundariesProperties ==
    ASSUME NEW bs, Boundaries(bs)
    PROVE  /\ bs \in Seq(Nat) /\ Len(bs) \in Nat /\ DOMAIN bs = 1..Len(bs)
           /\ \A k \in DOMAIN bs : bs[k] \in Nat /\ Fits(bs[k])
<1>1. Len(bs) \in Nat /\ DOMAIN bs = 1..Len(bs) /\ bs \in [1..Len(bs) -> {n \in Nat : Fits(n)}]
  BY LenProperties DEF Boundaries
<1>2. \A k \in 1..Len(bs) : bs[k] \in Nat /\ Fits(bs[k])
  BY <1>1
<1>3. bs \in [1..Len(bs) -> Nat]
  BY <1>1, <1>2
<1> QED  BY <1>1, <1>2, <1>3, SeqDef

\* The native index is one of a range of edges, whatever the size; it is the
\* number of boundaries reached when the size is a native integer.
LEMMA BucketIndexProperties ==
    ASSUME NEW bs, Boundaries(bs), NEW n \in Int
    PROVE  /\ BucketIndex(n, bs) \in 0..Len(bs)
           /\ BucketIndex(n, bs) = CountReached(n, bs)
<1> DEFINE Reached == {k \in DOMAIN bs : n >= Wrap(bs[k])}
           c == Cardinality(Reached)
<1>1. /\ Len(bs) \in Nat /\ DOMAIN bs = 1..Len(bs) /\ Fits(Len(bs) + 1)
      /\ \A k \in DOMAIN bs : Wrap(bs[k]) = bs[k]
  <2>1. \A k \in DOMAIN bs : bs[k] \in Int /\ Fits(bs[k])
    BY BoundariesProperties
  <2> QED  BY <2>1, BoundariesProperties, WrapOfFitting DEF Boundaries
<1>2. /\ IsFiniteSet(1..Len(bs)) /\ Cardinality(1..Len(bs)) = Len(bs)
  <2>1. Len(bs) \in Nat
    BY <1>1
  <2> QED  BY <2>1, PositionsCounted
<1>3. IsFiniteSet(Reached) /\ c <= Len(bs)
  <2>1. Reached \in SUBSET (1..Len(bs))
    BY <1>1
  <2> QED  BY <1>2, <2>1, FS_Subset
<1>4. c \in Nat
  BY <1>3, FS_CardinalityType
<1>5. BucketIndex(n, bs) = Wrap(c)
  BY DEF BucketIndex
<1>6. c = CountReached(n, bs)
  <2>1. Reached = {k \in DOMAIN bs : n >= bs[k]}
    BY <1>1
  <2> QED  BY <2>1 DEF CountReached
<1> HIDE DEF c
<1>7. Fits(c)
  BY <1>1, <1>3, <1>4, WidthAssumption DEF Fits
<1> QED  BY <1>1, <1>3, <1>4, <1>5, <1>6, <1>7, WrapOfFitting

\* The native classifier always names a bucket of the table, the reference's
\* while the sizes are native integers.
LEMMA NativeProperties ==
    ASSUME NEW e \in Engines
    PROVE  LET sb == e.seq_boundaries
               bb == e.batch_boundaries
           IN /\ Boundaries(sb) /\ Boundaries(bb)
              /\ \A s, b \in Int : NativeClassify(s, b, sb, bb) \in DOMAIN BuildBucketTable(sb, bb)
              /\ \A s, b \in Int : Fits(s) /\ Fits(b) =>
                    NativeClassify(s, b, sb, bb) = Classify(s, b, sb, bb)
<1> DEFINE sb == e.seq_boundaries
           bb == e.batch_boundaries
           rows == Len(sb) + 1
           cols == Len(bb) + 1
<1>1. /\ sb \in Seq({n \in Nat : Fits(n)}) /\ bb \in Seq({n \in Nat : Fits(n)})
      /\ Fits(rows * cols)
  BY EnginesAssumption DEF NumBuckets
<1>2. rows \in Nat \ {0} /\ cols \in Nat \ {0} /\ rows * cols \in Nat
  <2>1. Len(sb) \in Nat /\ Len(bb) \in Nat
    BY <1>1, LenProperties
  <2>2. rows \in Nat \ {0} /\ cols \in Nat \ {0}
    BY <2>1
  <2> HIDE DEF rows, cols
  <2> QED  BY <2>2
<1>3. rows <= rows * cols /\ cols <= rows * cols
  <2> HIDE DEF rows, cols
  <2>1. rows * 1 <= rows * cols /\ 1 * cols <= rows * cols
    BY <1>2
  <2> QED  BY <1>2, <2>1
<1>4. Boundaries(sb) /\ Boundaries(bb)
  <2>1. 0 <= rows /\ rows < 2^(Width - 1) /\ 0 <= cols /\ cols < 2^(Width - 1)
    <3> HIDE DEF rows, cols
    <3>1. rows * cols < 2^(Width - 1)
      BY <1>1 DEF Fits
    <3> DEFINE x == rows * cols
               h == 2^(Width - 1)
    <3>2. x \in Nat /\ x < h /\ h \in Nat /\ rows <= x /\ cols <= x
      BY <1>2, <1>3, <3>1, WidthAssumption
    <3> HIDE DEF x, h
    <3>3. 0 <= rows /\ rows < h /\ 0 <= cols /\ cols < h
      BY <1>2, <3>2
    <3> QED  BY <3>3 DEF h
  <2> QED  BY <1>1, <2>1 DEF Boundaries, Fits
<1>5. ASSUME NEW n \in Int PROVE Wrap(n) \in Int
  <2> DEFINE h == 2^(Width - 1)
             m == 2^Width
  <2>1. h \in Nat /\ m \in Nat \ {0}
    BY WidthAssumption
  <2> HIDE DEF h, m
  <2>2. n % m \in Int
    BY <2>1
  <2>3. (IF (n % m) >= h THEN (n % m) - m ELSE n % m) \in Int
    BY <2>1, <2>2
  <2> QED  BY <2>3 DEF Wrap, h, m
<1>6. ASSUME NEW s \in Int, NEW b \in Int
      PROVE  /\ NativeClassify(s, b, sb, bb) \in 0..(rows * cols - 1)
             /\ NativeClassify(s, b, sb, bb)
                  = CountReached(Wrap(s), sb) * cols + CountReached(Wrap(b), bb)
  <2> DEFINE row == BucketIndex(Wrap(s), sb)
             col == BucketIndex(Wrap(b), bb)
  <2>1. /\ row \in 0..(rows - 1) /\ row = CountReached(Wrap(s), sb)
        /\ col \in 0..(cols - 1) /\ col = CountReached(Wrap(b), bb)
    <3>1. rows - 1 = Len(sb) /\ cols - 1 = Len(bb)
      BY <1>1, LenProperties
    <3> HIDE DEF rows, cols
    <3> QED  BY <1>4, <1>5, <3>1, BucketIndexProperties
  <2> DEFINE id == Wrap(Wrap(row * Wrap(cols)) + col)
  <2>2. NativeClassify(s, b, sb, bb) = id
    BY DEF NativeClassify
  <2> HIDE DEF row, col, rows, cols
  <2>3. Wrap(cols) = cols
    BY <1>2, <1>4, WrapOfFitting DEF Boundaries, cols
  <2>4. row * cols \in Nat /\ row * cols + col \in 0..(rows * cols - 1)
    <3>1. row \in Nat
      BY <1>2, <2>1
    <3> QED  BY <1>2, <2>1, <3>1, IdOfRowAndColumn
  <2>5. Fits(row * cols) /\ Fits(row * cols + col)
    <3> DEFINE x == row * cols
               y == rows * cols
               h == 2^(Width - 1)
    <3>1. /\ x \in Nat /\ y \in Nat /\ h \in Nat /\ y < h /\ x + col \in 0..(y - 1)
          /\ col \in Nat
      BY <1>1, <1>2, <2>1, <2>4, WidthAssumption DEF Fits
    <3> HIDE DEF x, y, h
    <3>2. 0 <= x /\ x < h /\ 0 <= x + col /\ x + col < h
      BY <3>1
    <3> QED  BY <3>2 DEF x, h, Fits
  <2>6. Wrap(row * cols) = row * cols
    BY <2>4, <2>5, WrapOfFitting
  <2>7. Wrap(row * cols + col) = row * cols + col
    <3>1. row * cols + col \in Int
      BY <2>4
    <3> QED  BY <2>5, <3>1, WrapOfFitting
  <2>8. id = row * cols + col
    BY <2>3, <2>6, <2>7
  <2> QED  BY <2>1, <2>2, <2>4, <2>8
<1>7. DOMAIN BuildBucketTable(sb, bb) = 0..(rows * cols - 1)
  BY DEF BuildBucketTable, NumBuckets
<1>8. ASSUME NEW s \in Int, NEW b \in Int, Fits(s), Fits(b)
      PROVE  NativeClassify(s, b, sb, bb) = Classify(s, b, sb, bb)
  <2>1. Wrap(s) = s /\ Wrap(b) = b
    BY <1>8, WrapOfFitting
  <2> QED  BY <1>6, <2>1 DEF Classify
<1> QED  BY <1>4, <1>6, <1>7, <1>8

\* Where boundaries that are all different are out of order, the range that
\* one of them is counted into does not contain it: if all were contained,
\* how many a boundary reaches would number the list as it stands.
LEMMA DisorderShows ==
    ASSUME NEW bs, Boundaries(bs), IsInjective(bs), ~ InOrder(bs)
    PROVE  \E m \in DOMAIN bs :
              LET c == CountReached(bs[m], bs) IN
              ~ InRange(bs[m], Edges(bs)[c + 1], Edges(bs)[c + 2])
<1> DEFINE n == Len(bs)
           P == 1..n
           below == [m \in P |-> {q \in P : bs[q] < bs[m]}]
           c == [m \in P |-> CountReached(bs[m], bs)]
<1>1. /\ bs \in Seq(Nat) /\ n \in Nat /\ DOMAIN bs = P /\ \A m \in P : bs[m] \in Nat
  BY BoundariesProperties
<1>2. \A p, q \in P : bs[p] = bs[q] => p = q
  BY <1>1 DEF IsInjective
<1>3. IsFiniteSet(P) /\ Cardinality(P) = n
  BY <1>1, PositionsCounted
<1> SUFFICES ASSUME \A m \in P : InRange(bs[m], Edges(bs)[c[m] + 1], Edges(bs)[c[m] + 2])
             PROVE  FALSE
  BY <1>1
<1> HIDE DEF P, n
<1>4. /\ \A p \in P : Cardinality(below[p]) \in 0..(n - 1)
      /\ \A p, q \in P : bs[p] < bs[q] => Cardinality(below[p]) < Cardinality(below[q])
      /\ \A p, q \in P : Cardinality(below[p]) = Cardinality(below[q]) => p = q
      /\ \A m \in 0..(n - 1) : \E p \in P : Cardinality(below[p]) = m
  <2>1. below \in [P -> SUBSET P] /\ \A p, q \in P : p \in below[q] <=> bs[p] < bs[q]
    OBVIOUS
  <2>2. /\ \A p \in P : ~ (bs[p] < bs[p])
        /\ \A p, q, r \in P : bs[r] < bs[p] /\ bs[p] < bs[q] => bs[r] < bs[q]
        /\ \A p, q \in P : p = q \/ bs[p] < bs[q] \/ bs[q] < bs[p]
    BY <1>1, <1>2
  <2> HIDE DEF below
  <2>3. /\ \A p \in P : p \notin below[p]
        /\ \A p, q \in P : p \in below[q] => below[p] \subseteq below[q]
        /\ \A p, q \in P : p = q \/ p \in below[q] \/ q \in below[p]
    BY <2>1, <2>2
  <2> QED  BY <1>3, <2>1, <2>3, RanksEnumerate
<1>5. ASSUME NEW m \in P
      PROVE  c[m] = Cardinality(below[m]) + 1 /\ c[m] \in P
  <2>1. {k \in DOMAIN bs : bs[m] >= bs[k]} = below[m] \cup {m}
    <3>1. \A k \in P : bs[m] >= bs[k] <=> bs[k] < bs[m] \/ k = m
      BY <1>1, <1>2
    <3> QED  BY <1>1, <3>1
  <2>2. IsFiniteSet(below[m]) /\ m \notin below[m]
    <3>1. below[m] \in SUBSET P /\ m \notin below[m]
      BY <1>1
    <3> QED  BY <1>3, <3>1, FS_Subset
  <2>3. Cardinality(below[m] \cup {m}) = Cardinality(below[m]) + 1
    BY <2>2, FS_AddElement
  <2>4. c[m] = Cardinality(below[m]) + 1
    BY <2>1, <2>3 DEF CountReached
  <2> QED  BY <1>1, <1>4, <2>4 DEF P
<1>6. /\ \A p, q \in P : bs[p] < bs[q] => c[p] < c[q]
      /\ \A p, q \in P : c[p] = c[q] => p = q
      /\ \A x \in P : \E p \in P : c[p] = x
  <2>1. \A p \in P : Cardinality(below[p]) \in Int
    BY <1>4
  <2> HIDE DEF c, below
  <2>2. \A p, q \in P : bs[p] < bs[q] => c[p] < c[q]
    BY <1>4, <1>5, <2>1
  <2>3. \A p, q \in P : c[p] = c[q] => p = q
    BY <1>4, <1>5, <2>1
  <2>4. ASSUME NEW x \in P PROVE \E p \in P : c[p] = x
    <3>1. x - 1 \in 0..(n - 1) /\ x = (x - 1) + 1
      BY <1>1 DEF P
    <3>2. PICK p \in P : Cardinality(below[p]) = x - 1
      BY <1>4, <3>1
    <3> QED  BY <1>5, <3>1, <3>2
  <2> QED  BY <2>2, <2>3, <2>4
<1> HIDE DEF below
<1>7. ASSUME NEW x \in P PROVE c[x] <= x
  <2>1. PICK m \in P : c[m] = x
    BY <1>6
  <2>2. bs[x] <= bs[m]
    <3>1. x \in 1..Len(bs)
      BY DEF P, n
    <3>2. Edges(bs)[x + 1] = bs[x]
      BY <1>1, <3>1, EdgesProperties
    <3>3. InRange(bs[m], Edges(bs)[x + 1], Edges(bs)[x + 2])
      BY <2>1
    <3> QED  BY <3>2, <3>3 DEF InRange
  <2>3. ~ (bs[m] < bs[x])
    BY <1>1, <2>2
  <2>4. ~ (bs[x] < bs[m]) => x = m
    BY <1>1, <1>2, <2>3
  <2>5. bs[x] < bs[m] => c[x] < c[m]
    BY <1>6
  <2>6. c[x] \in Int /\ x \in Int
    BY <1>5 DEF P
  <2> HIDE DEF c
  <2> QED  BY <2>1, <2>4, <2>5, <2>6
<1>8. ASSUME NEW x \in P PROVE c[x] = x
  <2> SUFFICES ASSUME c[x] # x PROVE FALSE
    OBVIOUS
  <2> DEFINE D == 1..(x - 1)
             f == [y \in D |-> c[y]]
  <2>1. x \in Nat /\ x >= 1 /\ x <= n /\ D \subseteq P
    BY <1>1 DEF P
  <2>2. \A y \in P : c[y] \in Int /\ c[y] >= 1 /\ c[y] <= y
    BY <1>5, <1>7 DEF P
  <2> HIDE DEF c
  <2>3. c[x] \in D
    BY <2>1, <2>2
  <2>4. \A y \in D : c[y] \in D
    BY <2>1, <2>2
  <2>5. f \in Injection(D, D)
    BY <1>6, <2>1, <2>4 DEF Injection, IsInjective
  <2>6. IsFiniteSet(D)
    BY <2>1, FS_Interval
  <2>7. f \in Surjection(D, D)
    BY <2>5, <2>6, FS_Injection
  <2>8. PICK y \in D : f[y] = c[x]
    BY <2>3, <2>7 DEF Surjection
  <2>9. y \in P /\ c[y] = c[x] /\ y # x
    BY <2>1, <2>8
  <2> QED  BY <1>6, <2>9
<1>9. InOrder(bs)
  <2> SUFFICES ASSUME NEW j \in P, NEW k \in 1..j
               PROVE  bs[k] <= bs[j]
    BY <1>1 DEF InOrder
  <2>1. k \in P /\ k <= j /\ j \in Int /\ k \in Int
    BY <1>1 DEF P
  <2>2. c[k] = k /\ c[j] = j
    BY <1>8, <2>1
  <2> HIDE DEF c
  <2>3. ~ (c[j] < c[k])
    BY <2>1, <2>2
  <2>4. ~ (bs[j] < bs[k])
    BY <1>6, <2>1, <2>3
  <2> QED  BY <1>1, <2>1, <2>4
<1> QED  BY <1>9

\* The bucket of a row and a column has the edges around them.
LEMMA TableEntry ==
    ASSUME NEW sb, Len(sb) \in Nat, NEW bb, Len(bb) \in Nat,
           NEW row \in 0..Len(sb), NEW col \in 0..Len(bb)
    PROVE  /\ row * (Len(bb) + 1) + col \in DOMAIN BuildBucketTable(sb, bb)
           /\ BuildBucketTable(sb, bb)[row * (Len(bb) + 1) + col]
                = [bucket_id |-> row * (Len(bb) + 1) + col,
                   seq_lo |-> Edges(sb)[row + 1], seq_hi |-> Edges(sb)[row + 2],
                   batch_lo |-> Edges(bb)[col + 1], batch_hi |-> Edges(bb)[col + 2]]
<1> DEFINE rows == Len(sb) + 1
           cols == Len(bb) + 1
           id == row * cols + col
<1>1. /\ rows \in Nat \ {0} /\ cols \in Nat \ {0} /\ row \in 0..(rows - 1) /\ col \in 0..(cols - 1)
      /\ row + 2 = (row + 1) + 1 /\ row + 1 = 1 + row /\ col + 2 = (col + 1) + 1 /\ col + 1 = 1 + col
  OBVIOUS
<1>2. DOMAIN BuildBucketTable(sb, bb) = 0..(rows * cols - 1)
  BY DEF BuildBucketTable, NumBuckets
<1>3. ASSUME NEW k \in 0..(rows * cols - 1)
      PROVE  BuildBucketTable(sb, bb)[k]
                = [bucket_id |-> k, seq_lo |-> Edges(sb)[1 + (k \div cols)],
                   seq_hi |-> Edges(sb)[(1 + (k \div cols)) + 1],
                   batch_lo |-> Edges(bb)[1 + (k % cols)],
                   batch_hi |-> Edges(bb)[(1 + (k % cols)) + 1]]
  BY DEF BuildBucketTable, NumBuckets
<1> HIDE DEF rows, cols
<1>4. id \in 0..(rows * cols - 1)
  BY <1>1, IdOfRowAndColumn
<1>5. id \div cols = row /\ id % cols = col
  <2> DEFINE q == id \div cols
             r == id % cols
  <2>1. q \in 0..(rows - 1) /\ r \in 0..(cols - 1) /\ id = q * cols + r
    BY <1>1, <1>4, RowAndColumn
  <2> HIDE DEF q, r
  <2>2. q \in Int /\ row \in Int /\ q * cols + r = row * cols + col
    BY <1>1, <2>1
  <2>3. q = row /\ r = col
    BY <1>1, <2>1, <2>2, RowAndColumnUnique
  <2> QED  BY <2>3 DEF q, r
<1>6. BuildBucketTable(sb, bb)[id]
         = [bucket_id |-> id,
            seq_lo |-> Edges(sb)[1 + row], seq_hi |-> Edges(sb)[(1 + row) + 1],
            batch_lo |-> Edges(bb)[1 + col], batch_hi |-> Edges(bb)[(1 + col) + 1]]
  <2> HIDE DEF id
  <2> QED  BY <1>3, <1>4, <1>5
<1>7. 1 + row = row + 1 /\ (1 + row) + 1 = row + 2 /\ 1 + col = col + 1 /\ (1 + col) + 1 = col + 2
  OBVIOUS
<1>8. BuildBucketTable(sb, bb)[id]
         = [bucket_id |-> id,
            seq_lo |-> Edges(sb)[row + 1], seq_hi |-> Edges(sb)[row + 2],
            batch_lo |-> Edges(bb)[col + 1], batch_hi |-> Edges(bb)[col + 2]]
  BY <1>6, <1>7
<1> QED  BY <1>2, <1>4, <1>8 DEF cols

\* The sizes tried are numbers, 0 and every boundary among them.
LEMMA EdgeValuesProperties ==
    ASSUME NEW bs, Boundaries(bs)
    PROVE  /\ EdgeValues(bs) \subseteq Nat
           /\ 0 \in EdgeValues(bs) /\ Fits(0)
           /\ Range(bs) \subseteq EdgeValues(bs)
<1> DEFINE M == Range(bs) \cup {0, 2^(Width - 1), 2^Width}
<1>1. \A m \in M : m \in Nat
  <2>1. \A m \in Range(bs) : m \in Nat
    BY BoundariesProperties DEF Range
  <2>2. 2^(Width - 1) \in Nat /\ 2^Width \in Nat
    BY WidthAssumption
  <2> QED  BY <2>1, <2>2
<1>2. EdgeValues(bs) = {n \in UNION {{m - 1, m, m + 1} : m \in M} : n >= 0}
  BY DEF EdgeValues
<1>3. 0 \in M /\ Range(bs) \subseteq M
  OBVIOUS
<1> HIDE DEF M
<1>4. EdgeValues(bs) \subseteq Nat
  <2> SUFFICES ASSUME NEW n \in EdgeValues(bs) PROVE n \in Nat
    OBVIOUS
  <2>1. n >= 0 /\ \E m \in M : n \in {m - 1, m, m + 1}
    BY <1>2
  <2>2. PICK m \in M : n \in {m - 1, m, m + 1}
    BY <2>1
  <2>3. m \in Nat
    BY <1>1
  <2> QED  BY <2>1, <2>2, <2>3
<1>5. ASSUME NEW m \in M PROVE m \in EdgeValues(bs)
  <2>1. m \in UNION {{x - 1, x, x + 1} : x \in M}
    OBVIOUS
  <2> QED  BY <1>1, <1>2, <2>1
<1>6. Fits(0)
  BY WidthAssumption DEF Fits
<1> QED  BY <1>3, <1>4, <1>5, <1>6

\* In order, the bucket the native classifier names contains the shape.
LEMMA NativeContains ==
    ASSUME NEW e \in Engines, InOrder(e.seq_boundaries), InOrder(e.batch_boundaries),
           NEW s \in Nat, NEW b \in Nat, Fits(s), Fits(b)
    PROVE  LET table == BuildBucketTable(e.seq_boundaries, e.batch_boundaries)
               id == NativeClassify(s, b, e.seq_boundaries, e.batch_boundaries)
           IN /\ id \in DOMAIN table /\ BucketContains(table[id], s, b)
              /\ {k \in DOMAIN table : BucketContains(table[k], s, b)} = {id}
<1>1. /\ e.seq_boundaries \in Seq(Nat) /\ e.batch_boundaries \in Seq(Nat)
      /\ s \in Int /\ b \in Int
  BY NativeProperties, BoundariesProperties
<1>2. NativeClassify(s, b, e.seq_boundaries, e.batch_boundaries)
         = Classify(s, b, e.seq_boundaries, e.batch_boundaries)
  BY <1>1, NativeProperties
<1>3. {k \in DOMAIN BuildBucketTable(e.seq_boundaries, e.batch_boundaries) :
          BucketContains(BuildBucketTable(e.seq_boundaries, e.batch_boundaries)[k], s, b)}
         = {NativeClassify(s, b, e.seq_boundaries, e.batch_boundaries)}
  BY <1>1, <1>2, BucketsPartitionShapes
<1> QED  BY <1>3

\* Out of order, and all different, some bucket named does not.
LEMMA SomeShapeMisfiled ==
    ASSUME NEW e \in Engines,
           IsInjective(e.seq_boundaries), IsInjective(e.batch_boundaries),
           ~ (InOrder(e.seq_boundaries) /\ InOrder(e.batch_boundaries))
    PROVE  LET sb == e.seq_boundaries
               bb == e.batch_boundaries
           IN \E s \in {n \in EdgeValues(sb) : Fits(n)}, b \in {n \in EdgeValues(bb) : Fits(n)} :
                 ~ BucketContains(BuildBucketTable(sb, bb)[NativeClassify(s, b, sb, bb)], s, b)
<1> DEFINE sb == e.seq_boundaries
           bb == e.batch_boundaries
           table == BuildBucketTable(sb, bb)
<1>1. Boundaries(sb) /\ Boundaries(bb) /\ Len(sb) \in Nat /\ Len(bb) \in Nat
  BY NativeProperties, BoundariesProperties
<1>2. ASSUME NEW s \in Nat, NEW b \in Nat, Fits(s), Fits(b)
      PROVE  LET bucket == table[NativeClassify(s, b, sb, bb)]
                 cs == CountReached(s, sb)
                 cb == CountReached(b, bb)
             IN /\ bucket.seq_lo = Edges(sb)[cs + 1] /\ bucket.seq_hi = Edges(sb)[cs + 2]
                /\ bucket.batch_lo = Edges(bb)[cb + 1] /\ bucket.batch_hi = Edges(bb)[cb + 2]
  <2>1. s \in Int /\ b \in Int
    OBVIOUS
  <2>2. NativeClassify(s, b, sb, bb) = CountReached(s, sb) * (Len(bb) + 1) + CountReached(b, bb)
    BY <1>2, <2>1, NativeProperties DEF Classify
  <2>3. CountReached(s, sb) \in 0..Len(sb) /\ CountReached(b, bb) \in 0..Len(bb)
    BY <1>1, <2>1, BucketIndexProperties
  <2> DEFINE row == CountReached(s, sb)
             col == CountReached(b, bb)
  <2> HIDE DEF row, col
  <2>4. table[row * (Len(bb) + 1) + col]
          = [bucket_id |-> row * (Len(bb) + 1) + col,
             seq_lo |-> Edges(sb)[row + 1], seq_hi |-> Edges(sb)[row + 2],
             batch_lo |-> Edges(bb)[col + 1], batch_hi |-> Edges(bb)[col + 2]]
    <3>1. row \in 0..Len(sb) /\ col \in 0..Len(bb)
      BY <2>3 DEF row, col
    <3> HIDE DEF sb, bb
    <3> QED  BY <1>1, <3>1, TableEntry
  <2>5. NativeClassify(s, b, sb, bb) = row * (Len(bb) + 1) + col
    BY <2>2 DEF row, col
  <2> HIDE DEF table, sb, bb
  <2>6. table[NativeClassify(s, b, sb, bb)]
          = [bucket_id |-> row * (Len(bb) + 1) + col,
             seq_lo |-> Edges(sb)[row + 1], seq_hi |-> Edges(sb)[row + 2],
             batch_lo |-> Edges(bb)[col + 1], batch_hi |-> Edges(bb)[col + 2]]
    BY <2>4, <2>5
  <2> QED  BY <2>6 DEF row, col
<1> HIDE DEF table
<1>3. CASE ~ InOrder(sb)
  <2>1. PICK m \in DOMAIN sb :
           LET c == CountReached(sb[m], sb) IN
           ~ InRange(sb[m], Edges(sb)[c + 1], Edges(sb)[c + 2])
    BY <1>1, <1>3, DisorderShows
  <2>2. sb[m] \in Nat /\ Fits(sb[m]) /\ sb[m] \in EdgeValues(sb)
    BY <1>1, BoundariesProperties, EdgeValuesProperties DEF Range
  <2>3. 0 \in EdgeValues(bb) /\ Fits(0) /\ 0 \in Nat
    BY <1>1, EdgeValuesProperties
  <2>4. ~ BucketContains(table[NativeClassify(sb[m], 0, sb, bb)], sb[m], 0)
    BY <1>2, <2>1, <2>2, <2>3 DEF BucketContains
  <2> QED  BY <2>2, <2>3, <2>4 DEF table
<1>4. CASE ~ InOrder(bb)
  <2>1. PICK m \in DOMAIN bb :
           LET c == CountReached(bb[m], bb) IN
           ~ InRange(bb[m], Edges(bb)[c + 1], Edges(bb)[c + 2])
    BY <1>1, <1>4, DisorderShows
  <2>2. bb[m] \in Nat /\ Fits(bb[m]) /\ bb[m] \in EdgeValues(bb)
    BY <1>1, BoundariesProperties, EdgeValuesProperties DEF Range
  <2>3. 0 \in EdgeValues(sb) /\ Fits(0) /\ 0 \in Nat
    BY <1>1, EdgeValuesProperties
  <2>4. ~ BucketContains(table[NativeClassify(0, bb[m], sb, bb)], 0, bb[m])
    BY <1>2, <2>1, <2>2, <2>3 DEF BucketContains
  <2> QED  BY <2>2, <2>3, <2>4 DEF table
<1> QED  BY <1>3, <1>4

\* The engine is one of those given, and stays.
LEMMA EngineStays == Spec => [](engine \in Engines)
<1>1. Init => engine \in Engines
  BY SMTT(30) DEF Init
<1>2. engine \in Engines /\ [Next]_vars => (engine \in Engines)'
  <2> SUFFICES ASSUME [Next]_vars PROVE UNCHANGED engine
    OBVIOUS
  <2> QED
    BY DEF Next, vars, callerVars, RefuseStep, CallStep, ReusePlan, BuildPlan, BuildAs,
           MissCaches, GiveUp, BindCaches, ExecuteCacheOp, RaiseInStep, Return, Terminated
<1> QED  BY <1>1, <1>2, PTL DEF Spec

\* The table and the two classifiers agree, for every engine.
THEOREM ClassifiersAlwaysAgree == Spec => []ClassifiersAgree
<1>1. engine \in Engines => ClassifiersAgree
  <2> SUFFICES ASSUME engine \in Engines PROVE ClassifiersAgree
    OBVIOUS
  <2> DEFINE sb == engine.seq_boundaries
             bb == engine.batch_boundaries
             table == BuildBucketTable(sb, bb)
             Native(s, b) == NativeClassify(s, b, sb, bb)
             Fitting(bs) == {n \in EdgeValues(bs) : Fits(n)}
  <2>1. /\ EdgeValues(sb) \subseteq Nat /\ EdgeValues(bb) \subseteq Nat
        /\ EdgeValues(sb) \subseteq Int /\ EdgeValues(bb) \subseteq Int
    <3>1. EdgeValues(sb) \subseteq Nat /\ EdgeValues(bb) \subseteq Nat
      BY NativeProperties, EdgeValuesProperties
    <3> QED  BY <3>1
  <2>2. \A s \in EdgeValues(sb), b \in EdgeValues(bb) : Native(s, b) \in DOMAIN table
    BY <2>1, NativeProperties
  <2>3. \A s \in Fitting(sb), b \in Fitting(bb) : Native(s, b) = Classify(s, b, sb, bb)
    BY <2>1, NativeProperties
  <2>4. EngineIsSorted =>
           \A s \in Fitting(sb), b \in Fitting(bb) :
              {id \in DOMAIN table : BucketContains(table[id], s, b)} = {Native(s, b)}
    BY <2>1, NativeContains DEF EngineIsSorted
  <2>5. ~ EngineIsSorted /\ IsInjective(sb) /\ IsInjective(bb) =>
           \E s \in Fitting(sb), b \in Fitting(bb) : ~ BucketContains(table[Native(s, b)], s, b)
    BY SomeShapeMisfiled DEF EngineIsSorted
  <2> HIDE DEF EngineIsSorted, EdgeValues
  <2> QED  BY <2>2, <2>3, <2>4, <2>5, Zenon DEF ClassifiersAgree
<1> QED  BY <1>1, EngineStays, PTL
----------------------------------------------------------------------------
(***************************************************************************)
(* Now the session: an invariant that says of every variable what it holds *)
(* while a step runs and between steps.                                    *)
(***************************************************************************)

\* The entries of the first n tokens of request r in a layer's two caches,
\* the first key rotated to position first.
KeyEntries(first, r, p, n) ==
    [j \in 1..n |-> [token |-> <<r, j>>, of |-> <<"k_rot", p>>, position |-> first + j - 1]]
ValueEntries(r, p, n) == [j \in 1..n |-> [token |-> <<r, j>>, of |-> <<"v_new", p>>]]

Prefix(layer) == LayerPrefix(layer, engine.num_layers)

\* The caches of a layer of r with n tokens added.
KeysOf(r, l, n) ==
    [prefix |-> caches[r].k[l].prefix,
     added |-> KeyEntries(caches[r].k[0].prefix, r, Prefix(l), n)]
ValuesOf(r, l, n) ==
    [prefix |-> caches[r].v[l].prefix, added |-> ValueEntries(r, Prefix(l), n)]

\* The caller holds every request's caches with the tokens decoded so far.
CallerHolds ==
    /\ engine \in Engines
    /\ batch \in [Request -> Nat]
    /\ decoded \in [Request -> 0..MaxTokens]
    /\ DOMAIN caches = Request
    /\ \A r \in Request, l \in Layers :
          /\ caches[r].k[l].prefix \in Nat
          /\ caches[r].k[l] = KeysOf(r, l, decoded[r])
          /\ caches[r].v[l] = ValuesOf(r, l, decoded[r])

\* A running step is for the next token of some request and goes by the state
\* the caller is still in.
CallHolds ==
    phase # "idle" =>
        /\ call.request \in Request
        /\ decoded[call.request] < MaxTokens
        /\ call = [request |-> call.request,
                   token |-> <<call.request, decoded[call.request] + 1>>,
                   given |-> call.given,
                   seq_len |-> SeqLen(call.request), batch |-> batch[call.request]]
        /\ call.given \in 1..engine.num_layers
        /\ call.given < engine.num_layers => raised < MaxFailures
        /\ <<call.seq_len, call.batch>> \in Range(observations)

\* Its tensors are the caches it was given, as they were, and those that the
\* cache ops executed so far have made of them.
TensorsHold ==
    phase = "execute" =>
        /\ call.given = engine.num_layers
        /\ \A l \in Layers :
              /\ {IoNames(l).k_in, IoNames(l).v_in} \subseteq DOMAIN tensors
              /\ tensors[IoNames(l).k_in] = caches[call.request].k[l]
              /\ tensors[IoNames(l).v_in] = caches[call.request].v[l]
              /\ l < pos =>
                    LET n == decoded[call.request] + 1 IN
                    /\ {IoNames(l).k_out, IoNames(l).v_out} \subseteq DOMAIN tensors
                    /\ tensors[IoNames(l).k_out] = KeysOf(call.request, l, n)
                    /\ tensors[IoNames(l).v_out] = ValuesOf(call.request, l, n)

Table == BuildBucketTable(engine.seq_boundaries, engine.batch_boundaries)
PlanOf(id) == Specialized(engine.graph, Table[id])

\* The plan cache has the plans of the shapes seen, but for that of a step
\* that has yet to look; and a step goes by the plan of its shape's bucket.
PlansHold ==
    /\ DOMAIN plan_cache \cup (IF phase = "plan" THEN {CallBucketId} ELSE {})
          = {BucketId(s) : s \in Range(observations)}
    /\ \A id \in DOMAIN plan_cache : plan_cache[id] = PlanOf(id)
    /\ phase \in {"bind", "execute"} => plan = PlanOf(CallBucketId)

TimesIn(list, s) == Cardinality({n \in DOMAIN list : list[n] = s})

\* The profile has every call that returned, raised late or runs.
ProfileHolds ==
    /\ observations \in Seq(Nat \X Nat)
    /\ counts = [s \in Range(observations) |-> TimesIn(observations, s)]
    /\ Len(observations) = Cardinality(Decoded) + raised - refused
                               + (IF phase = "idle" THEN 0 ELSE 1)

IInv ==
    /\ SessionTypeOK
    /\ CallerHolds
    /\ CallHolds
    /\ TensorsHold
    /\ PlansHold
    /\ ProfileHolds

\* An empty list has no fields.
LEMMA NothingThere ==
    /\ DOMAIN <<>> = {}
    /\ \A b, v : [bucket |-> b, variants |-> v] # <<>>
    /\ \A r, t, g, s, b :
          [request |-> r, token |-> t, given |-> g, seq_len |-> s, batch |-> b] # <<>>
<1>1. DOMAIN <<>> = {}
  BY EmptySeq
<1>2. ASSUME NEW b, NEW v PROVE [bucket |-> b, variants |-> v] # <<>>
  <2>1. "bucket" \in DOMAIN [bucket |-> b, variants |-> v]
    OBVIOUS
  <2> QED  BY <1>1, <2>1
<1>3. ASSUME NEW r, NEW t, NEW g, NEW s, NEW b
      PROVE  [request |-> r, token |-> t, given |-> g, seq_len |-> s, batch |-> b] # <<>>
  <2>1. "given" \in DOMAIN [request |-> r, token |-> t, given |-> g, seq_len |-> s, batch |-> b]
    OBVIOUS
  <2> QED  BY <1>1, <2>1
<1> QED  BY <1>1, <1>2, <1>3

\* Layers of one graph have prefixes of their own.
LEMMA PrefixesDiffer ==
    ASSUME NEW n \in Nat \ {0}, NEW l \in 0..(n - 1), NEW m \in 0..(n - 1),
           LayerPrefix(l, n) = LayerPrefix(m, n)
    PROVE  l = m
<1>1. CASE n > 1
  BY <1>1 DEF LayerPrefix
<1>2. CASE ~ (n > 1)
  BY <1>2
<1> QED  BY <1>1, <1>2

\* Neither have two tensors of their caches one name.
LEMMA NamesDiffer ==
    ASSUME CallerHolds, NEW l \in Layers, NEW m \in Layers
    PROVE  /\ IoNames(l).k_in = IoNames(m).k_in <=> l = m
           /\ IoNames(l).v_in = IoNames(m).v_in <=> l = m
           /\ IoNames(l).k_out = IoNames(m).k_out <=> l = m
           /\ IoNames(l).v_out = IoNames(m).v_out <=> l = m
           /\ IoNames(l).k_in \notin {IoNames(m).v_in, IoNames(m).k_out, IoNames(m).v_out}
           /\ IoNames(l).v_in \notin {IoNames(m).k_out, IoNames(m).v_out}
           /\ IoNames(l).k_out # IoNames(m).v_out
<1> DEFINE n == engine.num_layers
<1>1. n \in Nat \ {0} /\ l \in 0..(n - 1) /\ m \in 0..(n - 1)
  BY EnginesAssumption DEF CallerHolds, Layers, LayersOf
<1>2. LayerPrefix(l, n) = LayerPrefix(m, n) <=> l = m
  BY <1>1, PrefixesDiffer
<1>3. \A k \in {l, m} :
         IoNames(k) = [k_in |-> <<"cache_k_in", LayerPrefix(k, n)>>,
                       v_in |-> <<"cache_v_in", LayerPrefix(k, n)>>,
                       k_out |-> <<"cache_k_out", LayerPrefix(k, n)>>,
                       v_out |-> <<"cache_v_out", LayerPrefix(k, n)>>]
  BY DEF IoNames, CacheIoNames
<1> QED  BY <1>2, <1>3

\* A list and the next of its entries.
LEMMA NextEntry ==
    ASSUME NEW n \in Nat, NEW longer, DOMAIN longer = 1..(n + 1),
           longer = [j \in 1..(n + 1) |-> longer[j]],
           NEW short, short = [j \in 1..n |-> longer[j]]
    PROVE  Len(short) = n /\ Append(short, longer[n + 1]) = longer
<1> DEFINE S == Range(longer)
           more == Append(short, longer[n + 1])
<1>1. \A j \in 1..(n + 1) : longer[j] \in S
  BY DEF Range
<1>2. n + 1 \in 1..(n + 1) /\ \A j \in 1..n : j \in 1..(n + 1)
  OBVIOUS
<1>3. short \in [1..n -> S] /\ longer[n + 1] \in S
  BY <1>1, <1>2
<1>4. short \in Seq(S) /\ Len(short) = n
  <2>1. Seq(S) = UNION {[1..j -> S] : j \in Nat}
    BY SeqDef
  <2>3. short \in Seq(S)
    BY <1>3, <2>1
  <2>2. DOMAIN short = 1..n /\ DOMAIN short = 1..Len(short) /\ Len(short) \in Nat
    BY <1>3, <2>3, LenProperties
  <2> QED  BY <2>2, <2>3
<1>5. /\ more \in Seq(S) /\ Len(more) = n + 1
      /\ \A j \in 1..n : more[j] = short[j]
      /\ more[n + 1] = longer[n + 1]
  BY <1>3, <1>4, AppendProperties
<1>6. more = [j \in 1..(n + 1) |-> more[j]]
  BY <1>5, LenProperties
<1> HIDE DEF more
<1>7. \A j \in 1..(n + 1) : j = n + 1 \/ j \in 1..n
  OBVIOUS
<1>8. \A j \in 1..(n + 1) : more[j] = longer[j]
  BY <1>5, <1>7
<1>9. more = longer
  BY <1>6, <1>8
<1> QED  BY <1>4, <1>9 DEF more

\* Appending the next entry.
LEMMA NextEntries ==
    ASSUME NEW first, NEW r, NEW p, NEW n \in Nat
    PROVE  /\ Append(KeyEntries(first, r, p, n),
                     [token |-> <<r, n + 1>>, of |-> <<"k_rot", p>>, position |-> first + (n + 1) - 1])
                = KeyEntries(first, r, p, n + 1)
           /\ Append(ValueEntries(r, p, n), [token |-> <<r, n + 1>>, of |-> <<"v_new", p>>])
                = ValueEntries(r, p, n + 1)
           /\ Len(KeyEntries(first, r, p, n)) = n
<1>1. n + 1 \in 1..(n + 1) /\ \A j \in 1..n : j \in 1..(n + 1)
  OBVIOUS
<1> DEFINE keys == KeyEntries(first, r, p, n + 1)
           values == ValueEntries(r, p, n + 1)
<1>2. /\ DOMAIN keys = 1..(n + 1) /\ keys = [j \in 1..(n + 1) |-> keys[j]]
      /\ keys[n + 1] = [token |-> <<r, n + 1>>, of |-> <<"k_rot", p>>, position |-> first + (n + 1) - 1]
      /\ KeyEntries(first, r, p, n) = [j \in 1..n |-> keys[j]]
  BY <1>1 DEF KeyEntries
<1>3. /\ DOMAIN values = 1..(n + 1) /\ values = [j \in 1..(n + 1) |-> values[j]]
      /\ values[n + 1] = [token |-> <<r, n + 1>>, of |-> <<"v_new", p>>]
      /\ ValueEntries(r, p, n) = [j \in 1..n |-> values[j]]
  BY <1>1 DEF ValueEntries
<1> HIDE DEF keys, values
<1>4. Len(KeyEntries(first, r, p, n)) = n /\ Append(KeyEntries(first, r, p, n), keys[n + 1]) = keys
  BY <1>2, NextEntry
<1>5. Append(ValueEntries(r, p, n), values[n + 1]) = values
  BY <1>3, NextEntry
<1> QED  BY <1>2, <1>3, <1>4, <1>5 DEF keys, values

\* What recording a shape does to the list and to how often each is in it.
LEMMA RecordedOnce ==
    ASSUME NEW seen \in Seq(Nat \X Nat), NEW shape \in Nat \X Nat
    PROVE  /\ Append(seen, shape) \in Seq(Nat \X Nat)
           /\ Len(seen) \in Nat /\ Len(Append(seen, shape)) = Len(seen) + 1
           /\ Range(Append(seen, shape)) = Range(seen) \cup {shape}
           /\ TimesIn(Append(seen, shape), shape) = TimesIn(seen, shape) + 1
           /\ \A s : /\ s \notin Range(seen) => TimesIn(seen, s) = 0
                     /\ TimesIn(seen, s) \in Nat
                     /\ s # shape => TimesIn(Append(seen, shape), s) = TimesIn(seen, s)
<1> DEFINE more == Append(seen, shape)
           n == Len(seen)
           at(list, s) == {k \in DOMAIN list : list[k] = s}
<1>1. /\ more \in Seq(Nat \X Nat) /\ Len(more) = n + 1 /\ n \in Nat
      /\ \A k \in 1..n : more[k] = seen[k]
      /\ more[n + 1] = shape
      /\ DOMAIN seen = 1..n /\ DOMAIN more = 1..(n + 1)
  BY AppendProperties, LenProperties
<1>2. Range(more) = Range(seen) \cup {shape}
  <2>1. seen \in Seq(Range(seen))
    BY OwnRange
  <2> QED  BY <2>1, WrittenByAppend
<1> HIDE DEF more
<1>3. ASSUME NEW s
      PROVE  IsFiniteSet(at(seen, s)) /\ Cardinality(at(seen, s)) \in Nat
  <2>1. IsFiniteSet(1..n) /\ at(seen, s) \in SUBSET (1..n)
    BY <1>1, PositionsCounted
  <2>2. IsFiniteSet(at(seen, s))
    BY <2>1, FS_Subset
  <2> QED  BY <2>2, FS_CardinalityType
<1>4. ASSUME NEW s, s \notin Range(seen)
      PROVE  Cardinality(at(seen, s)) = 0
  <2>1. at(seen, s) = {}
    BY <1>4 DEF Range
  <2> QED  BY <2>1, FS_EmptySet
<1>5. \A k : k \in 1..(n + 1) <=> k \in 1..n \/ k = n + 1
  BY <1>1
<1>6. n + 1 \notin 1..n
  BY <1>1
<1>7. Cardinality(at(more, shape)) = Cardinality(at(seen, shape)) + 1
  <2> DEFINE before == at(seen, shape)
             k == n + 1
  <2>1. at(more, shape) = before \cup {k} /\ k \notin before
    BY <1>1, <1>5, <1>6
  <2>2. IsFiniteSet(before)
    BY <1>3
  <2> HIDE DEF before, k
  <2>3. Cardinality(before \cup {k}) = Cardinality(before) + 1
    BY <2>1, <2>2, FS_AddElement
  <2> QED  BY <2>1, <2>3 DEF before
<1>8. ASSUME NEW s, s # shape
      PROVE  Cardinality(at(more, s)) = Cardinality(at(seen, s))
  <2>1. at(more, s) = at(seen, s)
    BY <1>1, <1>5, <1>6, <1>8
  <2> QED  BY <2>1
<1> QED  BY <1>1, <1>2, <1>3, <1>4, <1>7, <1>8 DEF more, TimesIn

\* What follows from how the caller holds its caches.
LEMMA CallerProperties ==
    ASSUME CallerHolds
    PROVE  /\ engine.num_layers \in Nat \ {0}
           /\ Len(CacheOps(engine)) = engine.num_layers
           /\ 0 \in Layers /\ Layers \subseteq Nat
           /\ \A l \in Nat : l \in Layers <=> l < engine.num_layers
           /\ \A r \in Request : /\ decoded[r] \in Nat /\ decoded[r] \in 0..MaxTokens
                                 /\ batch[r] \in Nat
                                 /\ caches[r].k[0].prefix \in Nat
                                 /\ SeqLen(r) = caches[r].k[0].prefix + decoded[r]
                                 /\ SeqLen(r) \in Nat
<1>1. /\ engine.num_layers \in Nat \ {0}
      /\ Len(CacheOps(engine)) = engine.num_layers
  BY EnginesAssumption DEF CallerHolds
<1>2. /\ 0 \in Layers /\ Layers \subseteq Nat
      /\ \A l \in Nat : l \in Layers <=> l < engine.num_layers
  BY <1>1 DEF Layers, LayersOf
<1>3. ASSUME NEW r \in Request
      PROVE  /\ decoded[r] \in Nat /\ decoded[r] \in 0..MaxTokens
             /\ batch[r] \in Nat
             /\ caches[r].k[0].prefix \in Nat
             /\ SeqLen(r) = caches[r].k[0].prefix + decoded[r]
             /\ SeqLen(r) \in Nat
  <2>1. /\ decoded[r] \in Nat /\ decoded[r] \in 0..MaxTokens /\ batch[r] \in Nat
    BY BoundsAssumption DEF CallerHolds
  <2>2. /\ caches[r].k[0].prefix \in Nat
        /\ caches[r].k[0] = KeysOf(r, 0, decoded[r])
    BY <1>2 DEF CallerHolds
  <2> DEFINE first == caches[r].k[0].prefix
             p == Prefix(0)
             n == decoded[r]
  <2>3. caches[r].k[0] = [prefix |-> first, added |-> KeyEntries(first, r, p, n)]
    BY <2>2 DEF KeysOf
  <2>4. Len(KeyEntries(first, r, p, n)) = n
    <3>1. n \in Nat
      BY <2>1
    <3> HIDE DEF n, first, p
    <3> QED  BY <3>1, NextEntries
  <2>5. SeqLen(r) = first + n
    <3>1. caches[r].k[0].added = KeyEntries(first, r, p, n)
      BY <2>3
    <3> QED  BY <2>4, <3>1 DEF SeqLen, CacheLen
  <2> QED  BY <2>1, <2>2, <2>5
<1> QED  BY <1>1, <1>2, <1>3

LEMMA SameCaller ==
    ASSUME CallerHolds, UNCHANGED callerVars
    PROVE  /\ CallerHolds'
           /\ engine' = engine /\ batch' = batch /\ caches' = caches /\ decoded' = decoded
<1>1. engine' = engine /\ batch' = batch /\ caches' = caches /\ decoded' = decoded
  BY DEF callerVars
<1>2. CallerHolds'
  BY <1>1 DEF CallerHolds, Layers, KeysOf, ValuesOf, Prefix
<1> QED  BY <1>1, <1>2

LEMMA PlanIsThere == \A id : PlanOf(id) # <<>>
  BY NothingThere DEF PlanOf, Specialized

\* Finitely many tokens have been decoded.
LEMMA DecodedIsFinite ==
    ASSUME decoded \in [Request -> 0..MaxTokens]
    PROVE  IsFiniteSet(Decoded) /\ Cardinality(Decoded) \in Nat
<1>1. IsFiniteSet(1..MaxTokens) /\ 1..MaxTokens \subseteq Nat
  BY BoundsAssumption, FS_Interval
<1>2. IsFiniteSet(Request \X (1..MaxTokens))
  BY <1>1, RequestAssumption, FS_Product
<1>3. Decoded \in SUBSET (Request \X (1..MaxTokens))
  BY BoundsAssumption DEF Decoded
<1>4. IsFiniteSet(Decoded)
  BY <1>2, <1>3, FS_Subset
<1> QED  BY <1>4, FS_CardinalityType

\* An answer adds its token to those decoded.
LEMMA DecodedGrows ==
    ASSUME decoded \in [Request -> 0..MaxTokens], NEW r \in Request,
           decoded' = [decoded EXCEPT ![r] = @ + 1]
    PROVE  Cardinality(Decoded') = Cardinality(Decoded) + 1
<1> DEFINE n == decoded[r] + 1
           t == <<r, n>>
<1>1. n \in Nat /\ decoded[r] \in Nat
  BY BoundsAssumption
<1>2. t \notin Decoded
  BY <1>1 DEF Decoded
<1>3. ASSUME NEW q \in Request
      PROVE  {q} \X (1..decoded'[q]) = ({q} \X (1..decoded[q])) \cup (IF q = r THEN {t} ELSE {})
  <2>1. CASE q = r
    <3>1. 1..n = (1..decoded[r]) \cup {n}
      BY <1>1
    <3>2. decoded'[r] = n
      OBVIOUS
    <3> HIDE DEF n
    <3> QED  BY <2>1, <3>1, <3>2
  <2>2. CASE q # r
    BY <2>2
  <2> QED  BY <2>1, <2>2
<1>4. Decoded' = Decoded \cup {t}
  <2> DEFINE of(q) == {q} \X (1..decoded[q])
             now(q) == {q} \X (1..decoded'[q])
  <2>1. \A q \in Request : now(q) = of(q) \cup (IF q = r THEN {t} ELSE {})
    BY <1>3
  <2>2. Decoded = UNION {of(q) : q \in Request} /\ Decoded' = UNION {now(q) : q \in Request}
    BY DEF Decoded
  <2> HIDE DEF of, now, t
  <2> QED  BY <2>1, <2>2
<1>5. IsFiniteSet(Decoded)
  BY DecodedIsFinite
<1> HIDE DEF t
<1>6. Cardinality(Decoded \cup {t}) = Cardinality(Decoded) + 1
  BY <1>2, <1>5, FS_AddElement
<1> QED  BY <1>4, <1>6
----------------------------------------------------------------------------
(***************************************************************************)
(* The invariant holds at the start, and each action keeps it.             *)
(***************************************************************************)

LEMMA InitHolds == Init => IInv
<1> SUFFICES ASSUME Init PROVE IInv
  OBVIOUS
<1> PICK prompt \in Prompts(engine) :
      /\ batch = [r \in Request |-> prompt[r].batch]
      /\ caches = [r \in Request |->
            LET empty == [l \in Layers |-> [prefix |-> prompt[r].lengths[l + 1], added |-> <<>>]]
            IN [k |-> empty, v |-> empty]]
  BY DEF Init
<1>1. /\ engine \in Engines
      /\ decoded = [r \in Request |-> 0]
      /\ observations = <<>> /\ counts = <<>> /\ plan_cache = <<>>
      /\ phase = "idle"
      /\ call = <<>> /\ plan = <<>> /\ tensors = <<>> /\ pos = 0
      /\ raised = 0 /\ refused = 0
  BY DEF Init
<1>2. /\ engine.num_layers \in Nat \ {0} /\ Len(CacheOps(engine)) = engine.num_layers
      /\ MaxTokens \in Nat /\ MaxFailures \in Nat
  BY <1>1, EnginesAssumption, BoundsAssumption
<1>3. SessionTypeOK
  BY <1>1, <1>2 DEF SessionTypeOK
<1>4. CallerHolds
  <2>1. 0 \in Layers
    BY <1>2 DEF Layers, LayersOf
  <2>2. ASSUME NEW r \in Request, NEW l \in Layers
        PROVE  /\ caches[r].k[l] = [prefix |-> prompt[r].lengths[l + 1], added |-> <<>>]
               /\ caches[r].v[l] = [prefix |-> prompt[r].lengths[l + 1], added |-> <<>>]
               /\ prompt[r].lengths[l + 1] \in Nat
    BY <1>1, PromptsAssumption DEF Layers
  <2>3. \A first, r, p : KeyEntries(first, r, p, 0) = <<>> /\ ValueEntries(r, p, 0) = <<>>
    BY DEF KeyEntries, ValueEntries
  <2>4. ASSUME NEW r \in Request, NEW l \in Layers
        PROVE  /\ caches[r].k[l].prefix \in Nat
               /\ caches[r].k[l] = KeysOf(r, l, decoded[r])
               /\ caches[r].v[l] = ValuesOf(r, l, decoded[r])
    <3>1. decoded[r] = 0
      BY <1>1
    <3>2. /\ caches[r].k[l].prefix = prompt[r].lengths[l + 1]
          /\ caches[r].v[l].prefix = prompt[r].lengths[l + 1]
      BY <2>2
    <3>3. KeysOf(r, l, 0) = [prefix |-> prompt[r].lengths[l + 1], added |-> <<>>]
      BY <2>3, <3>2, Zenon DEF KeysOf
    <3>4. ValuesOf(r, l, 0) = [prefix |-> prompt[r].lengths[l + 1], added |-> <<>>]
      BY <2>3, <3>2, Zenon DEF ValuesOf
    <3> QED  BY <2>2, <3>1, <3>2, <3>3, <3>4, Zenon
  <2>5. batch \in [Request -> Nat] /\ decoded \in [Request -> 0..MaxTokens] /\ DOMAIN caches = Request
    BY <1>1, <1>2, PromptsAssumption
  <2> QED  BY <1>1, <2>4, <2>5 DEF CallerHolds
<1>5. CallHolds /\ TensorsHold
  BY <1>1 DEF CallHolds, TensorsHold
<1>6. Range(observations) = {} /\ Len(observations) = 0 /\ observations \in Seq(Nat \X Nat)
  BY <1>1, EmptySeq, NothingThere DEF Range
<1>7. PlansHold
  BY <1>1, <1>6, NothingThere DEF PlansHold
<1>8. ProfileHolds
  <2>1. Decoded = {}
    BY <1>1 DEF Decoded
  <2>2. Cardinality(Decoded) = 0
    BY <2>1, FS_EmptySet
  <2>3. counts = [s \in Range(observations) |-> TimesIn(observations, s)]
    BY <1>1, <1>6
  <2> QED  BY <1>1, <1>6, <2>2, <2>3 DEF ProfileHolds
<1> QED  BY <1>3, <1>4, <1>5, <1>7, <1>8 DEF IInv

LEMMA CallStepKeeps ==
    ASSUME IInv, NEW r \in Request, NEW given \in 1..engine.num_layers, CallStep(r, given)
    PROVE  IInv'
<1> DEFINE shape == <<SeqLen(r), batch[r]>>
<1>1. /\ SessionTypeOK /\ CallerHolds /\ CallHolds /\ TensorsHold /\ PlansHold /\ ProfileHolds
  BY DEF IInv
<1>2. /\ phase = "idle" /\ phase' = "plan" /\ decoded[r] < MaxTokens
      /\ given < engine.num_layers => raised < MaxFailures
      /\ observations' = Append(observations, shape)
      /\ counts' = [s \in DOMAIN counts \cup {shape} |->
                       (IF s \in DOMAIN counts THEN counts[s] ELSE 0) + (IF s = shape THEN 1 ELSE 0)]
      /\ call' = [request |-> r, token |-> <<r, decoded[r] + 1>>, given |-> given,
                  seq_len |-> SeqLen(r), batch |-> batch[r]]
      /\ plan_cache' = plan_cache /\ plan' = plan /\ tensors' = tensors /\ pos' = pos
      /\ raised' = raised /\ refused' = refused
      /\ UNCHANGED callerVars
  BY DEF CallStep, Record
<1>3. /\ CallerHolds'
      /\ engine' = engine /\ batch' = batch /\ caches' = caches /\ decoded' = decoded
  BY <1>1, <1>2, SameCaller
<1>4. shape \in Nat \X Nat /\ SeqLen(r)' = SeqLen(r)
  BY <1>1, <1>3, CallerProperties DEF SeqLen
<1>5. observations \in Seq(Nat \X Nat)
  BY <1>1 DEF ProfileHolds
<1> HIDE DEF shape
<1>6. /\ observations' \in Seq(Nat \X Nat)
      /\ Len(observations) \in Nat /\ Len(observations') = Len(observations) + 1
      /\ Range(observations') = Range(observations) \cup {shape}
      /\ TimesIn(observations', shape) = TimesIn(observations, shape) + 1
      /\ \A s : /\ s \notin Range(observations) => TimesIn(observations, s) = 0
                /\ TimesIn(observations, s) \in Nat
                /\ s # shape => TimesIn(observations', s) = TimesIn(observations, s)
  BY <1>2, <1>4, <1>5, RecordedOnce
<1>7. SessionTypeOK'
  <2>1. call' # <<>>
    BY <1>2, NothingThere
  <2> QED  BY <1>1, <1>2, <1>3, <2>1 DEF SessionTypeOK
<1>8. call'.request = r /\ <<call'.seq_len, call'.batch>> = shape
  BY <1>2 DEF shape
<1>9. CallHolds'
  <2>1. shape \in Range(observations')
    BY <1>6
  <2> QED  BY <1>2, <1>3, <1>4, <1>8, <2>1 DEF CallHolds
<1>10. TensorsHold'
  BY <1>2 DEF TensorsHold
<1>11. PlansHold'
  <2>1. \A s : BucketId(s)' = BucketId(s)
    BY <1>3 DEF BucketId
  <2>2. CallBucketId' = BucketId(shape)
    BY <1>3, <1>8 DEF CallBucketId, BucketId
  <2>3. \A id : PlanOf(id)' = PlanOf(id)
    BY <1>3 DEF PlanOf, Table
  <2>4. DOMAIN plan_cache = {BucketId(s) : s \in Range(observations)}
    BY <1>1, <1>2 DEF PlansHold
  <2>5. \A id \in DOMAIN plan_cache' : plan_cache'[id] = PlanOf(id)'
    BY <1>1, <1>2, <2>3 DEF PlansHold
  <2>6. {BucketId(s)' : s \in Range(observations')} = {BucketId(s) : s \in Range(observations)} \cup {BucketId(shape)}
    BY <1>6, <2>1
  <2> QED  BY <1>2, <2>2, <2>4, <2>5, <2>6 DEF PlansHold
<1>12. ProfileHolds'
  <2>1. Decoded' = Decoded
    BY <1>3 DEF Decoded
  <2>2. Cardinality(Decoded) \in Nat
    BY <1>1, DecodedIsFinite DEF CallerHolds
  <2>3. counts = [s \in Range(observations) |-> TimesIn(observations, s)]
    BY <1>1 DEF ProfileHolds
  <2>4. ASSUME NEW s
        PROVE  (IF s \in DOMAIN counts THEN counts[s] ELSE 0) + (IF s = shape THEN 1 ELSE 0)
                  = TimesIn(observations', s)
    <3>1. (IF s \in DOMAIN counts THEN counts[s] ELSE 0) = TimesIn(observations, s)
      BY <1>6, <2>3
    <3>2. TimesIn(observations, s) \in Nat
      BY <1>6
    <3>3. CASE s = shape
      BY <1>6, <3>1, <3>3
    <3>4. CASE s # shape
      <4>1. TimesIn(observations', s) = TimesIn(observations, s)
        BY <1>6, <3>4
      <4>2. TimesIn(observations, s) + 0 = TimesIn(observations, s)
        BY <3>2
      <4> QED  BY <3>1, <3>4, <4>1, <4>2
    <3> QED  BY <3>3, <3>4
  <2>5. counts' = [s \in Range(observations') |-> TimesIn(observations', s)]
    <3>1. DOMAIN counts \cup {shape} = Range(observations')
      BY <1>6, <2>3
    <3> QED  BY <1>2, <2>4, <3>1
  <2>6. Len(observations') = Cardinality(Decoded') + raised' - refused' + 1
    <3>1. Len(observations) = Cardinality(Decoded) + raised - refused + 0
      BY <1>1, <1>2 DEF ProfileHolds
    <3>2. raised \in Int /\ refused \in Int
      BY <1>1, BoundsAssumption DEF SessionTypeOK
    <3> QED  BY <1>2, <1>6, <2>1, <2>2, <3>1, <3>2
  <2> QED  BY <1>2, <1>6, <2>5, <2>6 DEF ProfileHolds
<1> QED  BY <1>3, <1>7, <1>9, <1>10, <1>11, <1>12 DEF IInv

\* A call that is refused leaves all but the two counters as it was.
LEMMA RefuseStepKeeps ==
    ASSUME IInv, NEW r \in Request, RefuseStep(r)
    PROVE  IInv'
<1>1. /\ SessionTypeOK /\ CallerHolds /\ CallHolds /\ TensorsHold /\ PlansHold /\ ProfileHolds
  BY DEF IInv
<1>2. /\ phase = "idle" /\ phase' = "idle"
      /\ raised < MaxFailures /\ raised' = raised + 1 /\ refused' = refused + 1
      /\ observations' = observations /\ counts' = counts
      /\ plan_cache' = plan_cache
      /\ call' = call /\ plan' = plan /\ tensors' = tensors /\ pos' = pos
      /\ UNCHANGED callerVars
  BY DEF RefuseStep, profileVars, stepVars
<1>3. /\ CallerHolds'
      /\ engine' = engine /\ batch' = batch /\ caches' = caches /\ decoded' = decoded
  BY <1>1, <1>2, SameCaller
<1>4. raised \in Nat /\ refused \in Nat /\ refused <= raised
  BY <1>1, BoundsAssumption DEF SessionTypeOK
<1>5. SessionTypeOK'
  <2>1. raised' \in 0..MaxFailures /\ refused' \in 0..raised'
    BY <1>2, <1>4, BoundsAssumption
  <2> QED  BY <1>1, <1>2, <1>3, <2>1 DEF SessionTypeOK
<1>6. CallHolds' /\ TensorsHold'
  BY <1>2 DEF CallHolds, TensorsHold
<1>7. PlansHold'
  <2>1. \A s : BucketId(s)' = BucketId(s)
    BY <1>3 DEF BucketId
  <2>2. \A id : PlanOf(id)' = PlanOf(id)
    BY <1>3 DEF PlanOf, Table
  <2> QED  BY <1>1, <1>2, <2>1, <2>2 DEF PlansHold
<1>8. ProfileHolds'
  <2>1. Decoded' = Decoded
    BY <1>3 DEF Decoded
  <2>2. Cardinality(Decoded) \in Nat
    BY <1>1, DecodedIsFinite DEF CallerHolds
  <2>3. Len(observations) = Cardinality(Decoded') + raised' - refused' + 0
    <3>1. Len(observations) = Cardinality(Decoded) + raised - refused + 0
      BY <1>1, <1>2 DEF ProfileHolds
    <3> QED  BY <1>2, <1>4, <2>1, <2>2, <3>1
  <2> QED  BY <1>1, <1>2, <2>3 DEF ProfileHolds
<1> QED  BY <1>3, <1>5, <1>6, <1>7, <1>8 DEF IInv

\* A step that finds or makes its plan.
LEMMA PlanningKeeps ==
    ASSUME IInv, ReusePlan \/ BuildPlan
    PROVE  IInv'
<1>1. /\ SessionTypeOK /\ CallerHolds /\ CallHolds /\ TensorsHold /\ PlansHold /\ ProfileHolds
  BY DEF IInv
<1>2. /\ phase = "plan" /\ phase' = "bind"
      /\ observations' = observations /\ counts' = counts
      /\ call' = call /\ tensors' = tensors /\ pos' = pos
      /\ raised' = raised /\ refused' = refused
      /\ UNCHANGED callerVars
  BY DEF ReusePlan, BuildPlan, BuildAs, profileVars
<1>3. /\ CallerHolds'
      /\ engine' = engine /\ batch' = batch /\ caches' = caches /\ decoded' = decoded
  BY <1>1, <1>2, SameCaller
<1>4. CallBucketId' = CallBucketId
  BY <1>2, <1>3 DEF CallBucketId, BucketId
<1>5. \A s : BucketId(s)' = BucketId(s)
  BY <1>3 DEF BucketId
<1>6. \A id : PlanOf(id)' = PlanOf(id)
  BY <1>3 DEF PlanOf, Table
<1>7. /\ DOMAIN plan_cache \cup {CallBucketId} = {BucketId(s) : s \in Range(observations)}
      /\ \A id \in DOMAIN plan_cache : plan_cache[id] = PlanOf(id)
  BY <1>1, <1>2 DEF PlansHold
<1>8. /\ plan' = PlanOf(CallBucketId)
      /\ DOMAIN plan_cache' = DOMAIN plan_cache \cup {CallBucketId}
      /\ \A id \in DOMAIN plan_cache' : plan_cache'[id] = PlanOf(id)
  <2>1. CASE ReusePlan
    BY <1>7, <2>1 DEF ReusePlan
  <2>2. CASE BuildPlan
    <3> DEFINE id == CallBucketId
               made == PlanOf(id)
    <3>1. /\ plan' = made
          /\ plan_cache' = [b \in DOMAIN plan_cache \cup {id} |->
                               IF b = id THEN made ELSE plan_cache[b]]
      BY <2>2 DEF BuildPlan, BuildAs, PlanOf, Table
    <3> HIDE DEF id
    <3> QED  BY <1>7, <3>1 DEF id
  <2> QED  BY <2>1, <2>2
<1>9. SessionTypeOK'
  <2>1. plan' # <<>>
    BY <1>8, PlanIsThere
  <2> QED  BY <1>1, <1>2, <1>3, <2>1 DEF SessionTypeOK
<1>10. CallHolds'
  BY <1>1, <1>2, <1>3 DEF CallHolds, SeqLen
<1>11. TensorsHold'
  BY <1>2 DEF TensorsHold
<1>12. PlansHold'
  BY <1>2, <1>4, <1>5, <1>6, <1>7, <1>8 DEF PlansHold
<1>13. ProfileHolds'
  <2>1. Decoded' = Decoded
    BY <1>3 DEF Decoded
  <2> QED  BY <1>1, <1>2, <2>1 DEF ProfileHolds
<1> QED  BY <1>3, <1>9, <1>10, <1>11, <1>12, <1>13 DEF IInv

\* A step that raises, late or for want of caches.
LEMMA GivingUpKeeps ==
    ASSUME IInv, MissCaches \/ RaiseInStep
    PROVE  IInv'
<1>1. /\ SessionTypeOK /\ CallerHolds /\ CallHolds /\ TensorsHold /\ PlansHold /\ ProfileHolds
  BY DEF IInv
<1>2. /\ phase \in {"bind", "execute"} /\ phase' = "idle"
      /\ raised' = raised + 1 /\ refused' = refused
      /\ observations' = observations /\ counts' = counts /\ plan_cache' = plan_cache
      /\ call' = <<>> /\ plan' = <<>> /\ tensors' = <<>> /\ pos' = 0
      /\ UNCHANGED callerVars
  BY DEF MissCaches, RaiseInStep, GiveUp, profileVars
<1>3. raised < MaxFailures
  BY <1>1 DEF MissCaches, RaiseInStep, CallHolds
<1>4. /\ CallerHolds'
      /\ engine' = engine /\ batch' = batch /\ caches' = caches /\ decoded' = decoded
  BY <1>1, <1>2, SameCaller
<1>5. raised \in Nat /\ refused \in Nat /\ refused <= raised
  BY <1>1, BoundsAssumption DEF SessionTypeOK
<1>6. SessionTypeOK'
  <2>1. raised' \in 0..MaxFailures /\ refused' \in 0..raised'
    BY <1>2, <1>3, <1>5, BoundsAssumption
  <2>2. pos' \in 0..Len(CacheOps(engine'))
    BY <1>1, <1>2, <1>4, CallerProperties
  <2> QED  BY <1>1, <1>2, <1>4, <2>1, <2>2 DEF SessionTypeOK
<1>7. CallHolds' /\ TensorsHold'
  BY <1>2 DEF CallHolds, TensorsHold
<1>8. PlansHold'
  <2>1. \A s : BucketId(s)' = BucketId(s)
    BY <1>4 DEF BucketId
  <2>2. \A id : PlanOf(id)' = PlanOf(id)
    BY <1>4 DEF PlanOf, Table
  <2> QED  BY <1>1, <1>2, <2>1, <2>2 DEF PlansHold
<1>9. ProfileHolds'
  <2>1. Decoded' = Decoded
    BY <1>4 DEF Decoded
  <2>2. Cardinality(Decoded) \in Nat
    BY <1>1, DecodedIsFinite DEF CallerHolds
  <2>3. Len(observations) = Cardinality(Decoded') + raised' - refused' + 0
    <3>1. Len(observations) = Cardinality(Decoded) + raised - refused + 1
      BY <1>1, <1>2 DEF ProfileHolds
    <3> QED  BY <1>2, <1>5, <2>1, <2>2, <3>1
  <2> QED  BY <1>1, <1>2, <2>3 DEF ProfileHolds
<1> QED  BY <1>4, <1>6, <1>7, <1>8, <1>9 DEF IInv

\* A layer's cache op, and what the names of its inputs and outputs are.
LEMMA CacheOpOfLayer ==
    ASSUME CallerHolds, NEW l \in Layers
    PROVE  /\ CacheOps(engine)[l + 1].inputs
                = << <<"k_rot", Prefix(l)>>, <<"v_new", Prefix(l)>>, IoNames(l).k_in, IoNames(l).v_in >>
           /\ CacheOps(engine)[l + 1].outputs = <<IoNames(l).k_out, IoNames(l).v_out>>
           /\ RotatedTo(<<"k_rot", Prefix(l)>>) = CallDims.seq_len
<1> DEFINE key == <<"k_rot", Prefix(l)>>
<1>1. ExtendsCaches(engine, l)
  BY EnginesAssumption DEF CallerHolds, Layers
<1>2. /\ Ropes(engine, key) # {}
      /\ \A rope \in Ropes(engine, key) : rope.attrs.param = "seq_len"
  BY <1>1 DEF ExtendsCaches, Prefix
<1> HIDE DEF key
<1>3. RotatedTo(key) = CallDims["seq_len"]
  <2>1. (CHOOSE rope \in Ropes(engine, key) : TRUE) \in Ropes(engine, key)
    BY <1>2
  <2> QED  BY <1>2, <2>1 DEF RotatedTo
<1>4. CallDims["seq_len"] = CallDims.seq_len
  BY DEF CallDims
<1> QED  BY <1>1, <1>3, <1>4 DEF ExtendsCaches, IoNames, Prefix, key

LEMMA BindCachesKeeps ==
    ASSUME IInv, BindCaches
    PROVE  IInv'
<1>1. /\ SessionTypeOK /\ CallerHolds /\ CallHolds /\ TensorsHold /\ PlansHold /\ ProfileHolds
  BY DEF IInv
<1> DEFINE mine == caches[call.request]
           names == UNION {{IoNames(l).k_in, IoNames(l).v_in} : l \in Layers}
           Named(t) == CHOOSE l \in Layers :
                          /\ t \in {IoNames(l).k_in, IoNames(l).v_in}
                          /\ \A m \in Layers : t \in {IoNames(m).k_in, IoNames(m).v_in} => m <= l
           bound == [t \in names |-> IF t = IoNames(Named(t)).k_in THEN mine.k[Named(t)]
                                                                  ELSE mine.v[Named(t)]]
<1>2. /\ phase = "bind" /\ phase' = "execute" /\ call.given = engine.num_layers
      /\ tensors' = bound
      /\ observations' = observations /\ counts' = counts /\ plan_cache' = plan_cache
      /\ call' = call /\ plan' = plan /\ pos' = pos
      /\ raised' = raised /\ refused' = refused
      /\ UNCHANGED callerVars
  BY DEF BindCaches, profileVars
<1>3. /\ CallerHolds'
      /\ engine' = engine /\ batch' = batch /\ caches' = caches /\ decoded' = decoded
  BY <1>1, <1>2, SameCaller
<1>4. ASSUME NEW l \in Layers
      PROVE  /\ {IoNames(l).k_in, IoNames(l).v_in} \subseteq DOMAIN bound
             /\ bound[IoNames(l).k_in] = mine.k[l]
             /\ bound[IoNames(l).v_in] = mine.v[l]
  <2>1. {IoNames(l).k_in, IoNames(l).v_in} \subseteq names
    OBVIOUS
  <2>2. l <= l
    BY <1>1, CallerProperties
  <2>3. \A m \in Layers : /\ IoNames(l).k_in \in {IoNames(m).k_in, IoNames(m).v_in} => m = l
                          /\ IoNames(l).v_in \in {IoNames(m).k_in, IoNames(m).v_in} => m = l
    <3> SUFFICES ASSUME NEW m \in Layers
                 PROVE  /\ IoNames(l).k_in \in {IoNames(m).k_in, IoNames(m).v_in} => m = l
                        /\ IoNames(l).v_in \in {IoNames(m).k_in, IoNames(m).v_in} => m = l
      OBVIOUS
    <3>1. /\ IoNames(l).k_in = IoNames(m).k_in <=> l = m
          /\ IoNames(l).v_in = IoNames(m).v_in <=> l = m
          /\ IoNames(l).k_in # IoNames(m).v_in
          /\ IoNames(m).k_in # IoNames(l).v_in
      BY <1>1, NamesDiffer
    <3> QED  BY <3>1
  <2>4. \A t \in {IoNames(l).k_in, IoNames(l).v_in} : Named(t) = l
    <3> SUFFICES ASSUME NEW t \in {IoNames(l).k_in, IoNames(l).v_in} PROVE Named(t) = l
      OBVIOUS
    <3> DEFINE good(x) == /\ t \in {IoNames(x).k_in, IoNames(x).v_in}
                          /\ \A m \in Layers : t \in {IoNames(m).k_in, IoNames(m).v_in} => m <= x
    <3>1. \A m \in Layers : t \in {IoNames(m).k_in, IoNames(m).v_in} => m = l
      BY <2>3
    <3>2. good(l)
      BY <2>2, <3>1
    <3>3. \A x \in Layers : good(x) => x = l
      BY <3>1
    <3> QED  BY <3>2, <3>3
  <2>5. IoNames(l).v_in # IoNames(l).k_in
    BY <1>1, NamesDiffer
  <2> HIDE DEF Named, mine, names
  <2> QED  BY <2>1, <2>4, <2>5
<1> HIDE DEF bound
<1>5. SessionTypeOK'
  BY <1>1, <1>2, <1>3 DEF SessionTypeOK
<1>6. CallHolds'
  BY <1>1, <1>2, <1>3 DEF CallHolds, SeqLen
<1>7. TensorsHold'
  <2>1. pos' = 0
    BY <1>1, <1>2 DEF SessionTypeOK
  <2>2. Layers' = Layers /\ \A l : IoNames(l)' = IoNames(l)
    BY <1>3 DEF Layers, IoNames
  <2>3. \A l \in Layers : ~ (l < 0)
    BY <1>1, CallerProperties
  <2> QED  BY <1>2, <1>3, <1>4, <2>1, <2>2, <2>3 DEF TensorsHold
<1>8. PlansHold'
  <2>1. \A s : BucketId(s)' = BucketId(s)
    BY <1>3 DEF BucketId
  <2>2. \A id : PlanOf(id)' = PlanOf(id)
    BY <1>3 DEF PlanOf, Table
  <2>3. CallBucketId' = CallBucketId
    BY <1>2, <2>1 DEF CallBucketId, BucketId
  <2> QED  BY <1>1, <1>2, <2>1, <2>2, <2>3 DEF PlansHold
<1>9. ProfileHolds'
  <2>1. Decoded' = Decoded
    BY <1>3 DEF Decoded
  <2> QED  BY <1>1, <1>2, <2>1 DEF ProfileHolds
<1> QED  BY <1>3, <1>5, <1>6, <1>7, <1>8, <1>9 DEF IInv

\* The cache op of a layer adds the entries of the call's token.
LEMMA ExtendedByLayer ==
    ASSUME IInv, phase = "execute", NEW l \in Layers
    PROVE  /\ DOMAIN Extended(CacheOps(engine)[l + 1])
                = DOMAIN tensors \cup {IoNames(l).k_out, IoNames(l).v_out}
           /\ \A t \in DOMAIN tensors \ {IoNames(l).k_out, IoNames(l).v_out} :
                 Extended(CacheOps(engine)[l + 1])[t] = tensors[t]
           /\ Extended(CacheOps(engine)[l + 1])[IoNames(l).k_out]
                = KeysOf(call.request, l, decoded[call.request] + 1)
           /\ Extended(CacheOps(engine)[l + 1])[IoNames(l).v_out]
                = ValuesOf(call.request, l, decoded[call.request] + 1)
<1> DEFINE op == CacheOps(engine)[l + 1]
           io == IoNames(l)
           r == call.request
           n == decoded[r]
           p == Prefix(l)
           first == caches[r].k[0].prefix
           kp == caches[r].k[l].prefix
           vp == caches[r].v[l].prefix
           key == [token |-> <<r, n + 1>>, of |-> <<"k_rot", p>>, position |-> first + (n + 1) - 1]
           value == [token |-> <<r, n + 1>>, of |-> <<"v_new", p>>]
<1>1. CallerHolds /\ CallHolds /\ TensorsHold
  BY DEF IInv
<1>2. /\ op.inputs[1] = <<"k_rot", p>> /\ op.inputs[2] = <<"v_new", p>>
      /\ op.inputs[3] = io.k_in /\ op.inputs[4] = io.v_in
      /\ op.outputs[1] = io.k_out /\ op.outputs[2] = io.v_out
      /\ io.k_out # io.v_out /\ RotatedTo(<<"k_rot", p>>) = CallDims.seq_len
  BY <1>1, CacheOpOfLayer, NamesDiffer
<1>3. r \in Request /\ n \in Nat /\ first \in Nat /\ SeqLen(r) = first + n
  BY <1>1, CallerProperties DEF CallHolds
<1>4. /\ call.token = <<r, n + 1>>
      /\ CallDims.seq_len = first + (n + 1) - 1
  <2>1. call.token = <<r, n + 1>> /\ call.seq_len = SeqLen(r)
    BY <1>1 DEF CallHolds
  <2>2. CallDims.seq_len = call.seq_len
    BY DEF CallDims
  <2> QED  BY <1>3, <2>1, <2>2
<1>5. /\ tensors[io.k_in] = [prefix |-> kp, added |-> KeyEntries(first, r, p, n)]
      /\ tensors[io.v_in] = [prefix |-> vp, added |-> ValueEntries(r, p, n)]
  <2>1. tensors[io.k_in] = caches[r].k[l] /\ tensors[io.v_in] = caches[r].v[l]
    BY <1>1 DEF TensorsHold
  <2>2. caches[r].k[l] = KeysOf(r, l, n) /\ caches[r].v[l] = ValuesOf(r, l, n)
    BY <1>1, <1>3 DEF CallerHolds
  <2> QED  BY <2>1, <2>2 DEF KeysOf, ValuesOf
<1>6. /\ KeysOf(r, l, n + 1) = [prefix |-> kp, added |-> KeyEntries(first, r, p, n + 1)]
      /\ ValuesOf(r, l, n + 1) = [prefix |-> vp, added |-> ValueEntries(r, p, n + 1)]
  BY SMTT(30) DEF KeysOf, ValuesOf
<1>7. /\ DOMAIN Extended(op) = DOMAIN tensors \cup {io.k_out, io.v_out}
      /\ \A t \in DOMAIN tensors \ {io.k_out, io.v_out} : Extended(op)[t] = tensors[t]
      /\ Extended(op)[io.k_out] = [tensors[io.k_in] EXCEPT !.added = Append(@, key)]
      /\ Extended(op)[io.v_out] = [tensors[io.v_in] EXCEPT !.added = Append(@, value)]
  <2> HIDE DEF op, io, p, first, n, r
  <2> QED  BY <1>2, <1>4 DEF Extended
<1> HIDE DEF op, io, r, n, p, first, kp, vp
<1>8. /\ Append(KeyEntries(first, r, p, n), key) = KeyEntries(first, r, p, n + 1)
      /\ Append(ValueEntries(r, p, n), value) = ValueEntries(r, p, n + 1)
  <2>1. n \in Nat
    BY <1>3
  <2> QED  BY <2>1, NextEntries, Zenon
<1>9. /\ Extended(op)[io.k_out] = KeysOf(r, l, n + 1)
      /\ Extended(op)[io.v_out] = ValuesOf(r, l, n + 1)
  <2> HIDE DEF key, value
  <2> DEFINE kc == tensors[io.k_in]
             vc == tensors[io.v_in]
             ke == KeyEntries(first, r, p, n)
             ve == ValueEntries(r, p, n)
             made == Extended(op)
  <2>1. /\ kc = [prefix |-> kp, added |-> ke] /\ vc = [prefix |-> vp, added |-> ve]
        /\ made[io.k_out] = [kc EXCEPT !.added = Append(@, key)]
        /\ made[io.v_out] = [vc EXCEPT !.added = Append(@, value)]
    BY <1>5, <1>7
  <2> HIDE DEF kc, vc, ke, ve, made
  <2>2. made[io.k_out] = [prefix |-> kp, added |-> Append(ke, key)]
    BY <2>1
  <2>3. made[io.v_out] = [prefix |-> vp, added |-> Append(ve, value)]
    BY <2>1
  <2> USE DEF ke, ve, made
  <2> QED  BY <1>6, <1>8, <2>2, <2>3, Zenon
<1> QED  BY <1>7, <1>9 DEF op, io, r, n

LEMMA ExecuteCacheOpKeeps ==
    ASSUME IInv, ExecuteCacheOp
    PROVE  IInv'
<1>1. /\ SessionTypeOK /\ CallerHolds /\ CallHolds /\ TensorsHold /\ PlansHold /\ ProfileHolds
  BY DEF IInv
<1> DEFINE made == Extended(CacheOps(engine)[pos + 1])
<1>2. /\ phase = "execute" /\ phase' = "execute"
      /\ pos < Len(CacheOps(engine)) /\ pos' = pos + 1
      /\ tensors' = made
      /\ observations' = observations /\ counts' = counts /\ plan_cache' = plan_cache
      /\ call' = call /\ plan' = plan
      /\ raised' = raised /\ refused' = refused
      /\ UNCHANGED callerVars
  BY DEF ExecuteCacheOp, profileVars
<1>3. /\ CallerHolds'
      /\ engine' = engine /\ batch' = batch /\ caches' = caches /\ decoded' = decoded
  BY <1>1, <1>2, SameCaller
<1>4. pos \in Nat /\ pos \in Layers
  <2>1. /\ pos \in Nat
        /\ pos < engine.num_layers
    BY <1>1, <1>2, CallerProperties DEF SessionTypeOK
  <2> QED  BY <1>1, <2>1, CallerProperties
<1> DEFINE io == IoNames(pos)
           r == call.request
           n == decoded[r] + 1
<1>5. /\ DOMAIN made = DOMAIN tensors \cup {io.k_out, io.v_out}
      /\ \A t \in DOMAIN tensors \ {io.k_out, io.v_out} : made[t] = tensors[t]
      /\ made[io.k_out] = KeysOf(r, pos, n)
      /\ made[io.v_out] = ValuesOf(r, pos, n)
  BY <1>2, <1>4, ExtendedByLayer
<1> HIDE DEF made
<1>6. /\ DOMAIN tensors \cup {io.k_out, io.v_out} \subseteq DOMAIN tensors'
      /\ tensors'[io.k_out] = KeysOf(r, pos, n)
      /\ tensors'[io.v_out] = ValuesOf(r, pos, n)
      /\ \A t \in DOMAIN tensors \ {io.k_out, io.v_out} : tensors'[t] = tensors[t]
  BY <1>2, <1>5
<1>7. SessionTypeOK'
  <2>1. pos' \in 0..Len(CacheOps(engine'))
    BY <1>1, <1>2, <1>3, <1>4, CallerProperties
  <2> QED  BY <1>1, <1>2, <1>3, <2>1 DEF SessionTypeOK
<1>8. CallHolds'
  BY <1>1, <1>2, <1>3 DEF CallHolds, SeqLen
<1>9. TensorsHold'
  <2>1. /\ Layers' = Layers /\ \A l : IoNames(l)' = IoNames(l)
        /\ \A q, l, k : KeysOf(q, l, k)' = KeysOf(q, l, k) /\ ValuesOf(q, l, k)' = ValuesOf(q, l, k)
    BY <1>3 DEF Layers, IoNames, KeysOf, ValuesOf, Prefix
  <2>2. ASSUME NEW l \in Layers
        PROVE  /\ {IoNames(l).k_in, IoNames(l).v_in} \subseteq DOMAIN tensors'
               /\ tensors'[IoNames(l).k_in] = caches[r].k[l]
               /\ tensors'[IoNames(l).v_in] = caches[r].v[l]
               /\ l < pos' => /\ {IoNames(l).k_out, IoNames(l).v_out} \subseteq DOMAIN tensors'
                              /\ tensors'[IoNames(l).k_out] = KeysOf(r, l, n)
                              /\ tensors'[IoNames(l).v_out] = ValuesOf(r, l, n)
    <3>1. /\ {IoNames(l).k_in, IoNames(l).v_in} \subseteq DOMAIN tensors
          /\ tensors[IoNames(l).k_in] = caches[r].k[l]
          /\ tensors[IoNames(l).v_in] = caches[r].v[l]
          /\ l < pos => /\ tensors[IoNames(l).k_out] = KeysOf(r, l, n)
                        /\ tensors[IoNames(l).v_out] = ValuesOf(r, l, n)
      BY <1>1, <1>2 DEF TensorsHold
    <3>2. /\ {IoNames(l).k_in, IoNames(l).v_in} \cap {io.k_out, io.v_out} = {}
          /\ l # pos => {IoNames(l).k_out, IoNames(l).v_out} \cap {io.k_out, io.v_out} = {}
      <4>1. /\ IoNames(l).k_out = io.k_out <=> l = pos
            /\ IoNames(l).v_out = io.v_out <=> l = pos
            /\ IoNames(l).k_in \notin {io.k_out, io.v_out}
            /\ IoNames(l).v_in \notin {io.k_out, io.v_out}
            /\ IoNames(l).k_out # io.v_out
            /\ io.k_out # IoNames(l).v_out
        BY <1>1, <1>4, NamesDiffer
      <4> QED  BY <4>1
    <3>3. CASE l = pos
      BY <1>6, <3>1, <3>2, <3>3
    <3>4. CASE l # pos
      <4>1. l < pos' => l < pos
        BY <1>1, <1>2, <1>4, <3>4, CallerProperties
      <4>2. l < pos => {IoNames(l).k_out, IoNames(l).v_out} \subseteq DOMAIN tensors
        BY <1>1, <1>2 DEF TensorsHold
      <4> QED  BY <1>6, <3>1, <3>2, <3>4, <4>1, <4>2
    <3> QED  BY <3>3, <3>4
  <2>3. call'.given = engine'.num_layers
    BY <1>1, <1>2, <1>3 DEF TensorsHold
  <2> HIDE DEF r
  <2> QED  BY <1>2, <1>3, <2>1, <2>2, <2>3 DEF TensorsHold, r
<1>10. PlansHold'
  <2>1. \A s : BucketId(s)' = BucketId(s)
    BY <1>3 DEF BucketId
  <2>2. \A id : PlanOf(id)' = PlanOf(id)
    BY <1>3 DEF PlanOf, Table
  <2>3. CallBucketId' = CallBucketId
    BY <1>2, <2>1 DEF CallBucketId, BucketId
  <2> QED  BY <1>1, <1>2, <2>1, <2>2, <2>3 DEF PlansHold
<1>11. ProfileHolds'
  <2>1. Decoded' = Decoded
    BY <1>3 DEF Decoded
  <2> QED  BY <1>1, <1>2, <2>1 DEF ProfileHolds
<1> QED  BY <1>3, <1>7, <1>8, <1>9, <1>10, <1>11 DEF IInv

\* What a step returns: the request's caches with one token more, every other
\* request's as they were.
LEMMA Returned ==
    ASSUME IInv, Return
    PROVE  LET r == call.request IN
           /\ engine' = engine /\ batch' = batch
           /\ decoded' = [decoded EXCEPT ![r] = @ + 1]
           /\ r \in Request /\ decoded[r] < MaxTokens
           /\ DOMAIN caches' = Request
           /\ \A q \in Request : q # r => caches'[q] = caches[q]
           /\ \A l \in Layers : /\ caches'[r].k[l] = KeysOf(r, l, decoded[r] + 1)
                                /\ caches'[r].v[l] = ValuesOf(r, l, decoded[r] + 1)
<1> DEFINE r == call.request
           result == [k |-> [l \in Layers |-> tensors[IoNames(l).k_out]],
                      v |-> [l \in Layers |-> tensors[IoNames(l).v_out]]]
<1>1. CallerHolds /\ CallHolds /\ TensorsHold
  BY DEF IInv
<1>2. /\ phase = "execute" /\ pos = Len(CacheOps(engine))
      /\ caches' = [caches EXCEPT ![r] = result]
      /\ decoded' = [decoded EXCEPT ![r] = @ + 1]
      /\ engine' = engine /\ batch' = batch
  BY DEF Return
<1>3. r \in Request /\ decoded[r] < MaxTokens
  BY <1>1, <1>2 DEF CallHolds
<1>4. DOMAIN caches = Request
  BY <1>1 DEF CallerHolds
<1> HIDE DEF result, r
<1>5. /\ DOMAIN caches' = Request
      /\ caches'[r] = result
      /\ \A q \in Request : q # r => caches'[q] = caches[q]
  BY <1>2, <1>3, <1>4
<1>6. ASSUME NEW l \in Layers
      PROVE  /\ result.k[l] = KeysOf(r, l, decoded[r] + 1)
             /\ result.v[l] = ValuesOf(r, l, decoded[r] + 1)
  <2>1. l < pos
    BY <1>1, <1>2, CallerProperties
  <2>2. /\ tensors[IoNames(l).k_out] = KeysOf(r, l, decoded[r] + 1)
        /\ tensors[IoNames(l).v_out] = ValuesOf(r, l, decoded[r] + 1)
    BY <1>1, <1>2, <2>1 DEF TensorsHold, r
  <2> QED  BY <2>2 DEF result
<1> QED  BY <1>2, <1>3, <1>5, <1>6 DEF r

LEMMA ReturnKeeps ==
    ASSUME IInv, Return
    PROVE  IInv'
<1> DEFINE r == call.request
<1>1. /\ SessionTypeOK /\ CallerHolds /\ CallHolds /\ TensorsHold /\ PlansHold /\ ProfileHolds
  BY DEF IInv
<1>2. /\ phase = "execute" /\ phase' = "idle"
      /\ raised' = raised /\ refused' = refused
      /\ observations' = observations /\ counts' = counts /\ plan_cache' = plan_cache
      /\ call' = <<>> /\ plan' = <<>> /\ tensors' = <<>> /\ pos' = 0
  BY DEF Return, profileVars
<1>3. /\ engine' = engine /\ batch' = batch
      /\ decoded' = [decoded EXCEPT ![r] = @ + 1]
      /\ r \in Request /\ decoded[r] < MaxTokens
      /\ DOMAIN caches' = Request
      /\ \A q \in Request : q # r => caches'[q] = caches[q]
      /\ \A l \in Layers : /\ caches'[r].k[l] = KeysOf(r, l, decoded[r] + 1)
                           /\ caches'[r].v[l] = ValuesOf(r, l, decoded[r] + 1)
  BY Returned
<1> HIDE DEF r
<1>4. /\ decoded \in [Request -> 0..MaxTokens]
      /\ decoded' \in [Request -> 0..MaxTokens]
      /\ decoded'[r] = decoded[r] + 1
      /\ \A q \in Request : q # r => decoded'[q] = decoded[q]
  BY <1>1, <1>3, BoundsAssumption DEF CallerHolds
<1>5. Layers' = Layers /\ 0 \in Layers /\ \A l : Prefix(l)' = Prefix(l)
  BY <1>1, <1>3, CallerProperties DEF Layers, Prefix
<1>6. CallerHolds'
  <2>1. ASSUME NEW q \in Request, NEW l \in Layers
        PROVE  /\ caches'[q].k[l].prefix = caches[q].k[l].prefix
               /\ caches'[q].v[l].prefix = caches[q].v[l].prefix
    <3>1. CASE q = r
      <4>1. /\ KeysOf(r, l, decoded[r] + 1).prefix = caches[r].k[l].prefix
            /\ ValuesOf(r, l, decoded[r] + 1).prefix = caches[r].v[l].prefix
        BY DEF KeysOf, ValuesOf
      <4> QED  BY <1>3, <3>1, <4>1
    <3>2. CASE q # r
      BY <1>3, <3>2
    <3> QED  BY <3>1, <3>2
  <2>2. ASSUME NEW q \in Request, NEW l \in Layers
        PROVE  /\ caches'[q].k[l] = KeysOf(q, l, decoded'[q])
               /\ caches'[q].v[l] = ValuesOf(q, l, decoded'[q])
               /\ caches[q].k[l].prefix \in Nat
    <3>1. /\ caches[q].k[l].prefix \in Nat
          /\ caches[q].k[l] = KeysOf(q, l, decoded[q])
          /\ caches[q].v[l] = ValuesOf(q, l, decoded[q])
      BY <1>1 DEF CallerHolds
    <3>2. CASE q = r
      BY <1>3, <1>4, <3>1, <3>2
    <3>3. CASE q # r
      BY <1>3, <1>4, <3>1, <3>3
    <3> QED  BY <3>2, <3>3
  <2>3. ASSUME NEW q \in Request, NEW l \in Layers
        PROVE  /\ caches'[q].k[l] = KeysOf(q, l, decoded[q])'
               /\ caches'[q].v[l] = ValuesOf(q, l, decoded[q])'
    BY <1>5, <2>1, <2>2 DEF KeysOf, ValuesOf
  <2>4. engine' \in Engines /\ batch' \in [Request -> Nat]
    BY <1>1, <1>3 DEF CallerHolds
  <2>5. (\A q \in Request, l \in Layers :
           /\ caches[q].k[l].prefix \in Nat
           /\ caches[q].k[l] = KeysOf(q, l, decoded[q])
           /\ caches[q].v[l] = ValuesOf(q, l, decoded[q]))'
    BY <1>5, <2>1, <2>2, <2>3
  <2> QED  BY <1>3, <1>4, <1>5, <2>4, <2>5 DEF CallerHolds
<1>7. SessionTypeOK'
  <2>1. pos' \in 0..Len(CacheOps(engine'))
    BY <1>1, <1>2, <1>3, CallerProperties
  <2> QED  BY <1>1, <1>2, <1>3, <1>4, <2>1 DEF SessionTypeOK
<1>8. CallHolds' /\ TensorsHold'
  BY <1>2 DEF CallHolds, TensorsHold
<1>9. PlansHold'
  <2>1. \A s : BucketId(s)' = BucketId(s)
    BY <1>3 DEF BucketId
  <2>2. \A id : PlanOf(id)' = PlanOf(id)
    BY <1>3 DEF PlanOf, Table
  <2> QED  BY <1>1, <1>2, <2>1, <2>2 DEF PlansHold
<1>10. ProfileHolds'
  <2>1. Cardinality(Decoded') = Cardinality(Decoded) + 1
    BY <1>3, <1>4, DecodedGrows
  <2>2. Cardinality(Decoded) \in Nat
    BY <1>4, DecodedIsFinite
  <2>3. Len(observations) = Cardinality(Decoded') + raised' - refused' + 0
    <3>1. Len(observations) = Cardinality(Decoded) + raised - refused + 1
      BY <1>1, <1>2 DEF ProfileHolds
    <3>2. raised \in Int /\ refused \in Int
      BY <1>1, BoundsAssumption DEF SessionTypeOK
    <3> QED  BY <1>2, <2>1, <2>2, <3>1, <3>2
  <2> QED  BY <1>1, <1>2, <2>3 DEF ProfileHolds
<1> QED  BY <1>6, <1>7, <1>8, <1>9, <1>10 DEF IInv

LEMMA StutterKeeps ==
    ASSUME IInv, UNCHANGED vars
    PROVE  IInv'
<1>1. /\ SessionTypeOK /\ CallerHolds /\ CallHolds /\ TensorsHold /\ PlansHold /\ ProfileHolds
  BY DEF IInv
<1>2. /\ phase' = phase /\ call' = call /\ plan' = plan /\ tensors' = tensors /\ pos' = pos
      /\ observations' = observations /\ counts' = counts /\ plan_cache' = plan_cache
      /\ raised' = raised /\ refused' = refused
      /\ UNCHANGED callerVars
  BY DEF vars, stepVars, profileVars
<1>3. /\ CallerHolds'
      /\ engine' = engine /\ batch' = batch /\ caches' = caches /\ decoded' = decoded
  BY <1>1, <1>2, SameCaller
<1>4. SessionTypeOK'
  BY <1>1, <1>2, <1>3 DEF SessionTypeOK
<1>5. CallHolds'
  BY <1>1, <1>2, <1>3 DEF CallHolds, SeqLen
<1>6. TensorsHold'
  <2>1. /\ Layers' = Layers /\ \A l : IoNames(l)' = IoNames(l)
        /\ \A q, l, k : KeysOf(q, l, k)' = KeysOf(q, l, k) /\ ValuesOf(q, l, k)' = ValuesOf(q, l, k)
    BY <1>3 DEF Layers, IoNames, KeysOf, ValuesOf, Prefix
  <2> QED  BY <1>1, <1>2, <1>3, <2>1 DEF TensorsHold
<1>7. PlansHold'
  <2>1. \A s : BucketId(s)' = BucketId(s)
    BY <1>3 DEF BucketId
  <2>2. \A id : PlanOf(id)' = PlanOf(id)
    BY <1>3 DEF PlanOf, Table
  <2>3. CallBucketId' = CallBucketId
    BY <1>2, <2>1 DEF CallBucketId, BucketId
  <2> QED  BY <1>1, <1>2, <2>1, <2>2, <2>3 DEF PlansHold
<1>8. ProfileHolds'
  <2>1. Decoded' = Decoded
    BY <1>3 DEF Decoded
  <2> QED  BY <1>1, <1>2, <2>1 DEF ProfileHolds
<1> QED  BY <1>3, <1>4, <1>5, <1>6, <1>7, <1>8 DEF IInv

LEMMA Invariance == Spec => []IInv
<1>1. IInv /\ [Next]_vars => IInv'
  <2> SUFFICES ASSUME IInv, [Next]_vars PROVE IInv'
    OBVIOUS
  <2>1. ASSUME NEW r \in Request, RefuseStep(r) PROVE IInv'
    BY <2>1, RefuseStepKeeps
  <2>2. ASSUME NEW r \in Request, NEW given \in 1..engine.num_layers, CallStep(r, given) PROVE IInv'
    BY <2>2, CallStepKeeps
  <2>3. ASSUME ReusePlan \/ BuildPlan PROVE IInv'
    BY <2>3, PlanningKeeps
  <2>4. ASSUME MissCaches \/ RaiseInStep PROVE IInv'
    BY <2>4, GivingUpKeeps
  <2>5. CASE BindCaches
    BY <2>5, BindCachesKeeps
  <2>6. CASE ExecuteCacheOp
    BY <2>6, ExecuteCacheOpKeeps
  <2>7. CASE Return
    BY <2>7, ReturnKeeps
  <2>8. CASE UNCHANGED vars
    BY <2>8, StutterKeeps
  <2>9. Terminated => UNCHANGED vars
    BY DEF Terminated
  <2> QED  BY <2>1, <2>2, <2>3, <2>4, <2>5, <2>6, <2>7, <2>8, <2>9 DEF Next
<1> QED  BY <1>1, InitHolds, PTL DEF Spec
----------------------------------------------------------------------------
(***************************************************************************)
(* What the invariant says of a session.                                   *)
(***************************************************************************)

\* A bucket bears its id, and its ends are boundaries or none.
LEMMA BucketOfId ==
    ASSUME NEW e \in Engines, NEW id \in DOMAIN BuildBucketTable(e.seq_boundaries, e.batch_boundaries)
    PROVE  LET bucket == BuildBucketTable(e.seq_boundaries, e.batch_boundaries)[id] IN
           /\ bucket.bucket_id = id
           /\ bucket.seq_hi \in Nat \cup {-1}
           /\ bucket.batch_hi \in Nat \cup {-1}
<1> DEFINE sb == e.seq_boundaries
           bb == e.batch_boundaries
           rows == Len(sb) + 1
           cols == Len(bb) + 1
<1>1. /\ sb \in Seq(Nat) /\ Len(sb) \in Nat /\ DOMAIN sb = 1..Len(sb)
      /\ bb \in Seq(Nat) /\ Len(bb) \in Nat /\ DOMAIN bb = 1..Len(bb)
  BY NativeProperties, BoundariesProperties
<1>2. rows \in Nat \ {0} /\ cols \in Nat \ {0}
  BY <1>1
<1>3. id \in 0..(rows * cols - 1)
  BY DEF BuildBucketTable, NumBuckets
<1> DEFINE row == id \div cols
           col == id % cols
<1>4. row \in 0..Len(sb) /\ col \in 0..Len(bb) /\ id = row * cols + col
  <2> HIDE DEF rows, cols
  <2>1. row \in 0..(rows - 1) /\ col \in 0..(cols - 1) /\ id = row * cols + col
    BY <1>2, <1>3, RowAndColumn
  <2>2. rows - 1 = Len(sb) /\ cols - 1 = Len(bb)
    BY <1>1 DEF rows, cols
  <2> QED  BY <2>1, <2>2
<1> HIDE DEF row, col
<1>5. BuildBucketTable(sb, bb)[row * (Len(bb) + 1) + col]
         = [bucket_id |-> row * (Len(bb) + 1) + col,
            seq_lo |-> Edges(sb)[row + 1], seq_hi |-> Edges(sb)[row + 2],
            batch_lo |-> Edges(bb)[col + 1], batch_hi |-> Edges(bb)[col + 2]]
  <2>1. Len(sb) \in Nat /\ Len(bb) \in Nat /\ row \in 0..Len(sb) /\ col \in 0..Len(bb)
    BY <1>1, <1>4
  <2> HIDE DEF sb, bb
  <2> QED  BY <2>1, TableEntry
<1>6. ASSUME NEW bs \in Seq(Nat), Len(bs) \in Nat, DOMAIN bs = 1..Len(bs), NEW k \in 0..Len(bs)
      PROVE  Edges(bs)[k + 2] \in Nat \cup {-1}
  <2>1. CASE k = Len(bs)
    BY <2>1, EdgesProperties
  <2>2. CASE k # Len(bs)
    <3>1. k + 1 \in 1..Len(bs) /\ k + 2 = (k + 1) + 1
      <4>1. k \in Nat /\ k <= Len(bs) /\ Len(bs) \in Nat
        BY <1>6
      <4> QED  BY <2>2, <4>1
    <3>2. bs[k + 1] \in Nat
      BY <1>6, <3>1, ElementOfSeq
    <3> QED  BY <3>1, <3>2, EdgesProperties
  <2> QED  BY <2>1, <2>2
<1>7. Edges(sb)[row + 2] \in Nat \cup {-1} /\ Edges(bb)[col + 2] \in Nat \cup {-1}
  BY <1>1, <1>4, <1>6
<1> QED  BY <1>4, <1>5, <1>7

\* The profile and the plan cache between steps.
LEMMA ProfileMatches == IInv => ProfileMatchesPlans
<1> SUFFICES ASSUME IInv, phase = "idle"
             PROVE  /\ DOMAIN plan_cache = {BucketId(s) : s \in Range(observations)}
                    /\ \A id \in DOMAIN plan_cache : plan_cache[id].bucket.bucket_id = id
                    /\ counts = [s \in Range(observations) |->
                                    Cardinality({n \in DOMAIN observations : observations[n] = s})]
                    /\ Len(observations) = Cardinality(Decoded) + raised - refused
  BY DEF ProfileMatchesPlans
<1>1. SessionTypeOK /\ CallerHolds /\ PlansHold /\ ProfileHolds
  BY DEF IInv
<1>2. DOMAIN plan_cache = {BucketId(s) : s \in Range(observations)}
  BY <1>1 DEF PlansHold
<1>3. ASSUME NEW id \in DOMAIN plan_cache
      PROVE  plan_cache[id].bucket.bucket_id = id
  <2>1. PICK s \in Range(observations) : id = BucketId(s)
    BY <1>2
  <2>2. s \in Nat \X Nat
    <3>1. PICK n \in DOMAIN observations : s = observations[n]
      BY DEF Range
    <3>2. n \in 1..Len(observations)
      BY <1>1, LenProperties DEF ProfileHolds
    <3> QED  BY <1>1, <3>1, <3>2, ElementOfSeq DEF ProfileHolds
  <2>3. engine \in Engines /\ s[1] \in Int /\ s[2] \in Int
    BY <1>1, <2>2 DEF CallerHolds
  <2>4. id \in DOMAIN Table
    BY <2>1, <2>3, NativeProperties DEF BucketId, Table
  <2>5. Table[id].bucket_id = id
    BY <2>3, <2>4, BucketOfId DEF Table
  <2>6. plan_cache[id].bucket = Table[id]
    <3>1. plan_cache[id] = PlanOf(id)
      BY <1>1 DEF PlansHold
    <3>2. PlanOf(id).bucket = Table[id]
      BY DEF PlanOf, Specialized
    <3> QED  BY <3>1, <3>2
  <2> QED  BY <2>5, <2>6
<1>4. Len(observations) = Cardinality(Decoded) + raised - refused
  <2>1. Len(observations) = Cardinality(Decoded) + raised - refused + 0
    BY <1>1 DEF ProfileHolds
  <2>2. Cardinality(Decoded) \in Nat
    BY <1>1, DecodedIsFinite DEF CallerHolds
  <2>3. raised \in Int /\ refused \in Int
    BY <1>1, BoundsAssumption DEF SessionTypeOK
  <2> QED  BY <2>1, <2>2, <2>3
<1> QED  BY <1>1, <1>2, <1>3, <1>4, Zenon DEF ProfileHolds, TimesIn

\* A plan's entry for an op is that of its kind or of a later op of its name.
LEMMA EntryOfOp ==
    ASSUME NEW graph, graph.ops \in Seq(Range(graph.ops)), NEW bucket, NEW k \in DOMAIN graph.ops
    PROVE  /\ \E kind : Specialized(graph, bucket).variants[graph.ops[k].name]
                            = VariantFor(kind, bucket)
           /\ \/ Specialized(graph, bucket).variants[graph.ops[k].name]
                    = VariantFor(VariantKind(graph.ops[k]), bucket)
              \/ \E j \in (k + 1)..Len(graph.ops) : graph.ops[j].name = graph.ops[k].name
<1> DEFINE ops == graph.ops
           name == ops[k].name
           last(j) == /\ ops[j].name = name
                      /\ \A i \in DOMAIN ops : ops[i].name = name => i <= j
           chosen == CHOOSE j \in DOMAIN ops : last(j)
           entry == Specialized(graph, bucket).variants[name]
<1>1. entry = VariantFor(VariantKind(ops[chosen]), bucket)
  BY DEF Specialized
<1>2. DOMAIN ops = 1..Len(ops) /\ Len(ops) \in Nat
  BY LenProperties
<1>3. ASSUME ~ \E j \in (k + 1)..Len(ops) : ops[j].name = name
      PROVE  chosen = k
  <2>1. \A i \in DOMAIN ops : ops[i].name = name => i <= k
    <3> SUFFICES ASSUME NEW i \in DOMAIN ops, ops[i].name = name, ~ (i <= k) PROVE FALSE
      OBVIOUS
    <3>1. i \in (k + 1)..Len(ops)
      BY <1>2
    <3> QED  BY <1>3, <3>1
  <2>2. k \in DOMAIN ops /\ last(k)
    BY <2>1
  <2>3. ASSUME NEW j \in DOMAIN ops, last(j)
        PROVE  j = k
    <3>1. j <= k /\ k <= j
      BY <2>1, <2>3, SMTT(30)
    <3> QED  BY <1>2, <3>1
  <2> HIDE DEF last
  <2> QED  BY <2>2, <2>3
<1> HIDE DEF chosen, entry
<1> QED  BY <1>1, <1>3 DEF entry

LEMMA PlanFits == IInv => PlanFitsShape
<1> SUFFICES ASSUME IInv, phase \in {"bind", "execute"}, EngineIsSorted,
                    Fits(call.seq_len), Fits(call.batch)
             PROVE  LET ops == engine.graph.ops
                        Variant(k) == plan.variants[ops[k].name]
                    IN /\ BucketContains(plan.bucket, call.seq_len, call.batch)
                       /\ \A k \in DOMAIN ops :
                             /\ Variant(k).name = "vector" => call.seq_len < 128
                             /\ Variant(k) = KernelVariant("tiled", 64) => call.seq_len < 1024
                             /\ Variant(k).name = "single_block" => call.batch < 8
                             /\ \/ Variant(k) = VariantFor(VariantKind(ops[k]), plan.bucket)
                                \/ \E j \in (k + 1)..Len(ops) : ops[j].name = ops[k].name
  BY DEF PlanFitsShape
<1> DEFINE s == call.seq_len
           b == call.batch
           id == CallBucketId
           bucket == Table[id]
           ops == engine.graph.ops
           Variant(k) == plan.variants[ops[k].name]
<1>1. CallerHolds /\ CallHolds /\ PlansHold
  BY DEF IInv
<1>2. engine \in Engines /\ ops \in Seq(Range(ops))
  BY <1>1, EnginesAssumption DEF CallerHolds
<1>3. s \in Nat /\ b \in Nat
  BY <1>1, CallerProperties DEF CallHolds
<1>4. id \in DOMAIN Table /\ BucketContains(bucket, s, b)
  <2>1. id = NativeClassify(s, b, engine.seq_boundaries, engine.batch_boundaries)
    BY DEF CallBucketId, BucketId
  <2> HIDE DEF s, b, id
  <2> QED  BY <1>2, <1>3, <2>1, NativeContains DEF Table, EngineIsSorted, s, b
<1>5. plan = Specialized(engine.graph, bucket)
  BY <1>1 DEF PlansHold, PlanOf
<1>6. plan.bucket = bucket
  BY <1>5 DEF Specialized
<1>7. bucket.seq_hi \in Nat \cup {-1} /\ bucket.batch_hi \in Nat \cup {-1}
  BY <1>2, <1>4, BucketOfId DEF Table
<1>8. /\ Below(bucket.seq_hi, 128) => s < 128
      /\ Below(bucket.seq_hi, 1024) => s < 1024
      /\ Below(bucket.batch_hi, 8) => b < 8
  <2> HIDE DEF bucket, s, b
  <2> QED  BY <1>3, <1>4, <1>7 DEF BucketContains, InRange, Below
<1> HIDE DEF s, b, id, bucket, ops
<1>9. ASSUME NEW k \in DOMAIN ops
      PROVE  /\ Variant(k).name = "vector" => s < 128
             /\ Variant(k) = KernelVariant("tiled", 64) => s < 1024
             /\ Variant(k).name = "single_block" => b < 8
             /\ \/ Variant(k) = VariantFor(VariantKind(ops[k]), bucket)
                \/ \E j \in (k + 1)..Len(ops) : ops[j].name = ops[k].name
  <2> DEFINE entry == Variant(k)
  <2>1. /\ \E kind : entry = VariantFor(kind, bucket)
        /\ \/ entry = VariantFor(VariantKind(ops[k]), bucket)
           \/ \E j \in (k + 1)..Len(ops) : ops[j].name = ops[k].name
    <3>1. /\ engine.graph.ops \in Seq(Range(engine.graph.ops)) /\ k \in DOMAIN engine.graph.ops
          /\ entry = Specialized(engine.graph, bucket).variants[engine.graph.ops[k].name]
      BY <1>2, <1>5, <1>9 DEF ops
    <3>2. /\ \E kind : Specialized(engine.graph, bucket).variants[engine.graph.ops[k].name]
                           = VariantFor(kind, bucket)
          /\ \/ Specialized(engine.graph, bucket).variants[engine.graph.ops[k].name]
                   = VariantFor(VariantKind(engine.graph.ops[k]), bucket)
             \/ \E j \in (k + 1)..Len(engine.graph.ops) :
                   engine.graph.ops[j].name = engine.graph.ops[k].name
      <4> HIDE DEF entry
      <4> QED  BY <3>1, EntryOfOp
    <3> HIDE DEF entry
    <3> QED  BY <3>1, <3>2, Zenon DEF ops
  <2>2. PICK kind : entry = VariantFor(kind, bucket)
    BY <2>1
  <2> HIDE DEF entry
  <2>3. entry.name = "vector" => s < 128
    BY <1>8, <2>2 DEF VariantFor, KernelVariant
  <2>4. entry = KernelVariant("tiled", 64) => s < 1024
    BY <1>8, <2>2 DEF VariantFor, KernelVariant
  <2>5. entry.name = "single_block" => b < 8
    BY <1>8, <2>2 DEF VariantFor, KernelVariant
  <2> QED  BY <2>1, <2>3, <2>4, <2>5 DEF entry
<1> QED  BY <1>4, <1>6, <1>9, SMTT(30) DEF s, b, ops

LEMMA KeysRotated == IInv => KeysRotatedInPlace
<1> SUFFICES ASSUME IInv, NEW r \in Request, NEW l \in Layers, NEW j \in DOMAIN caches[r].k[l].added
             PROVE  caches[r].k[l].added[j].position - (caches[r].k[l].prefix + j - 1)
                       = caches[r].k[0].prefix - caches[r].k[l].prefix
  BY DEF KeysRotatedInPlace
<1> DEFINE first == caches[r].k[0].prefix
           prefix == caches[r].k[l].prefix
           n == decoded[r]
<1>1. CallerHolds
  BY DEF IInv
<1>2. first \in Nat /\ prefix \in Nat /\ n \in Nat
  BY <1>1, CallerProperties DEF CallerHolds
<1>3. caches[r].k[l].added = KeyEntries(first, r, Prefix(l), n)
  <2>1. caches[r].k[l] = KeysOf(r, l, decoded[r])
    BY <1>1 DEF CallerHolds
  <2>2. KeysOf(r, l, n).added = KeyEntries(first, r, Prefix(l), n)
    BY DEF KeysOf
  <2> QED  BY <2>1, <2>2
<1>4. j \in 1..n /\ caches[r].k[l].added[j].position = first + j - 1
  BY <1>3 DEF KeyEntries
<1> HIDE DEF first, prefix, n
<1>5. (first + j - 1) - (prefix + j - 1) = first - prefix
  BY <1>2, <1>4
<1> QED  BY <1>4, <1>5 DEF first, prefix

\* A session is well-typed: a step's local state, its arguments, plan and
\* tensors, is there while it runs and gone once it has returned or raised.
THEOREM SessionTypeCorrect == Spec => []SessionTypeOK
<1>1. IInv => SessionTypeOK
  BY DEF IInv
<1> QED  BY <1>1, Invariance, PTL

\* For any number of steps, of requests and of failures: between steps the
\* plan cache holds, for exactly the buckets of the shapes profiled, the plan
\* of that bucket, and the profile has every call that found a cache, once.
THEOREM ProfileStaysInStep == Spec => []ProfileMatchesPlans
  BY Invariance, ProfileMatches, PTL

\* The plan a step goes by, from whichever earlier step, fits its shape.
THEOREM PlanAlwaysFits == Spec => []PlanFitsShape
  BY Invariance, PlanFits, PTL

\* A key lies where it was rotated to, or as far from it as its layer's cache
\* was longer or shorter than the first layer's when the session began.
THEOREM KeysStayRotated == Spec => []KeysRotatedInPlace
  BY Invariance, KeysRotated, PTL
----------------------------------------------------------------------------
(***************************************************************************)
(* The session does what Decoding promises.                                *)
(***************************************************************************)

\* The first n tokens of r, and the context of every request as it is when
\* the caches hold those decoded.
Tokens(r, n) == [j \in 1..n |-> <<r, j>>]
Held == [r \in Request |-> Tokens(r, decoded[r])]

LEMMA TokensGrow ==
    ASSUME NEW r, NEW n \in Nat
    PROVE  /\ Len(Tokens(r, n)) = n
           /\ Append(Tokens(r, n), <<r, n + 1>>) = Tokens(r, n + 1)
<1> DEFINE longer == Tokens(r, n + 1)
           short == Tokens(r, n)
<1>1. n + 1 \in 1..(n + 1) /\ \A j \in 1..n : j \in 1..(n + 1)
  OBVIOUS
<1>2. /\ DOMAIN longer = 1..(n + 1) /\ longer = [j \in 1..(n + 1) |-> longer[j]]
      /\ longer[n + 1] = <<r, n + 1>>
      /\ short = [j \in 1..n |-> longer[j]]
  BY <1>1 DEF Tokens
<1> HIDE DEF longer, short
<1>3. Len(short) = n /\ Append(short, longer[n + 1]) = longer
  BY <1>2, NextEntry
<1> QED  BY <1>2, <1>3 DEF longer, short

\* All layers of a request agree on the tokens decoded.
LEMMA ContextIsHeld == IInv => Context = Held
<1> SUFFICES ASSUME IInv PROVE Context = Held
  OBVIOUS
<1>1. CallerHolds
  BY SMTT(30) DEF IInv
<1>2. ASSUME NEW r \in Request
      PROVE  Consistent(r) /\ TokensIn(caches[r].k[0]) = Tokens(r, decoded[r])
  <2> DEFINE n == decoded[r]
             first == caches[r].k[0].prefix
  <2>1. \A f, p : /\ DOMAIN KeyEntries(f, r, p, n) = 1..n
                  /\ \A j \in 1..n : /\ KeyEntries(f, r, p, n)[j].token = <<r, j>>
                                     /\ KeyEntries(f, r, p, n)[j].of = <<"k_rot", p>>
    BY DEF KeyEntries
  <2>2. \A p : /\ DOMAIN ValueEntries(r, p, n) = 1..n
               /\ \A j \in 1..n : /\ ValueEntries(r, p, n)[j].token = <<r, j>>
                                  /\ ValueEntries(r, p, n)[j].of = <<"v_new", p>>
    BY DEF ValueEntries
  <2>3. ASSUME NEW l \in Layers
        PROVE  /\ caches[r].k[l].added = KeyEntries(first, r, Prefix(l), n)
               /\ caches[r].v[l].added = ValueEntries(r, Prefix(l), n)
    <3>1. caches[r].k[l] = KeysOf(r, l, n) /\ caches[r].v[l] = ValuesOf(r, l, n)
      BY <1>1 DEF CallerHolds
    <3>2. /\ KeysOf(r, l, n).added = KeyEntries(first, r, Prefix(l), n)
          /\ ValuesOf(r, l, n).added = ValueEntries(r, Prefix(l), n)
      BY DEF KeysOf, ValuesOf
    <3> QED  BY <3>1, <3>2
  <2> HIDE DEF n, first
  <2>4. ASSUME NEW l \in Layers
        PROVE  /\ TokensIn(caches[r].k[l]) = Tokens(r, n)
               /\ TokensIn(caches[r].v[l]) = Tokens(r, n)
               /\ \A j \in DOMAIN caches[r].k[l].added :
                     caches[r].k[l].added[j].of = <<"k_rot", Prefix(l)>>
               /\ \A j \in DOMAIN caches[r].v[l].added :
                     caches[r].v[l].added[j].of = <<"v_new", Prefix(l)>>
    <3> DEFINE ke == caches[r].k[l].added
               ve == caches[r].v[l].added
    <3>1. /\ DOMAIN ke = 1..n
          /\ \A j \in 1..n : ke[j].token = <<r, j>> /\ ke[j].of = <<"k_rot", Prefix(l)>>
      <4> DEFINE p == Prefix(l)
                 made == KeyEntries(first, r, p, n)
      <4>1. ke = made
        BY <2>3
      <4>2. /\ DOMAIN made = 1..n
            /\ \A j \in 1..n : made[j].token = <<r, j>> /\ made[j].of = <<"k_rot", p>>
        <5> HIDE DEF p
        <5> QED  BY <2>1
      <4> HIDE DEF ke, made
      <4> QED  BY <4>1, <4>2
    <3>2. /\ DOMAIN ve = 1..n
          /\ \A j \in 1..n : ve[j].token = <<r, j>> /\ ve[j].of = <<"v_new", Prefix(l)>>
      BY <2>2, <2>3, Zenon
    <3>3. /\ TokensIn(caches[r].k[l]) = [j \in DOMAIN ke |-> ke[j].token]
          /\ TokensIn(caches[r].v[l]) = [j \in DOMAIN ve |-> ve[j].token]
      BY DEF TokensIn
    <3> HIDE DEF ke, ve
    <3> QED  BY <3>1, <3>2, <3>3, Zenon DEF Tokens, ke, ve
  <2>5. 0 \in Layers
    BY <1>1, CallerProperties
  <2> QED  BY <2>4, <2>5 DEF Consistent, Prefix, n
<1> QED  BY <1>2 DEF Context, Held

\* Only a step that returns changes what has been decoded, and it adds the
\* next token of one request.
LEMMA StepDecodes ==
    ASSUME IInv, [Next]_vars, Context = Held, Context' = Held'
    PROVE  [Promise!Next]_Context
<1>1. \A r \in Request : decoded[r] \in Nat /\ decoded[r] \in 0..MaxTokens
  BY CallerProperties DEF IInv
<1>2. CASE Return
  <2> DEFINE r == call.request
  <2>1. /\ decoded' = [decoded EXCEPT ![r] = @ + 1]
        /\ r \in Request /\ decoded[r] < MaxTokens
    BY <1>2, Returned
  <2>2. decoded \in [Request -> 0..MaxTokens]
    BY DEF IInv, CallerHolds
  <2> HIDE DEF r
  <2>3. decoded'[r] = decoded[r] + 1 /\ \A q \in Request : q # r => decoded'[q] = decoded[q]
    BY <2>1, <2>2
  <2>4. /\ Len(Tokens(r, decoded[r])) = decoded[r]
        /\ Append(Tokens(r, decoded[r]), <<r, decoded[r] + 1>>) = Tokens(r, decoded[r] + 1)
    BY <1>1, <2>1, TokensGrow
  <2>5. Held[r] = Tokens(r, decoded[r]) /\ Len(Held[r]) = decoded[r]
    BY <2>1, <2>4 DEF Held
  <2>6. Held' = [Held EXCEPT ![r] = Append(Held[r], <<r, Len(Held[r]) + 1>>)]
    <3>1. \A q \in Request : Tokens(q, decoded'[q])
                                = IF q = r THEN Append(Held[r], <<r, Len(Held[r]) + 1>>) ELSE Held[q]
      <4>1. ASSUME NEW q \in Request, q # r PROVE Tokens(q, decoded'[q]) = Held[q]
        BY <2>3, <4>1 DEF Held
      <4>2. Tokens(r, decoded'[r]) = Append(Held[r], <<r, Len(Held[r]) + 1>>)
        BY <2>3, <2>4, <2>5, Zenon
      <4> HIDE DEF Held
      <4> QED  BY <4>1, <4>2
    <3>2. Held' = [q \in Request |-> Tokens(q, decoded'[q])] /\ DOMAIN Held = Request
      BY DEF Held
    <3> QED  BY <3>1, <3>2
  <2>7. Promise!Decode(r)
    BY <2>1, <2>5, <2>6 DEF Promise!Decode
  <2> QED  BY <2>1, <2>7 DEF Promise!Next
<1>3. CASE ~ Return
  <2>1. decoded' = decoded
    BY <1>3
    DEF Next, vars, callerVars, RefuseStep, CallStep, ReusePlan, BuildPlan, BuildAs, MissCaches,
        GiveUp, BindCaches, ExecuteCacheOp, RaiseInStep, Terminated
  <2>2. Held' = Held
    BY <2>1 DEF Held
  <2> QED  BY <2>2, SMTT(30)
<1> QED  BY <1>2, <1>3

\* Whatever raised, was refused and tried again, in whatever order the requests
\* are served, each request's caches grow by its next token, in all layers
\* alike, and by nothing else.
THEOREM SessionDecodes == Spec => Promise!Safely
<1>1. Init /\ Context = Held => Promise!Init
  <2> SUFFICES ASSUME Init, Context = Held PROVE Promise!Init
    OBVIOUS
  <2>1. \A r \in Request : decoded[r] = 0
    BY DEF Init
  <2>2. \A r : Tokens(r, 0) = <<>>
    BY DEF Tokens
  <2>3. Held = [r \in Request |-> <<>>]
    BY <2>1, <2>2 DEF Held
  <2> QED  BY <2>3 DEF Promise!Init
<1>2. IInv /\ Context = Held /\ (Context = Held)' /\ [Next]_vars => [Promise!Next]_Context
  BY StepDecodes
<1>3. Spec => [](Context = Held)
  BY Invariance, ContextIsHeld, PTL
<1> QED  BY <1>1, <1>2, <1>3, Invariance, PTL DEF Spec, Promise!Safely
=============================================================================

---------------------------- MODULE FusionProofs ----------------------------
(***************************************************************************)
(* What the greedy pass guarantees for every set of base graphs and every  *)
(* list of patterns, and then what executing its result computes.  First,  *)
(* facts about the operators of Fusion: what _make_fused_op's lists of     *)
(* inputs and outputs hold, and what a match of a pattern guarantees.      *)
(***************************************************************************)
EXTENDS FusedExecution, CostOptimalFusion, GraphLemmas

\* The positions of a finite set that come before p.
Rank(P, p) == Cardinality({q \in P : Before(q, p)})

\* The lexicographic order numbers the positions of a finite set: the ranks
\* are below the set's size, and no two positions share one.
LEMMA RankIsInjective ==
    ASSUME NEW P, IsFiniteSet(P), P \subseteq Int \X Int
    PROVE  /\ Cardinality(P) \in Nat
           /\ \A p \in P : Rank(P, p) \in 0..(Cardinality(P) - 1)
           /\ \A p, q \in P : Before(p, q) => Rank(P, p) < Rank(P, q)
           /\ \A p, q \in P : Rank(P, p) = Rank(P, q) => p = q
           /\ \A m \in 0..(Cardinality(P) - 1) : \E p \in P : Rank(P, p) = m
<1>1. \A p \in P : ~ Before(p, p)
  BY DEF Before
<1>2. ASSUME NEW p \in P, NEW q \in P
      PROVE  p # q => Before(p, q) \/ Before(q, p)
  <2>1. PICK a \in Int, b \in Int : p = <<a, b>>
    OBVIOUS
  <2>2. PICK c \in Int, d \in Int : q = <<c, d>>
    OBVIOUS
  <2> QED  BY <2>1, <2>2 DEF Before
<1>3. ASSUME NEW p \in P, NEW q \in P, NEW x \in P, Before(x, p), Before(p, q)
      PROVE  Before(x, q)
  <2>1. p[1] \in Int /\ p[2] \in Int /\ q[1] \in Int /\ q[2] \in Int /\ x[1] \in Int /\ x[2] \in Int
    OBVIOUS
  <2> QED  BY <1>3, <2>1 DEF Before
<1> DEFINE below == [p \in P |-> {q \in P : Before(q, p)}]
<1>4. /\ below \in [P -> SUBSET P]
      /\ \A p \in P : p \notin below[p]
      /\ \A p, q \in P : p \in below[q] => below[p] \subseteq below[q]
      /\ \A p, q \in P : p = q \/ p \in below[q] \/ q \in below[p]
  BY <1>1, <1>2, <1>3
<1>5. \A p \in P : Rank(P, p) = Cardinality(below[p])
  BY DEF Rank
<1>6. \A p, q \in P : Before(p, q) <=> p \in below[q]
  OBVIOUS
<1> HIDE DEF below
<1>7. /\ Cardinality(P) \in Nat
      /\ \A p \in P : Cardinality(below[p]) \in 0..(Cardinality(P) - 1)
      /\ \A p, q \in P : p \in below[q] => Cardinality(below[p]) < Cardinality(below[q])
      /\ \A p, q \in P : Cardinality(below[p]) = Cardinality(below[q]) => p = q
      /\ \A m \in 0..(Cardinality(P) - 1) : \E p \in P : Cardinality(below[p]) = m
  BY <1>4, RanksEnumerate
<1> QED  BY <1>5, <1>6, <1>7

\* Hence Nth enumerates the set: the k-th position exists for every k up to
\* its size, and every position is the k-th for some k.
LEMMA NthEnumerates ==
    ASSUME NEW P, IsFiniteSet(P), P \subseteq Int \X Int
    PROVE  /\ Cardinality(P) \in Nat
           /\ \A k \in 1..Cardinality(P) : Nth(P, k) \in P /\ Rank(P, Nth(P, k)) = k - 1
           /\ \A p \in P : \E k \in 1..Cardinality(P) : p = Nth(P, k)
<1> DEFINE n == Cardinality(P)
<1>1. n \in Nat
  BY RankIsInjective
<1>2. ASSUME NEW k \in 1..n
      PROVE  Nth(P, k) \in P /\ Rank(P, Nth(P, k)) = k - 1
  <2>1. k - 1 \in 0..(n - 1)
    BY <1>1
  <2>2. PICK p \in P : Rank(P, p) = k - 1
    BY <2>1, RankIsInjective
  <2> QED  BY <2>2 DEF Nth, Rank
<1>3. ASSUME NEW p \in P
      PROVE  \E k \in 1..n : p = Nth(P, k)
  <2>1. Rank(P, p) + 1 \in 1..n
    BY <1>1, RankIsInjective
  <2>2. /\ Nth(P, Rank(P, p) + 1) \in P
        /\ Rank(P, Nth(P, Rank(P, p) + 1)) = Rank(P, p)
    BY <1>2, <2>1, RankIsInjective
  <2> QED  BY <2>1, <2>2, RankIsInjective
<1> QED  BY <1>1, <1>2, <1>3

\* DistinctInOrder lists the values of a finite function, each exactly once.
LEMMA DistinctInOrderProperties ==
    ASSUME NEW S, NEW D, IsFiniteSet(D), D \subseteq Int \X Int, NEW f \in [D -> S]
    PROVE  /\ DistinctInOrder(f) \in Seq(S)
           /\ Range(DistinctInOrder(f)) = Range(f)
           /\ \A j, k \in DOMAIN DistinctInOrder(f) :
                 DistinctInOrder(f)[j] = DistinctInOrder(f)[k] => j = k
<1> DEFINE F == FirstMentions(f)
           n == Cardinality(F)
           d == DistinctInOrder(f)
<1>1. F \in SUBSET D /\ DOMAIN f = D
  BY DEF FirstMentions
<1>2. IsFiniteSet(F) /\ F \subseteq Int \X Int
  BY <1>1, FS_Subset
<1>3. /\ n \in Nat
      /\ \A k \in 1..n : Nth(F, k) \in F /\ Rank(F, Nth(F, k)) = k - 1
      /\ \A p \in F : \E k \in 1..n : p = Nth(F, k)
  BY <1>2, NthEnumerates
<1>4. d = [k \in 1..n |-> f[Nth(F, k)]]
  BY DEF DistinctInOrder
<1>5. d \in [1..n -> S] /\ DOMAIN d = 1..n
  BY <1>1, <1>3, <1>4
<1>6. d \in Seq(S)
  BY <1>3, <1>5, SeqDef, SMTT(30)
<1>7. Range(d) \subseteq Range(f)
  BY <1>1, <1>3, <1>4, <1>5 DEF Range
<1>8. ASSUME NEW p \in D
      PROVE  f[p] \in Range(d)
  <2> DEFINE Q == {q \in D : f[q] = f[p]}
  <2>1. Q \in SUBSET D /\ p \in Q
    OBVIOUS
  <2>2. IsFiniteSet(Q) /\ Q \subseteq Int \X Int
    BY <2>1, FS_Subset
  <2>3. Cardinality(Q) \in Nat /\ Cardinality(Q) # 0
    BY <2>1, <2>2, FS_CardinalityType, FS_EmptySet
  <2>4. Nth(Q, 1) \in Q /\ Rank(Q, Nth(Q, 1)) = 0
    <3>1. 1 \in 1..Cardinality(Q)
      BY <2>3
    <3> QED  BY <2>2, <3>1, NthEnumerates
  <2> DEFINE m == Nth(Q, 1)
             B == {q \in Q : Before(q, m)}
  <2>5. B = {}
    <3>1. IsFiniteSet(B)
      BY <2>2, FS_Subset
    <3>2. Cardinality(B) = 0
      BY <2>4 DEF Rank
    <3> QED  BY <3>1, <3>2, FS_EmptySet
  <2>6. m \in F
    BY <1>1, <2>4, <2>5 DEF FirstMentions
  <2>7. PICK k \in 1..n : m = Nth(F, k)
    BY <1>3, <2>6
  <2>8. d[k] = f[p]
    BY <1>4, <2>4, <2>7
  <2> QED  BY <1>5, <2>8 DEF Range
<1>9. ASSUME NEW j \in 1..n, NEW k \in 1..n, d[j] = d[k]
      PROVE  j = k
  <2>1. Nth(F, j) \in F /\ Nth(F, k) \in F /\ f[Nth(F, j)] = f[Nth(F, k)]
    BY <1>3, <1>4, <1>9
  <2>2. Nth(F, j) = Nth(F, k)
    <3>1. ~ Before(Nth(F, j), Nth(F, k)) /\ ~ Before(Nth(F, k), Nth(F, j))
      BY <1>1, <2>1 DEF FirstMentions
    <3>2. \A p, q \in Int \X Int : p = q \/ Before(p, q) \/ Before(q, p)
      BY DEF Before
    <3> QED  BY <1>2, <2>1, <3>1, <3>2
  <2>3. Rank(F, Nth(F, j)) = j - 1 /\ Rank(F, Nth(F, k)) = k - 1
    BY <1>3
  <2> QED  BY <2>2, <2>3
<1>10. Range(f) \subseteq Range(d)
  BY <1>1, <1>8 DEF Range
<1> QED  BY <1>5, <1>6, <1>7, <1>9, <1>10

\* The positions of a window's arguments are finitely many pairs.
LEMMA MentionsAreFinite ==
    ASSUME NEW n \in Nat, NEW len \in [1..n -> Nat]
    PROVE  /\ IsFiniteSet(UNION {{k} \X (1..len[k]) : k \in 1..n})
           /\ UNION {{k} \X (1..len[k]) : k \in 1..n} \subseteq Int \X Int
<1> DEFINE row == [k \in 1..n |-> {k} \X (1..len[k])]
           Rows == {{k} \X (1..len[k]) : k \in 1..n}
<1>1. row \in Surjection(1..n, Rows)
  BY DEF Surjection
<1>2. IsFiniteSet(1..n)
  BY FS_Interval
<1>3. IsFiniteSet(Rows)
  BY <1>1, <1>2, FS_Surjection
<1>4. ASSUME NEW k \in 1..n
      PROVE  IsFiniteSet({k} \X (1..len[k]))
  <2>1. IsFiniteSet(1..len[k])
    BY FS_Interval
  <2>2. IsFiniteSet({k})
    BY FS_Singleton
  <2> QED  BY <2>1, <2>2, FS_Product
<1>5. IsFiniteSet(UNION Rows)
  BY <1>3, <1>4, FS_UNION
<1> QED  BY <1>5

\* What a window's lists of mentions are functions of, and what they mention.
LEMMA WindowMentions ==
    ASSUME NEW window \in Seq(PlainOp)
    PROVE  /\ IsFiniteSet(DOMAIN AllInputs(window))
           /\ DOMAIN AllInputs(window) \subseteq Int \X Int
           /\ AllInputs(window) \in [DOMAIN AllInputs(window) -> Tensor]
           /\ Range(AllInputs(window)) = ReadBy(window)
           /\ IsFiniteSet(DOMAIN AllOutputs(window))
           /\ DOMAIN AllOutputs(window) \subseteq Int \X Int
           /\ AllOutputs(window) \in [DOMAIN AllOutputs(window) -> Tensor]
           /\ Range(AllOutputs(window)) = WrittenBy(window)
<1> DEFINE n == Len(window)
           reads == [k \in 1..n |-> Len(window[k].inputs)]
           writes == [k \in 1..n |-> Len(window[k].outputs)]
           R == UNION {{k} \X (DOMAIN window[k].inputs) : k \in DOMAIN window}
           O == UNION {{k} \X (DOMAIN window[k].outputs) : k \in DOMAIN window}
<1>1. n \in Nat /\ DOMAIN window = 1..n
  BY LenProperties
<1>2. ASSUME NEW k \in 1..n
      PROVE  /\ window[k].inputs \in Seq(Tensor)
             /\ window[k].outputs \in Seq(Tensor)
  <2>1. window[k] \in PlainOp
    BY ElementOfSeq
  <2> QED  BY <2>1 DEF PlainOp
<1>3. ASSUME NEW k \in 1..n
      PROVE  /\ DOMAIN window[k].inputs = 1..reads[k] /\ reads[k] \in Nat
             /\ DOMAIN window[k].outputs = 1..writes[k] /\ writes[k] \in Nat
  BY <1>2, LenProperties
<1>4. reads \in [1..n -> Nat] /\ writes \in [1..n -> Nat]
  BY <1>3
<1>5. /\ R = UNION {{k} \X (1..reads[k]) : k \in 1..n}
      /\ O = UNION {{k} \X (1..writes[k]) : k \in 1..n}
  BY <1>1, <1>3
<1>6. /\ DOMAIN AllInputs(window) = R /\ DOMAIN AllOutputs(window) = O
      /\ \A p \in R : AllInputs(window)[p] = window[p[1]].inputs[p[2]]
      /\ \A p \in O : AllOutputs(window)[p] = window[p[1]].outputs[p[2]]
      /\ AllInputs(window) = [p \in R |-> window[p[1]].inputs[p[2]]]
      /\ AllOutputs(window) = [p \in O |-> window[p[1]].outputs[p[2]]]
  BY DEF AllInputs, AllOutputs
<1>7. ASSUME NEW p \in R
      PROVE  /\ p[1] \in 1..n /\ p[2] \in DOMAIN window[p[1]].inputs
             /\ window[p[1]].inputs[p[2]] \in Tensor
  BY <1>1, <1>2, <1>3
<1>8. ASSUME NEW p \in O
      PROVE  /\ p[1] \in 1..n /\ p[2] \in DOMAIN window[p[1]].outputs
             /\ window[p[1]].outputs[p[2]] \in Tensor
  BY <1>1, <1>2, <1>3, SMTT(30)
<1>9. Range(AllInputs(window)) \subseteq ReadBy(window)
  BY <1>1, <1>6, <1>7 DEF Range, ReadBy
<1>10. ReadBy(window) \subseteq Range(AllInputs(window))
  <2>1. ASSUME NEW k \in 1..n, NEW j \in DOMAIN window[k].inputs
        PROVE  window[k].inputs[j] \in Range(AllInputs(window))
    <3>1. <<k, j>> \in R
      BY <1>1
    <3>2. AllInputs(window)[<<k, j>>] = window[k].inputs[j]
      BY <1>6, <3>1, SMTT(30)
    <3> QED  BY <1>6, <3>1, <3>2 DEF Range
  <2> QED  BY <1>1, <2>1, SMTT(30) DEF Range, ReadBy
<1>11. Range(AllOutputs(window)) \subseteq WrittenBy(window)
  BY <1>1, <1>6, <1>8 DEF Range, WrittenBy
<1>12. WrittenBy(window) \subseteq Range(AllOutputs(window))
  <2>1. ASSUME NEW k \in 1..n, NEW j \in DOMAIN window[k].outputs
        PROVE  window[k].outputs[j] \in Range(AllOutputs(window))
    <3>1. <<k, j>> \in O
      BY <1>1
    <3>2. AllOutputs(window)[<<k, j>>] = window[k].outputs[j]
      BY <1>6, <3>1
    <3> QED  BY <1>6, <3>1, <3>2 DEF Range
  <2> QED  BY <1>1, <2>1, SMTT(30) DEF Range, WrittenBy
<1>13. IsFiniteSet(R) /\ R \subseteq Int \X Int /\ IsFiniteSet(O) /\ O \subseteq Int \X Int
  BY <1>1, <1>4, <1>5, MentionsAreFinite, Zenon
<1>14. AllInputs(window) \in [R -> Tensor] /\ AllOutputs(window) \in [O -> Tensor]
  BY <1>6, <1>7, <1>8
<1> QED  BY <1>6, <1>9, <1>10, <1>11, <1>12, <1>13, <1>14

\* The fused op of a window: well typed, it lists as inputs exactly what the
\* window reads and does not write, as outputs exactly what it writes, each
\* once, and remembers the window.
LEMMA MakeFusedOpProperties ==
    ASSUME NEW window \in Seq(PlainOp), NEW fused_kind \in FusedKind, NEW index \in Nat
    PROVE  LET fused == MakeFusedOp(window, fused_kind, index) IN
           /\ fused \in FusedOp
           /\ fused.name = <<fused_kind, index>>
           /\ fused.attrs.sub_ops = window
           /\ Range(fused.inputs) = ReadBy(window) \ WrittenBy(window)
           /\ Range(fused.outputs) = WrittenBy(window)
           /\ \A j, k \in DOMAIN fused.outputs :
                 fused.outputs[j] = fused.outputs[k] => j = k
<1> DEFINE reads == AllInputs(window)
           outer == {p \in DOMAIN reads : reads[p] \notin Internal(window)}
           f == [p \in outer |-> reads[p]]
           g == AllOutputs(window)
           fused == MakeFusedOp(window, fused_kind, index)
<1>1. outer \in SUBSET (DOMAIN reads)
  OBVIOUS
<1>2. IsFiniteSet(outer) /\ outer \subseteq Int \X Int
  BY <1>1, WindowMentions, FS_Subset
<1>3. f \in [outer -> Tensor]
  BY WindowMentions
<1>4. /\ DistinctInOrder(f) \in Seq(Tensor)
      /\ Range(DistinctInOrder(f)) = Range(f)
  BY <1>2, <1>3, DistinctInOrderProperties
<1>5. /\ DistinctInOrder(g) \in Seq(Tensor)
      /\ Range(DistinctInOrder(g)) = Range(g)
      /\ \A j, k \in DOMAIN DistinctInOrder(g) :
            DistinctInOrder(g)[j] = DistinctInOrder(g)[k] => j = k
  BY WindowMentions, DistinctInOrderProperties
<1>6. Range(f) = Range(reads) \ Internal(window)
  BY DEF Range
<1>7. Range(f) = ReadBy(window) \ WrittenBy(window)
  BY <1>6, WindowMentions DEF Internal
<1>8. Range(g) = WrittenBy(window)
  BY WindowMentions
<1> DEFINE ins == DistinctInOrder(f)
           outs == DistinctInOrder(g)
           attrs == [param |-> "", fused_kind |-> fused_kind, sub_ops |-> window]
<1>9. fused = [name |-> <<fused_kind, index>>, kind |-> "fused",
               inputs |-> ins, outputs |-> outs, attrs |-> attrs]
  BY DEF MakeFusedOp, MkOp, FusedName
<1>10. ins \in Seq(Tensor) /\ outs \in Seq(Tensor)
  BY <1>4, <1>5
<1>11. attrs \in [param : {""}, fused_kind : FusedKind, sub_ops : Seq(PlainOp)]
       /\ attrs.sub_ops = window
  OBVIOUS
<1>12. /\ Range(ins) = ReadBy(window) \ WrittenBy(window)
       /\ Range(outs) = WrittenBy(window)
       /\ \A j, k \in DOMAIN outs : outs[j] = outs[k] => j = k
  BY <1>4, <1>5, <1>7, <1>8
<1> HIDE DEF ins, outs, attrs, fused
<1>13. fused \in FusedOp
  BY <1>9, <1>10, <1>11 DEF FusedOp
<1>14. /\ fused.name = <<fused_kind, index>> /\ fused.attrs.sub_ops = window
       /\ fused.inputs = ins /\ fused.outputs = outs
  BY <1>9, <1>11
<1>15. /\ fused \in FusedOp
       /\ fused.name = <<fused_kind, index>>
       /\ fused.attrs.sub_ops = window
       /\ Range(fused.inputs) = ReadBy(window) \ WrittenBy(window)
       /\ Range(fused.outputs) = WrittenBy(window)
       /\ \A j, k \in DOMAIN fused.outputs :
             fused.outputs[j] = fused.outputs[k] => j = k
  BY <1>12, <1>13, <1>14
<1> QED  BY <1>15 DEF fused

\* A match of a pattern is a nonempty window of the ops.
LEMMA MatchProperties ==
    ASSUME NEW ops \in Seq(PlainOp), NEW at \in 1..Len(ops), NEW p \in Matches(ops, at)
    PROVE  LET length == Len(Patterns[p].kinds)
               window == SubSeq(ops, at, at + length - 1)
           IN /\ length \in Nat \ {0}
              /\ at + length - 1 <= Len(ops)
              /\ window \in Seq(PlainOp)
              /\ Len(window) = length
              /\ Patterns[p].fused_kind \in FusedKind
<1> DEFINE length == Len(Patterns[p].kinds)
           window == SubSeq(ops, at, at + length - 1)
<1>1. p \in DOMAIN Patterns /\ at + length - 1 <= Len(ops) /\ IsConnectedChain(window)
  BY DEF Matches
<1>2. length \in Nat
  BY <1>1, PatternsAssumption, LenProperties
<1>3. Len(ops) \in Nat
  BY LenProperties
<1>4. \A k \in at..(at + length - 1) : ops[k] \in PlainOp
  BY <1>1, <1>2, <1>3, ElementOfSeq
<1>5. window \in Seq(PlainOp) /\ Len(window) = IF at <= at + length - 1 THEN length ELSE 0
  BY <1>2, <1>4, SubSeqProperties
<1>6. Len(window) > 0
  BY <1>1 DEF IsConnectedChain
<1> QED  BY <1>1, <1>2, <1>5, <1>6 DEF FusedKind
----------------------------------------------------------------------------

\* What a scanning state tells about the op or the window at its position.
LEMMA ScanProperties ==
    ASSUME TypeOK, Scanning
    PROVE  /\ graph.ops \in Seq(PlainOp) /\ Len(graph.ops) \in Nat
           /\ i \in 1..Len(graph.ops)
           /\ graph.ops[i] \in PlainOp
<1>1. graph.ops \in Seq(PlainOp)
  BY GraphsAssumption DEF TypeOK, IsBaseGraph
<1>2. Len(graph.ops) \in Nat
  BY <1>1, LenProperties
<1>3. i \in 1..Len(graph.ops)
  BY <1>2 DEF TypeOK, Scanning
<1> QED  BY <1>1, <1>2, <1>3, ElementOfSeq

\* One iteration of the scan that fuses a window.
LEMMA FuseProperties ==
    ASSUME TypeOK, NEW p \in Matches(graph.ops, i), FuseAndJump(p, Length(p))
    PROVE  LET length == Len(Patterns[p].kinds)
               window == SubSeq(graph.ops, i, i + length - 1)
               fused == MakeFusedOp(window, Patterns[p].fused_kind, fuse_idx)
           IN /\ length \in Nat \ {0} /\ i + length - 1 <= Len(graph.ops)
              /\ window \in Seq(PlainOp) /\ Len(window) = length
              /\ Patterns[p].fused_kind \in FusedKind
              /\ fused \in FusedOp /\ fused.name = <<Patterns[p].fused_kind, fuse_idx>>
              /\ fused.kind = "fused" /\ fused.attrs.sub_ops = window
              /\ Range(fused.inputs) = ReadBy(window) \ WrittenBy(window)
              /\ Range(fused.outputs) = WrittenBy(window)
              /\ \A j, k \in DOMAIN fused.outputs :
                    fused.outputs[j] = fused.outputs[k] => j = k
              /\ new_ops' = Append(new_ops, fused) /\ i' = i + length
<1> DEFINE length == Len(Patterns[p].kinds)
           window == SubSeq(graph.ops, i, i + length - 1)
           fused == MakeFusedOp(window, Patterns[p].fused_kind, fuse_idx)
<1>1. Scanning /\ p \in Matches(graph.ops, i)
  BY DEF FuseAndJump, Window, Length
<1>2. /\ length \in Nat \ {0} /\ i + length - 1 <= Len(graph.ops)
      /\ window \in Seq(PlainOp) /\ Len(window) = length
      /\ Patterns[p].fused_kind \in FusedKind
  BY <1>1, ScanProperties, MatchProperties
<1>3. /\ fused \in FusedOp /\ fused.name = <<Patterns[p].fused_kind, fuse_idx>>
      /\ fused.attrs.sub_ops = window
      /\ Range(fused.inputs) = ReadBy(window) \ WrittenBy(window)
      /\ Range(fused.outputs) = WrittenBy(window)
      /\ \A j, k \in DOMAIN fused.outputs :
            fused.outputs[j] = fused.outputs[k] => j = k
  <2>1. fuse_idx \in Nat
    BY DEF TypeOK
  <2> HIDE DEF window
  <2> QED  BY <1>2, <2>1, MakeFusedOpProperties
<1>4. fused.kind = "fused"
  <2> HIDE DEF fused
  <2> QED  BY <1>3 DEF FusedOp
<1>5. new_ops' = Append(new_ops, fused) /\ i' = i + length
  BY DEF FuseAndJump, Window, Length
<1> QED  BY <1>2, <1>3, <1>4, <1>5, Zenon

\* The scan starts in a state of its types and every step keeps them.
LEMMA InitTyped == Init => TypeOK
<1> SUFFICES ASSUME Init PROVE TypeOK
  OBVIOUS
<1>1. graph.ops \in Seq(PlainOp)
  BY GraphsAssumption DEF Init, IsBaseGraph
<1>2. 1 \in 1..(Len(graph.ops) + 1)
  BY <1>1, LenProperties
<1>3. /\ <<>> \in Seq(PlainOp \cup FusedOp) /\ <<>> \in Seq(FusionRecord)
      /\ <<>> \in Seq(1..Len(graph.ops)) /\ Len(<<>>) = 0
  BY EmptySeq
<1> QED  BY <1>2, <1>3 DEF Init, TypeOK

LEMMA StepTyped == TypeOK /\ [ScanNext]_vars => TypeOK'
<1> SUFFICES ASSUME TypeOK, [ScanNext]_vars PROVE TypeOK'
  OBVIOUS
<1>1. CASE KeepAndCount(fuse_idx)
  <2>1. Scanning /\ new_ops' = Append(new_ops, graph.ops[i]) /\ i' = i + 1
        /\ fuse_idx' = fuse_idx /\ starts' = Append(starts, i)
        /\ graph' = graph /\ records' = records
    BY <1>1 DEF KeepAndCount
  <2>2. /\ new_ops' \in Seq(PlainOp \cup FusedOp) /\ Len(new_ops') = Len(new_ops) + 1
        /\ starts' \in Seq(1..Len(graph.ops)) /\ Len(starts') = Len(starts) + 1
    BY <2>1, ScanProperties, AppendProperties DEF TypeOK
  <2>3. i' \in 1..(Len(graph.ops) + 1)
    BY <2>1, ScanProperties
  <2> QED  BY <2>1, <2>2, <2>3 DEF TypeOK
<1>2. CASE \E p \in Matches(graph.ops, i) : FuseAndJump(p, Length(p))
  <2>1. PICK p \in Matches(graph.ops, i) : FuseAndJump(p, Length(p))
    BY <1>2
  <2> DEFINE length == Len(Patterns[p].kinds)
             window == SubSeq(graph.ops, i, i + length - 1)
             fused == MakeFusedOp(window, Patterns[p].fused_kind, fuse_idx)
             rec == [fused_op_name |-> fused.name, fused_kind |-> Patterns[p].fused_kind,
                     sub_op_names |-> [k \in DOMAIN window |-> window[k].name]]
  <2>2. /\ Scanning /\ records' = Append(records, rec) /\ fuse_idx' = fuse_idx + 1
        /\ starts' = Append(starts, i) /\ graph' = graph
    BY <2>1 DEF FuseAndJump, Window, Length
  <2>3. /\ length \in Nat \ {0} /\ i + length - 1 <= Len(graph.ops)
        /\ window \in Seq(PlainOp) /\ Patterns[p].fused_kind \in FusedKind
        /\ fused \in FusedOp /\ fused.name = <<Patterns[p].fused_kind, fuse_idx>>
        /\ new_ops' = Append(new_ops, fused) /\ i' = i + length
    BY <2>1, FuseProperties
  <2> HIDE DEF length, window, fused
  <2>4. rec \in FusionRecord
    <3>1. ASSUME NEW k \in DOMAIN window
          PROVE  window[k].name \in Name
      <4>1. window[k] \in PlainOp
        BY <2>3, LenProperties, ElementOfSeq
      <4> QED  BY <4>1 DEF PlainOp
    <3>2. DOMAIN window = 1..Len(window) /\ Len(window) \in Nat
      BY <2>3, LenProperties
    <3> DEFINE names == [k \in DOMAIN window |-> window[k].name]
    <3>3. names \in Seq(Name)
      <4>1. names \in [1..Len(window) -> Name]
        BY <3>1, <3>2
      <4> HIDE DEF names
      <4> QED  BY <3>2, <4>1, SeqDef
    <3>4. fused.name \in FusedKind \X Nat
      BY <2>3 DEF TypeOK
    <3> QED  BY <2>3, <3>3, <3>4 DEF FusionRecord
  <2>5. /\ new_ops' \in Seq(PlainOp \cup FusedOp) /\ Len(new_ops') = Len(new_ops) + 1
        /\ starts' \in Seq(1..Len(graph.ops)) /\ Len(starts') = Len(starts) + 1
        /\ records' \in Seq(FusionRecord) /\ Len(records') = Len(records) + 1
    BY <2>2, <2>3, <2>4, ScanProperties, AppendProperties DEF TypeOK
  <2>6. i' \in 1..(Len(graph.ops) + 1)
    <3>1. i \in 1..Len(graph.ops) /\ Len(graph.ops) \in Nat
      BY <2>2, ScanProperties
    <3>2. length \in Nat /\ i + length - 1 <= Len(graph.ops) /\ i' = i + length
      BY <2>3
    <3> QED  BY <3>1, <3>2
  <2> QED  BY <2>2, <2>5, <2>6 DEF TypeOK
<1>3. CASE UNCHANGED vars
  BY <1>3 DEF vars, TypeOK
<1> QED  BY <1>1, <1>2, <1>3 DEF ScanNext

LEMMA ScanTypeCorrect == ScanSpec => []TypeOK
BY InitTyped, StepTyped, PTL DEF ScanSpec

\* A step that appends an op made of the ops from i to before the next i.
LEMMA AppendedStart ==
    ASSUME TypeOK, Scanning, NEW op \in PlainOp \cup FusedOp, NEW length \in Nat \ {0},
           new_ops' = Append(new_ops, op), starts' = Append(starts, i), i' = i + length
    PROVE  LET n == Len(new_ops) IN
           /\ n \in Nat /\ Len(starts) = n /\ i \in 1..Len(graph.ops)
           /\ DOMAIN new_ops = 1..n /\ DOMAIN new_ops' = 1..(n + 1)
           /\ DOMAIN starts = 1..n /\ DOMAIN starts' = 1..(n + 1)
           /\ \A k \in 1..n : /\ new_ops'[k] = new_ops[k]
                              /\ starts'[k] = starts[k] /\ starts[k] \in 1..Len(graph.ops)
                              /\ NextStart(k)' = NextStart(k)
           /\ \A k : k = n + 1 => new_ops'[k] = op /\ starts'[k] = i /\ NextStart(k)' = i + length
<1> DEFINE n == Len(new_ops)
<1>1. /\ starts \in Seq(1..Len(graph.ops)) /\ new_ops \in Seq(PlainOp \cup FusedOp)
      /\ Len(starts) = n
  BY DEF TypeOK
<1>2. i \in 1..Len(graph.ops)
  BY ScanProperties
<1>3. n \in Nat /\ DOMAIN starts = 1..n /\ DOMAIN new_ops = 1..n
  BY <1>1, LenProperties
<1>4. \A k \in 1..n : starts[k] \in 1..Len(graph.ops)
  BY <1>1, ElementOfSeq
<1>5. /\ Len(starts') = n + 1 /\ DOMAIN starts' = 1..(n + 1)
      /\ \A k \in 1..n : starts'[k] = starts[k]
      /\ starts'[n + 1] = i
  BY <1>1, <1>2, AppendProperties, LenProperties
<1>6. /\ DOMAIN new_ops' = 1..(n + 1)
      /\ \A k \in 1..n : new_ops'[k] = new_ops[k]
      /\ new_ops'[n + 1] = op
  BY <1>1, AppendProperties, LenProperties
<1> HIDE DEF n
<1>7. ASSUME NEW k \in 1..n
      PROVE  NextStart(k)' = NextStart(k)
  <2>1. k # n + 1 /\ (k = n \/ (k # n /\ k + 1 \in 1..n))
    BY <1>3
  <2>2. NextStart(k)' = starts'[k + 1]
    BY <1>5, <2>1 DEF NextStart
  <2>3. NextStart(k) = IF k = n THEN i ELSE starts[k + 1]
    BY <1>1 DEF NextStart
  <2> QED  BY <1>5, <2>1, <2>2, <2>3
<1>8. ASSUME NEW k, k = n + 1
      PROVE  NextStart(k)' = i + length
  BY <1>5, <1>8 DEF NextStart
<1>9. /\ n \in Nat /\ Len(starts) = n /\ i \in 1..Len(graph.ops)
      /\ DOMAIN new_ops = 1..n /\ DOMAIN new_ops' = 1..(n + 1)
      /\ DOMAIN starts = 1..n /\ DOMAIN starts' = 1..(n + 1)
      /\ \A k \in 1..n : /\ new_ops'[k] = new_ops[k]
                         /\ starts'[k] = starts[k] /\ starts[k] \in 1..Len(graph.ops)
                         /\ NextStart(k)' = NextStart(k)
      /\ \A k : k = n + 1 => new_ops'[k] = op /\ starts'[k] = i /\ NextStart(k)' = i + length
  BY <1>1, <1>2, <1>3, <1>4, <1>5, <1>6, <1>7, <1>8
<1> QED  BY <1>9 DEF n

\* Fusing never loses, repeats or reorders an op, whatever the graph.
LEMMA ScanKeepsOrder == ScanSpec => []ExecutionOrderPreserved
<1>1. Init => ExecutionOrderPreserved
  BY DEF Init, ExecutionOrderPreserved
<1>2. TypeOK /\ ExecutionOrderPreserved /\ [ScanNext]_vars => ExecutionOrderPreserved'
  <2> SUFFICES ASSUME TypeOK, ExecutionOrderPreserved, [ScanNext]_vars
               PROVE  ExecutionOrderPreserved'
    OBVIOUS
  \* A step that appends one op, made of the ops from i to before the next i.
  <2>1. ASSUME NEW op, NEW length \in Nat \ {0}, Scanning,
               new_ops' = Append(new_ops, op), op \in PlainOp \cup FusedOp,
               starts' = Append(starts, i), i' = i + length, graph' = graph,
               SubOps(op) = SubSeq(graph.ops, i, i + length - 1)
        PROVE  ExecutionOrderPreserved'
    <3> DEFINE n == Len(new_ops)
    <3>1. /\ n \in Nat /\ Len(starts) = n /\ i \in 1..Len(graph.ops)
          /\ DOMAIN starts = 1..n /\ DOMAIN starts' = 1..(n + 1)
          /\ \A k \in 1..n : /\ new_ops'[k] = new_ops[k] /\ starts'[k] = starts[k]
                             /\ NextStart(k)' = NextStart(k)
          /\ \A k : k = n + 1 => new_ops'[k] = op /\ starts'[k] = i /\ NextStart(k)' = i + length
      BY <2>1, AppendedStart
    <3> HIDE DEF n
    <3>2. starts' # <<>> /\ starts'[1] = 1
      <4>1. CASE n = 0
        <5>1. starts = <<>>
          BY <3>1, <4>1, EmptySeq DEF TypeOK
        <5>2. i = 1
          BY <5>1 DEF ExecutionOrderPreserved
        <5>3. 1 = n + 1 /\ 1 \in DOMAIN starts'
          BY <3>1, <4>1
        <5>4. starts'[1] = 1
          BY <3>1, <5>2, <5>3
        <5> QED  BY <5>3, <5>4, EmptySeq
      <4>2. CASE n # 0
        <5>1. 1 \in 1..n /\ starts # <<>>
          BY <3>1, <4>2, EmptySeq
        <5> QED  BY <3>1, <5>1, EmptySeq DEF ExecutionOrderPreserved
      <4> QED  BY <4>1, <4>2
    <3>3. ASSUME NEW k \in 1..(n + 1)
          PROVE  /\ starts'[k] < NextStart(k)'
                 /\ SubOps(new_ops'[k]) = SubSeq(graph.ops, starts'[k], NextStart(k)' - 1)
      <4>1. CASE k \in 1..n
        BY <3>1, <4>1 DEF ExecutionOrderPreserved
      <4>2. CASE k = n + 1
        <5>1. NextStart(k)' = i + length /\ starts'[k] = i /\ new_ops'[k] = op
          BY <3>1, <4>2
        <5>2. i < i + length /\ (i + length) - 1 = i + length - 1
          BY <2>1, <3>1
        <5>3. SubOps(op) = SubSeq(graph.ops, i, i + length - 1)
          BY <2>1
        <5> QED  BY <5>1, <5>2, <5>3
      <4> QED  BY <3>1, <4>1, <4>2
    <3> QED  BY <2>1, <3>1, <3>2, <3>3 DEF ExecutionOrderPreserved
  <2>2. CASE KeepAndCount(fuse_idx)
    <3>1. Scanning /\ new_ops' = Append(new_ops, graph.ops[i]) /\ i' = i + 1
          /\ starts' = Append(starts, i) /\ graph' = graph
      BY <2>2 DEF KeepAndCount
    <3>2. graph.ops[i] \in PlainOp /\ graph.ops \in Seq(PlainOp) /\ i \in 1..Len(graph.ops)
      BY <3>1, ScanProperties
    <3>3. SubOps(graph.ops[i]) = <<graph.ops[i]>>
      BY <3>2, FusedIsNoKind DEF SubOps, PlainOp
    <3>4. SubSeq(graph.ops, i, i + 1 - 1) = <<graph.ops[i]>>
      <4> DEFINE one == SubSeq(graph.ops, i, i)
      <4>1. Len(graph.ops) \in Nat /\ i \in Int /\ i + 1 - 1 = i
        BY <3>2, LenProperties
      <4>2. /\ one \in Seq(PlainOp) /\ Len(one) = 1 /\ one[1] = graph.ops[i]
        BY <3>2, <4>1, SubSeqProperties
      <4>3. one = <<graph.ops[i]>>
        <5> HIDE DEF one
        <5> QED  BY <3>2, <4>2, SeqEqual
      <4> QED  BY <4>1, <4>3
    <3>5. SubOps(graph.ops[i]) = SubSeq(graph.ops, i, i + 1 - 1)
      BY <3>3, <3>4
    <3>6. 1 \in Nat \ {0} /\ graph.ops[i] \in PlainOp \cup FusedOp
      BY <3>2
    <3> QED  BY <2>1, <3>1, <3>5, <3>6
  <2>3. CASE \E p \in Matches(graph.ops, i) : FuseAndJump(p, Length(p))
    <3>1. PICK p \in Matches(graph.ops, i) : FuseAndJump(p, Length(p))
      BY <2>3
    <3> DEFINE length == Len(Patterns[p].kinds)
               window == SubSeq(graph.ops, i, i + length - 1)
               fused == MakeFusedOp(window, Patterns[p].fused_kind, fuse_idx)
    <3>2. Scanning /\ starts' = Append(starts, i) /\ graph' = graph
      BY <3>1 DEF FuseAndJump, Window, Length
    <3>3. /\ length \in Nat \ {0} /\ fused \in FusedOp
          /\ fused.kind = "fused" /\ fused.attrs.sub_ops = window
          /\ new_ops' = Append(new_ops, fused) /\ i' = i + length
      BY <3>1, FuseProperties, SMTT(30)
    <3>4. SubOps(fused) = SubSeq(graph.ops, i, i + length - 1)
      BY <3>3 DEF SubOps
    <3> HIDE DEF length, fused
    <3> QED  BY <2>1, <3>2, <3>3, <3>4
  <2>4. CASE UNCHANGED vars
    BY <2>4 DEF vars, ExecutionOrderPreserved, NextStart
  <2> QED  BY <2>2, <2>3, <2>4 DEF ScanNext
<1> QED  BY <1>1, <1>2, ScanTypeCorrect, PTL DEF ScanSpec
----------------------------------------------------------------------------
\* The base graph stays the accepted one the scan began on.
GraphAccepted == graph \in Graphs /\ Verified(graph)

LEMMA GraphStaysAccepted == ScanSpec => []GraphAccepted
<1>1. Init => GraphAccepted
  BY DEF Init, GraphAccepted
<1>2. GraphAccepted /\ [ScanNext]_vars => GraphAccepted'
  BY DEF ScanNext, KeepAndCount, FuseAndJump, vars, GraphAccepted
<1> QED  BY <1>1, <1>2, PTL DEF ScanSpec

\* What the tensors of a plain op are, as a window of its own.
LEMMA OneOpWindow ==
    ASSUME NEW op \in PlainOp
    PROVE  /\ SubOps(op) = <<op>> /\ ReadBy(<<op>>) = Range(op.inputs)
           /\ WrittenBy(<<op>>) = Range(op.outputs)
<1>1. op.kind # "fused"
  BY FusedIsNoKind DEF PlainOp
<1>2. DOMAIN <<op>> = {1} /\ <<op>>[1] = op
  OBVIOUS
<1> QED  BY <1>1, <1>2 DEF SubOps, ReadBy, WrittenBy

\* Either way to go on appends one op that stands for the window of the base
\* graph the scan moves past: it runs the window, reads what the window needs
\* and writes what the window writes, each tensor once.
StandsFor(op, window) ==
    /\ op \in PlainOp \cup FusedOp
    /\ SubOps(op) = window
    /\ Range(op.inputs) = ReadBy(window) \ WrittenBy(window)
    /\ Range(op.outputs) = WrittenBy(window)
    /\ \A j, k \in DOMAIN op.outputs : op.outputs[j] = op.outputs[k] => j = k

LEMMA StepAppends ==
    ASSUME TypeOK, GraphAccepted, ScanNext
    PROVE  \E op, j : /\ j \in 1..(Len(graph.ops) + 1) /\ i < j
                      /\ i \in 1..(Len(graph.ops) + 1)
                      /\ StandsFor(op, SubSeq(graph.ops, i, j - 1))
                      /\ new_ops' = Append(new_ops, op) /\ i' = j /\ graph' = graph
<1>1. Scanning
  BY DEF ScanNext, KeepAndCount, FuseAndJump
<1>2. /\ graph.ops \in Seq(PlainOp) /\ Len(graph.ops) \in Nat /\ i \in 1..Len(graph.ops)
      /\ graph.ops[i] \in PlainOp /\ DOMAIN graph.ops = 1..Len(graph.ops)
  BY <1>1, ScanProperties, LenProperties
<1>3. graph.ops \in Seq(Range(graph.ops))
  <2>1. graph.ops \in [1..Len(graph.ops) -> Range(graph.ops)]
    BY <1>2, LenProperties DEF Range
  <2> QED  BY <1>2, <2>1, SeqDef
<1>4. CASE KeepAndCount(fuse_idx)
  <2> DEFINE op == graph.ops[i]
  <2>1. new_ops' = Append(new_ops, op) /\ i' = i + 1 /\ graph' = graph
    BY <1>4 DEF KeepAndCount
  <2>2. SubSeq(graph.ops, i, (i + 1) - 1) = <<op>>
    <3> DEFINE one == SubSeq(graph.ops, i, i)
    <3>1. (i + 1) - 1 = i /\ i \in Int /\ i \in 1..Len(graph.ops)
      BY <1>2
    <3>2. one \in Seq(PlainOp) /\ Len(one) = 1 /\ one[1] = op
      BY <1>2, <3>1, SubSeqProperties
    <3>3. one = <<op>>
      <4> HIDE DEF one
      <4> QED  BY <1>2, <3>2, SeqEqual
    <3> QED  BY <3>1, <3>3
  <2>3. SubOps(op) = <<op>> /\ ReadBy(<<op>>) = Range(op.inputs) /\ WrittenBy(<<op>>) = Range(op.outputs)
    BY <1>2, OneOpWindow
  <2>4. Range(op.outputs) \cap Range(op.inputs) = {}
    <3>1. i \in DOMAIN graph.ops /\ i <= i /\ Verified(graph)
      BY <1>2 DEF GraphAccepted
    <3> QED  BY <1>3, <3>1, ReadersComeLater
  <2>5. \A j, k \in DOMAIN op.outputs : op.outputs[j] = op.outputs[k] => j = k
    <3>1. i \in DOMAIN graph.ops /\ Verified(graph)
      BY <1>2 DEF GraphAccepted
    <3>2. op.outputs \in Seq(Range(op.outputs))
      <4>1. op.outputs \in Seq(Tensor)
        BY <1>2 DEF PlainOp
      <4> QED  BY <4>1, OwnRange
    <3> QED  BY <3>1, <3>2, OutputsDiffer
  <2>6. StandsFor(op, SubSeq(graph.ops, i, (i + 1) - 1))
    BY <1>2, <2>2, <2>3, <2>4, <2>5 DEF StandsFor
  <2>7. i + 1 \in 1..(Len(graph.ops) + 1) /\ i < i + 1 /\ i \in 1..(Len(graph.ops) + 1)
    BY <1>2
  <2> QED  BY <2>1, <2>6, <2>7
<1>5. CASE \E p \in Matches(graph.ops, i) : FuseAndJump(p, Length(p))
  <2>1. PICK p \in Matches(graph.ops, i) : FuseAndJump(p, Length(p))
    BY <1>5
  <2> DEFINE length == Len(Patterns[p].kinds)
             window == SubSeq(graph.ops, i, i + length - 1)
             fused == MakeFusedOp(window, Patterns[p].fused_kind, fuse_idx)
  <2>2. /\ length \in Nat \ {0} /\ i + length - 1 <= Len(graph.ops)
        /\ fused \in FusedOp /\ fused.kind = "fused" /\ fused.attrs.sub_ops = window
        /\ Range(fused.inputs) = ReadBy(window) \ WrittenBy(window)
        /\ Range(fused.outputs) = WrittenBy(window)
        /\ \A j, k \in DOMAIN fused.outputs :
              fused.outputs[j] = fused.outputs[k] => j = k
        /\ new_ops' = Append(new_ops, fused) /\ i' = i + length
    BY <2>1, FuseProperties
  <2>3. graph' = graph
    BY <2>1 DEF FuseAndJump, Window, Length
  <2> HIDE DEF fused, length
  <2>4. StandsFor(fused, window)
    BY <2>2 DEF StandsFor, SubOps
  <2>5. /\ (i + length) - 1 = i + length - 1 /\ i < i + length
        /\ i + length \in 1..(Len(graph.ops) + 1) /\ i \in 1..(Len(graph.ops) + 1)
    BY <1>2, <2>2, SMTT(30)
  <2>6. StandsFor(fused, SubSeq(graph.ops, i, (i + length) - 1))
    BY <2>4, <2>5
  <2> HIDE DEF window
  <2> QED  BY <2>2, <2>3, <2>5, <2>6
<1> QED  BY <1>4, <1>5 DEF ScanNext

\* The ops a window needs from outside are those it reads and does not write:
\* in an accepted graph no op reads what a later one writes.
LEMMA WindowNeeds ==
    ASSUME NEW g, g.ops \in Seq(Range(g.ops)), Verified(g),
           NEW k \in 1..(Len(g.ops) + 1), NEW j \in 1..(Len(g.ops) + 1), k <= j
    PROVE  NeedsFromOutside(SubSeq(g.ops, k, j - 1))
               = ReadBy(SubSeq(g.ops, k, j - 1)) \ WrittenBy(SubSeq(g.ops, k, j - 1))
<1> DEFINE window == SubSeq(g.ops, k, j - 1)
<1>1. Len(g.ops) \in Nat /\ DOMAIN g.ops = 1..Len(g.ops)
  BY PositionsOfList
<1>2. /\ window \in Seq(Range(window)) /\ Len(window) = j - k /\ DOMAIN window = 1..(j - k)
      /\ \A m \in 1..(j - k) : k + m - 1 \in DOMAIN g.ops /\ window[m] = g.ops[k + m - 1]
  BY WindowOps
<1> HIDE DEF window
<1>3. ASSUME NEW m \in DOMAIN window, NEW t \in Range(window[m].inputs),
             t \notin WrittenBy(window)
      PROVE  t \notin WrittenBy(SubSeq(window, 1, m - 1))
  <2> SUFFICES ASSUME t \in WrittenBy(SubSeq(window, 1, m - 1)) PROVE FALSE
    OBVIOUS
  <2>1. m \in 1..(Len(window) + 1)
    BY <1>1, <1>2
  <2>2. PICK l \in DOMAIN window : l < m /\ t \in Range(window[l].outputs)
    BY <1>2, <2>1, PrefixWriters
  <2> QED  BY <1>3, <2>2 DEF WrittenBy
<1>4. ASSUME NEW m \in DOMAIN window, NEW t \in Range(window[m].inputs),
             t \in WrittenBy(window)
      PROVE  t \in WrittenBy(SubSeq(window, 1, m - 1))
  <2>1. PICK l \in DOMAIN window : t \in Range(window[l].outputs)
    BY <1>4 DEF WrittenBy
  <2>2. /\ k + m - 1 \in DOMAIN g.ops /\ window[m] = g.ops[k + m - 1]
        /\ k + l - 1 \in DOMAIN g.ops /\ window[l] = g.ops[k + l - 1]
    BY <1>2
  <2>3. ASSUME m <= l PROVE FALSE
    <3>1. k + m - 1 <= k + l - 1
      BY <1>1, <1>2, <2>3
    <3>2. Range(g.ops[k + l - 1].outputs) \cap Range(g.ops[k + m - 1].inputs) = {}
      BY <2>2, <3>1, ReadersComeLater
    <3> QED  BY <2>1, <2>2, <3>2
  <2>4. l < m /\ m \in 1..(Len(window) + 1)
    BY <1>1, <1>2, <2>3
  <2> QED  BY <1>2, <2>1, <2>4, WrittenByPrefix
<1>5. NeedsFromOutside(window) = ReadBy(window) \ WrittenBy(window)
  <2>1. ASSUME NEW t \in NeedsFromOutside(window)
        PROVE  t \in ReadBy(window) /\ t \notin WrittenBy(window)
    <3>1. PICK m \in DOMAIN window :
             t \in Range(window[m].inputs) /\ t \notin WrittenBy(SubSeq(window, 1, m - 1))
      BY DEF NeedsFromOutside
    <3> QED  BY <1>4, <3>1 DEF ReadBy
  <2>2. ASSUME NEW t \in ReadBy(window), t \notin WrittenBy(window)
        PROVE  t \in NeedsFromOutside(window)
    <3>1. PICK m \in DOMAIN window : t \in Range(window[m].inputs)
      BY DEF ReadBy
    <3> QED  BY <1>3, <2>2, <3>1 DEF NeedsFromOutside
  <2> QED  BY <2>1, <2>2
<1> QED  BY <1>5 DEF window

\* The result's list after a step, in terms of the one before.
LEMMA AppendedOps ==
    ASSUME TypeOK, NEW op, op \in PlainOp \cup FusedOp, new_ops' = Append(new_ops, op)
    PROVE  /\ new_ops \in Seq(Range(new_ops)) /\ Len(new_ops) \in Nat
           /\ DOMAIN new_ops = 1..Len(new_ops)
           /\ DOMAIN new_ops' = 1..(Len(new_ops) + 1)
           /\ \A k \in 1..Len(new_ops) : new_ops'[k] = new_ops[k]
           /\ new_ops'[Len(new_ops) + 1] = op
<1>1. new_ops \in Seq(PlainOp \cup FusedOp)
  BY DEF TypeOK
<1>2. new_ops \in Seq(Range(new_ops)) /\ Len(new_ops) \in Nat /\ DOMAIN new_ops = 1..Len(new_ops)
  BY <1>1, OwnRange, LenProperties
<1>3. /\ new_ops' \in Seq(PlainOp \cup FusedOp) /\ Len(new_ops') = Len(new_ops) + 1
      /\ \A k \in 1..Len(new_ops) : new_ops'[k] = new_ops[k]
      /\ new_ops'[Len(new_ops) + 1] = op
  BY <1>1, AppendProperties
<1>4. DOMAIN new_ops' = 1..(Len(new_ops) + 1)
  BY <1>3, LenProperties
<1> QED  BY <1>2, <1>3, <1>4

\* _make_fused_op's interface is exact, for every list of patterns: a pass
\* that sees only a fused op's inputs and outputs misses nothing.
LEMMA ScanInterfaces == ScanSpec => []InterfaceExact
<1>1. Init => InterfaceExact
  <2>1. DOMAIN <<>> = {}
    BY EmptySeq
  <2> QED  BY <2>1 DEF Init, InterfaceExact
<1>2. TypeOK /\ GraphAccepted /\ InterfaceExact /\ [ScanNext]_vars => InterfaceExact'
  <2> SUFFICES ASSUME TypeOK, GraphAccepted, InterfaceExact, [ScanNext]_vars
               PROVE  InterfaceExact'
    OBVIOUS
  <2>1. CASE ScanNext
    <3>1. PICK op, j : /\ j \in 1..(Len(graph.ops) + 1) /\ i < j
                       /\ i \in 1..(Len(graph.ops) + 1)
                       /\ StandsFor(op, SubSeq(graph.ops, i, j - 1))
                       /\ new_ops' = Append(new_ops, op)
      BY <2>1, StepAppends
    <3>2. op \in PlainOp \cup FusedOp
      BY <3>1 DEF StandsFor
    <3>3. /\ DOMAIN new_ops = 1..Len(new_ops) /\ DOMAIN new_ops' = 1..(Len(new_ops) + 1)
          /\ \A k \in 1..Len(new_ops) : new_ops'[k] = new_ops[k]
          /\ new_ops'[Len(new_ops) + 1] = op /\ Len(new_ops) \in Nat
      BY <3>1, <3>2, AppendedOps
    <3>4. /\ Range(op.inputs) = NeedsFromOutside(SubOps(op))
          /\ Range(op.outputs) = WrittenBy(SubOps(op))
      <4>1. graph.ops \in Seq(Range(graph.ops)) /\ Verified(graph)
        <5>1. graph.ops \in Seq(PlainOp)
          BY GraphsAssumption DEF GraphAccepted, IsBaseGraph
        <5> QED  BY <5>1, OwnRange DEF GraphAccepted
      <4>2. NeedsFromOutside(SubSeq(graph.ops, i, j - 1))
              = ReadBy(SubSeq(graph.ops, i, j - 1)) \ WrittenBy(SubSeq(graph.ops, i, j - 1))
        <5>1. i <= j
          BY <3>1
        <5> QED  BY <3>1, <4>1, <5>1, WindowNeeds
      <4> QED  BY <3>1, <4>2 DEF StandsFor
    <3> SUFFICES ASSUME NEW k \in DOMAIN new_ops'
                 PROVE  /\ Range(new_ops'[k].inputs) = NeedsFromOutside(SubOps(new_ops'[k]))
                        /\ Range(new_ops'[k].outputs) = WrittenBy(SubOps(new_ops'[k]))
      BY DEF InterfaceExact
    <3>5. CASE k = Len(new_ops) + 1
      BY <3>3, <3>4, <3>5
    <3>6. CASE k # Len(new_ops) + 1
      <4>1. k \in DOMAIN new_ops /\ new_ops'[k] = new_ops[k]
        BY <3>3, <3>6
      <4> QED  BY <4>1 DEF InterfaceExact
    <3> QED  BY <3>5, <3>6
  <2>2. CASE UNCHANGED vars
    BY <2>2 DEF vars, InterfaceExact
  <2> QED  BY <2>1, <2>2 DEF ScanNext
<1> QED  BY <1>1, <1>2, ScanTypeCorrect, GraphStaysAccepted, PTL DEF ScanSpec

\* What holds of the op at position k of the result: it writes new tensors of
\* the base graph, each once, and what it reads is given or written before.
KeepsOrder(k) ==
    /\ \A o, p \in DOMAIN new_ops[k].outputs :
          new_ops[k].outputs[o] = new_ops[k].outputs[p] => o = p
    /\ Range(new_ops[k].outputs) \cap WrittenBy(SubSeq(new_ops, 1, k - 1)) = {}
    /\ Range(new_ops[k].outputs) \subseteq WrittenBy(graph.ops)
    /\ Range(new_ops[k].inputs) \subseteq ReadBy(graph.ops)
    /\ Range(new_ops[k].inputs) \subseteq
          Range(graph.graph_inputs) \cup External(graph) \cup WrittenBy(SubSeq(new_ops, 1, k - 1))

ResultInOrder ==
    /\ WrittenBy(new_ops) = WrittenBy(SubSeq(graph.ops, 1, i - 1))
    /\ \A k \in DOMAIN new_ops : KeepsOrder(k)

LEMMA ResultStaysInOrder == ScanSpec => []ResultInOrder
<1>1. Init => ResultInOrder
  <2> SUFFICES ASSUME Init PROVE ResultInOrder
    OBVIOUS
  <2>1. i = 1 /\ new_ops = <<>> /\ graph.ops \in Seq(PlainOp)
    BY GraphsAssumption DEF Init, IsBaseGraph
  <2>2. DOMAIN <<>> = {} /\ WrittenBy(<<>>) = {}
    BY EmptySeq DEF WrittenBy
  <2>3. SubSeq(graph.ops, 1, 1 - 1) = <<>>
    BY SubSeqEmpty
  <2> QED  BY <2>1, <2>2, <2>3 DEF ResultInOrder
<1>2. TypeOK /\ GraphAccepted /\ ResultInOrder /\ [ScanNext]_vars => ResultInOrder'
  <2> SUFFICES ASSUME TypeOK, GraphAccepted, ResultInOrder, [ScanNext]_vars
               PROVE  ResultInOrder'
    OBVIOUS
  <2>1. CASE ScanNext
    <3>1. PICK op, j : /\ j \in 1..(Len(graph.ops) + 1) /\ i < j
                       /\ i \in 1..(Len(graph.ops) + 1)
                       /\ StandsFor(op, SubSeq(graph.ops, i, j - 1))
                       /\ new_ops' = Append(new_ops, op) /\ i' = j /\ graph' = graph
      BY <2>1, StepAppends
    <3> DEFINE window == SubSeq(graph.ops, i, j - 1)
               n == Len(new_ops)
    <3>2. graph.ops \in Seq(Range(graph.ops)) /\ Verified(graph) /\ i <= j
      <4>1. graph.ops \in Seq(PlainOp)
        BY GraphsAssumption DEF GraphAccepted, IsBaseGraph
      <4> QED  BY <3>1, <4>1, OwnRange DEF GraphAccepted
    <3>3. op \in PlainOp \cup FusedOp
      BY <3>1 DEF StandsFor
    <3>4. /\ new_ops \in Seq(Range(new_ops)) /\ n \in Nat /\ DOMAIN new_ops = 1..n
          /\ DOMAIN new_ops' = 1..(n + 1)
          /\ \A k \in 1..n : new_ops'[k] = new_ops[k]
          /\ new_ops'[n + 1] = op
      BY <3>1, <3>3, AppendedOps
    <3>5. WrittenBy(new_ops') = WrittenBy(new_ops) \cup WrittenBy(window)
      <4>1. Range(op.outputs) = WrittenBy(window)
        BY <3>1 DEF StandsFor
      <4>2. WrittenBy(Append(new_ops, op)) = WrittenBy(new_ops) \cup Range(op.outputs)
        BY <3>4, WrittenByAppend
      <4> QED  BY <3>1, <4>1, <4>2
    <3>6. WrittenBy(SubSeq(graph.ops, 1, j - 1))
            = WrittenBy(SubSeq(graph.ops, 1, i - 1)) \cup WrittenBy(window)
      BY <3>1, <3>2, PrefixAndWindow
    <3>7. WrittenBy(new_ops') = WrittenBy(SubSeq(graph'.ops, 1, i' - 1))
      BY <3>1, <3>5, <3>6 DEF ResultInOrder
    <3>8. ASSUME NEW k \in 1..n PROVE KeepsOrder(k)'
      <4>1. SubSeq(new_ops', 1, k - 1) = SubSeq(new_ops, 1, k - 1)
        BY <3>1, <3>4, PrefixOfAppend
      <4>2. KeepsOrder(k)
        BY <3>4 DEF ResultInOrder
      <4>3. new_ops'[k] = new_ops[k] /\ graph' = graph
        BY <3>1, <3>4
      <4> QED  BY <4>1, <4>2, <4>3 DEF KeepsOrder
    <3>9. ASSUME NEW k, k = n + 1 PROVE KeepsOrder(k)'
      <4>1. new_ops'[k] = op /\ graph' = graph
        BY <3>1, <3>4, <3>9
      <4>2. SubSeq(new_ops', 1, k - 1) = new_ops
        <5>1. k \in 1..(Len(new_ops) + 1)
          BY <3>4, <3>9
        <5> QED  BY <3>1, <3>4, <3>9, <5>1, PrefixOfAppend
      <4>3. /\ WrittenBy(window) \cap WrittenBy(SubSeq(graph.ops, 1, i - 1)) = {}
            /\ WrittenBy(window) \subseteq WrittenBy(graph.ops)
            /\ ReadBy(window) \subseteq ReadBy(graph.ops)
            /\ ReadBy(window) \ WrittenBy(window) \subseteq ProducedBefore(graph, i)
        BY <3>1, <3>2, AcceptedWindow
      <4>4. /\ Range(op.inputs) = ReadBy(window) \ WrittenBy(window)
            /\ Range(op.outputs) = WrittenBy(window)
            /\ \A o, p \in DOMAIN op.outputs : op.outputs[o] = op.outputs[p] => o = p
        BY <3>1 DEF StandsFor
      <4>5. Range(op.outputs) \cap WrittenBy(new_ops) = {}
        BY <4>3, <4>4 DEF ResultInOrder
      <4>6. Range(op.inputs) \subseteq
               Range(graph.graph_inputs) \cup External(graph) \cup WrittenBy(new_ops)
        BY <4>3, <4>4 DEF ResultInOrder, ProducedBefore
      <4>7. Range(op.outputs) \subseteq WrittenBy(graph.ops) /\ Range(op.inputs) \subseteq ReadBy(graph.ops)
        BY <4>3, <4>4
      <4> QED  BY <4>1, <4>2, <4>4, <4>5, <4>6, <4>7 DEF KeepsOrder
    <3>10. \A k \in DOMAIN new_ops' : KeepsOrder(k)'
      <4>1. \A k \in 1..(n + 1) : k \in 1..n \/ k = n + 1
        BY <3>4
      <4> QED  BY <3>4, <3>8, <3>9, <4>1
    <3> QED  BY <3>7, <3>10 DEF ResultInOrder
  <2>2. CASE UNCHANGED vars
    BY <2>2 DEF vars, ResultInOrder, KeepsOrder
  <2> QED  BY <2>1, <2>2 DEF ScanNext
<1> QED  BY <1>1, <1>2, ScanTypeCorrect, GraphStaysAccepted, PTL DEF ScanSpec

\* "Fusion must preserve every structural invariant": the verify_graph call
\* after the pass accepts every fused graph.
LEMMA ScanAccepted == ScanSpec => []FusedGraphVerifies
<1>1. TypeOK /\ GraphAccepted /\ ResultInOrder => FusedGraphVerifies
  <2> SUFFICES ASSUME TypeOK, GraphAccepted, ResultInOrder, Finished
               PROVE  Verified(FusedGraph)
    BY DEF FusedGraphVerifies
  <2>1. /\ FusedGraph.ops = new_ops /\ FusedGraph.shapes = graph.shapes
        /\ FusedGraph.graph_inputs = graph.graph_inputs
        /\ FusedGraph.graph_outputs = graph.graph_outputs
    BY DEF FusedGraph
  <2>2. /\ graph.ops \in Seq(PlainOp) /\ graph.ops \in Seq(Range(graph.ops))
        /\ DOMAIN graph.ops = 1..Len(graph.ops) /\ Len(graph.ops) \in Nat
    <3>1. graph.ops \in Seq(PlainOp)
      BY GraphsAssumption DEF GraphAccepted, IsBaseGraph
    <3> QED  BY <3>1, OwnRange, LenProperties
  <2>3. WrittenBy(new_ops) = WrittenBy(graph.ops)
    <3>1. i = Len(graph.ops) + 1
      BY <2>2 DEF TypeOK, Finished
    <3>2. i \in 1..(Len(graph.ops) + 1)
      BY DEF TypeOK
    <3>3. SubSeq(graph.ops, 1, i - 1) = graph.ops
      BY <2>2, <3>1, <3>2, PrefixOfAppend
    <3> QED  BY <3>3 DEF ResultInOrder
  <2>4. \A t \in ReadBy(graph.ops) \cup WrittenBy(graph.ops) : t \in DOMAIN graph.shapes
    BY VerifiedGives DEF GraphAccepted, ReadBy, WrittenBy
  <2>5. WrittenBy(graph.ops) \cap Range(graph.graph_inputs) = {}
    BY VerifiedGives DEF GraphAccepted, WrittenBy
  <2>6. Range(graph.graph_outputs) \subseteq WrittenBy(graph.ops) \cup Range(graph.graph_inputs)
    BY DEF GraphAccepted, Verified, CollectGraphErrors, UnproducedOutputs
  <2>7. ASSUME NEW k \in DOMAIN new_ops PROVE Acceptable(FusedGraph, k)
    <3>1. KeepsOrder(k)
      BY DEF ResultInOrder
    <3>2. new_ops[k].outputs \in Seq(Range(new_ops[k].outputs))
      <4>1. new_ops[k] \in PlainOp \cup FusedOp
        BY LenProperties, ElementOfSeq DEF TypeOK
      <4>2. new_ops[k].outputs \in Seq(Tensor)
        BY <4>1 DEF PlainOp, FusedOp
      <4> QED  BY <4>2, OwnRange
    <3>3. External(FusedGraph) = External(graph)
      BY <2>1, <2>3 DEF External
    <3>4. Range(new_ops[k].inputs) \subseteq ProducedBefore(FusedGraph, k)
      BY <2>1, <3>1, <3>3 DEF KeepsOrder, ProducedBefore
    <3>5. Range(new_ops[k].outputs) \cap Range(graph.graph_inputs) = {}
      BY <2>5, <3>1 DEF KeepsOrder
    <3>6. Range(new_ops[k].inputs) \cup Range(new_ops[k].outputs) \subseteq DOMAIN graph.shapes
      BY <2>4, <3>1 DEF KeepsOrder
    <3> QED  BY <2>1, <3>1, <3>2, <3>4, <3>5, <3>6 DEF Acceptable, KeepsOrder
  <2> QED  BY <2>1, <2>3, <2>6, <2>7, VerifiedWhen
<1> QED  BY <1>1, ScanTypeCorrect, GraphStaysAccepted, ResultStaysInOrder, PTL

\* The record of a fused op stands at the number its name ends in, and no
\* other op has that name.
NamesNumberRecords ==
    \A k \in DOMAIN new_ops : new_ops[k].kind = "fused" =>
        /\ \A j \in DOMAIN new_ops : new_ops[j].name = new_ops[k].name => j = k
        /\ \E r \in DOMAIN records :
              /\ new_ops[k].name[2] = r - 1
              /\ records[r].fused_op_name = new_ops[k].name
              /\ records[r].sub_op_names =
                    [m \in DOMAIN new_ops[k].attrs.sub_ops |->
                        new_ops[k].attrs.sub_ops[m].name]

\* The plan of a bucket and the fusion summary can look a fused op up by its
\* name: it identifies the op and the record that lists its sub-ops.
LEMMA ScanNamesIdentify == ScanSpec => []FusedNamesIdentify
<1>1. Init => NamesNumberRecords
  <2>1. DOMAIN <<>> = {}
    BY EmptySeq
  <2> QED  BY <2>1 DEF Init, NamesNumberRecords
<1>2. TypeOK /\ NamesNumberRecords /\ [ScanNext]_vars => NamesNumberRecords'
  <2> SUFFICES ASSUME TypeOK, NamesNumberRecords, [ScanNext]_vars
               PROVE  NamesNumberRecords'
    OBVIOUS
  <2> DEFINE n == Len(new_ops)
  <2>1. ASSUME NEW k \in DOMAIN new_ops
        PROVE  /\ new_ops[k] \in PlainOp \/ new_ops[k] \in FusedOp
               /\ new_ops[k].kind = "fused" => new_ops[k].name \in FusedKind \X Nat
               /\ new_ops[k].kind # "fused" => new_ops[k].name \in Name
    <3>1. new_ops[k] \in PlainOp \/ new_ops[k] \in FusedOp
      BY LenProperties, ElementOfSeq DEF TypeOK
    <3> QED  BY <3>1, FusedIsNoKind DEF PlainOp, FusedOp
  <2>2. CASE KeepAndCount(fuse_idx)
    <3>1. /\ Scanning /\ new_ops' = Append(new_ops, graph.ops[i]) /\ records' = records
      BY <2>2 DEF KeepAndCount
    <3>2. /\ graph.ops[i] \in PlainOp /\ graph.ops[i].kind # "fused" /\ graph.ops[i].name \in Name
      BY <3>1, ScanProperties, FusedIsNoKind DEF PlainOp
    <3>3. /\ n \in Nat /\ DOMAIN new_ops = 1..n /\ DOMAIN new_ops' = 1..(n + 1)
          /\ \A k \in 1..n : new_ops'[k] = new_ops[k]
          /\ new_ops'[n + 1] = graph.ops[i]
      BY <3>1, <3>2, AppendedOps, SMTT(30)
    <3> SUFFICES ASSUME NEW k \in DOMAIN new_ops', new_ops'[k].kind = "fused"
                 PROVE  /\ \A j \in DOMAIN new_ops' : new_ops'[j].name = new_ops'[k].name => j = k
                        /\ \E r \in DOMAIN records :
                              /\ new_ops'[k].name[2] = r - 1
                              /\ records[r].fused_op_name = new_ops'[k].name
                              /\ records[r].sub_op_names =
                                    [m \in DOMAIN new_ops'[k].attrs.sub_ops |->
                                        new_ops'[k].attrs.sub_ops[m].name]
      BY <3>1 DEF NamesNumberRecords
    <3>4. k # n + 1 /\ k \in 1..n /\ new_ops'[k] = new_ops[k]
      BY <3>2, <3>3
    <3>5. new_ops'[n + 1].name # new_ops[k].name
      BY <2>1, <3>2, <3>3, <3>4, NamesAssumption
    <3>6. \A j \in 1..(n + 1) : j \in 1..n \/ j = n + 1
      BY <3>3
    <3> QED  BY <3>3, <3>4, <3>5, <3>6 DEF NamesNumberRecords
  <2>3. CASE \E p \in Matches(graph.ops, i) : FuseAndJump(p, Length(p))
    <3>1. PICK p \in Matches(graph.ops, i) : FuseAndJump(p, Length(p))
      BY <2>3
    <3> DEFINE length == Len(Patterns[p].kinds)
               window == SubSeq(graph.ops, i, i + length - 1)
               fused == MakeFusedOp(window, Patterns[p].fused_kind, fuse_idx)
               rec == [fused_op_name |-> fused.name, fused_kind |-> Patterns[p].fused_kind,
                       sub_op_names |-> [k \in DOMAIN window |-> window[k].name]]
    <3>2. records' = Append(records, rec)
      BY <3>1 DEF FuseAndJump, Window, Length
    <3>3. /\ fused \in FusedOp /\ fused.name = <<Patterns[p].fused_kind, fuse_idx>>
          /\ fused.attrs.sub_ops = window /\ new_ops' = Append(new_ops, fused)
          /\ Patterns[p].fused_kind \in FusedKind
      BY <3>1, FuseProperties
    <3> HIDE DEF fused, window
    <3>4. /\ n \in Nat /\ DOMAIN new_ops = 1..n /\ DOMAIN new_ops' = 1..(n + 1)
          /\ \A k \in 1..n : new_ops'[k] = new_ops[k]
          /\ new_ops'[n + 1] = fused
      BY <3>3, AppendedOps
    <3>5. fuse_idx \in Nat /\ Len(records) = fuse_idx /\ records \in Seq(FusionRecord)
      BY DEF TypeOK
    <3>6. /\ DOMAIN records = 1..fuse_idx /\ DOMAIN records' = 1..(fuse_idx + 1)
          /\ \A r \in 1..fuse_idx : records'[r] = records[r]
          /\ records'[fuse_idx + 1] = rec
      <4>1. records \in Seq(FusionRecord \cup {rec}) /\ rec \in FusionRecord \cup {rec}
        <5> HIDE DEF rec
        <5>1. records \in [1..fuse_idx -> FusionRecord]
          BY <3>5, LenProperties
        <5>2. records \in [1..fuse_idx -> FusionRecord \cup {rec}]
          BY <5>1
        <5> QED  BY <3>5, <5>2, SeqDef
      <4> HIDE DEF rec
      <4>2. /\ records' \in Seq(FusionRecord \cup {rec}) /\ Len(records') = fuse_idx + 1
            /\ \A r \in 1..fuse_idx : records'[r] = records[r]
            /\ records'[fuse_idx + 1] = rec
        BY <3>2, <3>5, <4>1, AppendProperties
      <4> QED  BY <3>5, <4>1, <4>2, LenProperties
    <3>7. /\ rec.fused_op_name = fused.name
          /\ rec.sub_op_names = [m \in DOMAIN fused.attrs.sub_ops |-> fused.attrs.sub_ops[m].name]
      BY <3>3
    <3> HIDE DEF rec
    <3>8. ASSUME NEW k \in 1..n
          PROVE  new_ops[k].name # fused.name
      <4>1. CASE new_ops[k].kind = "fused"
        <5>1. k \in DOMAIN new_ops
          BY <3>4
        <5>2. PICK r \in DOMAIN records :
                 /\ new_ops[k].name[2] = r - 1
                 /\ records[r].fused_op_name = new_ops[k].name
                 /\ records[r].sub_op_names =
                       [m \in DOMAIN new_ops[k].attrs.sub_ops |-> new_ops[k].attrs.sub_ops[m].name]
          BY <4>1, <5>1 DEF NamesNumberRecords
        <5>3. r - 1 # fuse_idx
          BY <3>5, <3>6
        <5>4. fused.name[2] = fuse_idx
          BY <3>3
        <5> QED  BY <5>2, <5>3, <5>4
      <4>2. CASE new_ops[k].kind # "fused"
        <5>1. k \in DOMAIN new_ops
          BY <3>4
        <5>2. new_ops[k].name \in Name
          BY <2>1, <4>2, <5>1
        <5>3. fused.name \in FusedKind \X Nat
          BY <3>3, <3>5
        <5> QED  BY <5>2, <5>3, NamesAssumption
      <4> QED  BY <4>1, <4>2
    <3> SUFFICES ASSUME NEW k \in DOMAIN new_ops', new_ops'[k].kind = "fused"
                 PROVE  /\ \A j \in DOMAIN new_ops' : new_ops'[j].name = new_ops'[k].name => j = k
                        /\ \E r \in DOMAIN records' :
                              /\ new_ops'[k].name[2] = r - 1
                              /\ records'[r].fused_op_name = new_ops'[k].name
                              /\ records'[r].sub_op_names =
                                    [m \in DOMAIN new_ops'[k].attrs.sub_ops |->
                                        new_ops'[k].attrs.sub_ops[m].name]
      BY DEF NamesNumberRecords
    <3>9. \A j \in 1..(n + 1) : j \in 1..n \/ j = n + 1
      BY <3>4
    <3>10. CASE k = n + 1
      <4>1. \A j \in DOMAIN new_ops' : new_ops'[j].name = new_ops'[k].name => j = k
        BY <3>4, <3>8, <3>9, <3>10
      <4>2. new_ops'[k] = fused /\ fused.name[2] = (fuse_idx + 1) - 1
        BY <3>3, <3>4, <3>5, <3>10
      <4>3. fuse_idx + 1 \in DOMAIN records'
        BY <3>5, <3>6
      <4> QED  BY <3>6, <3>7, <4>1, <4>2, <4>3
    <3>11. CASE k \in 1..n
      <4>1. new_ops'[k] = new_ops[k] /\ new_ops[k].kind = "fused" /\ k \in DOMAIN new_ops
        BY <3>4, <3>11
      <4>2. \A j \in DOMAIN new_ops' : new_ops'[j].name = new_ops'[k].name => j = k
        <5>1. \A j \in DOMAIN new_ops : new_ops[j].name = new_ops[k].name => j = k
          BY <4>1 DEF NamesNumberRecords
        <5> QED  BY <3>4, <3>8, <3>9, <4>1, <5>1
      <4>3. PICK r \in DOMAIN records :
               /\ new_ops[k].name[2] = r - 1
               /\ records[r].fused_op_name = new_ops[k].name
               /\ records[r].sub_op_names =
                     [m \in DOMAIN new_ops[k].attrs.sub_ops |-> new_ops[k].attrs.sub_ops[m].name]
        BY <4>1 DEF NamesNumberRecords
      <4>4. r \in DOMAIN records' /\ records'[r] = records[r]
        BY <3>5, <3>6
      <4> QED  BY <4>1, <4>2, <4>3, <4>4
    <3> QED  BY <3>4, <3>9, <3>10, <3>11
  <2>4. CASE UNCHANGED vars
    BY <2>4 DEF vars, NamesNumberRecords
  <2> QED  BY <2>2, <2>3, <2>4 DEF ScanNext
<1>3. NamesNumberRecords => FusedNamesIdentify
  BY DEF NamesNumberRecords, FusedNamesIdentify
<1> QED  BY <1>1, <1>2, <1>3, ScanTypeCorrect, PTL DEF ScanSpec
----------------------------------------------------------------------------
(***************************************************************************)
(* Both strategies are such a scan, so all of this holds of both.          *)
(***************************************************************************)

LEMMA GreedyScans == Spec => ScanSpec
<1>1. [Next]_vars => [ScanNext]_vars
  BY DEF Next, KeepOp, FuseWindow, IsFirstMatch, Terminated, ScanNext
<1> QED  BY <1>1, PTL DEF Spec, ScanSpec

\* Whatever the dynamic program has chosen so far is a match.
ChoicesMatch ==
    /\ DOMAIN choice = DOMAIN graph.ops
    /\ \A k \in DOMAIN graph.ops : choice[k] # NoChoice => choice[k] \in Matches(graph.ops, k)

\* So the forward scan that carries the choices out fuses only matches.
LEMMA OptimalStepScans ==
    ASSUME TypeOK, ChoicesMatch, [OptimalNext]_optimalVars
    PROVE  [ScanNext]_vars /\ ChoicesMatch'
<1>1. DOMAIN graph.ops = 1..Len(graph.ops) /\ Len(graph.ops) \in Nat
  <2>1. graph.ops \in Seq(PlainOp)
    BY GraphsAssumption DEF TypeOK, IsBaseGraph
  <2> QED  BY <2>1, LenProperties
<1>2. ASSUME NEW bytes, NEW p, Scoring, p = NoChoice \/ p \in Matches(graph.ops, dp_i),
             Settle(bytes, p)
      PROVE  UNCHANGED vars /\ ChoicesMatch'
  <2>1. UNCHANGED vars /\ choice' = [choice EXCEPT ![dp_i] = p]
    BY <1>2 DEF Settle
  <2>2. graph' = graph
    BY <2>1 DEF vars
  <2>3. DOMAIN choice' = DOMAIN graph.ops
    BY <2>1 DEF ChoicesMatch
  <2>4. \A k \in DOMAIN graph.ops : choice'[k] = IF k = dp_i THEN p ELSE choice[k]
    BY <2>1 DEF ChoicesMatch
  <2>5. \A k \in DOMAIN graph.ops : choice'[k] # NoChoice => choice'[k] \in Matches(graph.ops, k)
    BY <1>2, <2>4 DEF ChoicesMatch
  <2> QED  BY <2>1, <2>2, <2>3, <2>5 DEF ChoicesMatch
<1>3. CASE LeaveUnfused
  BY <1>2, <1>3 DEF LeaveUnfused, NothingGained
<1>4. CASE \E p \in DOMAIN Patterns : ChooseWindow(p)
  BY <1>2, <1>4 DEF ChooseWindow
<1>5. CASE KeepUnfused
  BY <1>5 DEF KeepUnfused, KeepAndCount, ScanNext, dpVars, ChoicesMatch
<1>6. CASE FuseChosen
  <2>1. i \in 1..Len(graph.ops)
    BY <1>1, <1>6 DEF FuseChosen, Selecting, Scanning, TypeOK
  <2>2. choice[i] \in Matches(graph.ops, i) /\ FuseAndJump(choice[i], Length(choice[i]))
    BY <1>1, <1>6, <2>1 DEF FuseChosen, ChoicesMatch
  <2>3. graph' = graph /\ choice' = choice
    BY <1>6 DEF FuseChosen, FuseAndJump, dpVars
  <2>4. ScanNext
    BY <2>2 DEF ScanNext
  <2> QED  BY <2>3, <2>4 DEF ChoicesMatch
<1>7. CASE OptimalTerminated \/ UNCHANGED optimalVars
  BY <1>7 DEF OptimalTerminated, optimalVars, vars, dpVars, ChoicesMatch
<1> QED  BY <1>3, <1>4, <1>5, <1>6, <1>7 DEF OptimalNext, Score

LEMMA OptimalScans == OptimalSpec => ScanSpec /\ []ChoicesMatch
<1>1. OptimalInit => Init /\ TypeOK /\ ChoicesMatch
  <2>1. ASSUME OptimalInit PROVE ChoicesMatch
    BY <2>1 DEF OptimalInit, ChoicesMatch
  <2> QED  BY <2>1, InitTyped DEF OptimalInit
<1>2. TypeOK /\ ChoicesMatch /\ [OptimalNext]_optimalVars
        => [ScanNext]_vars /\ TypeOK' /\ ChoicesMatch'
  BY OptimalStepScans, StepTyped
<1> QED  BY <1>1, <1>2, PTL DEF OptimalSpec, ScanSpec

\* The type invariant, for every set of graphs and every list of patterns.
THEOREM TypeCorrect == (Spec => []TypeOK) /\ (OptimalSpec => []TypeOK)
BY ScanTypeCorrect, GreedyScans, OptimalScans, PTL

\* Fusing never loses, repeats or reorders an op, whatever the graph and
\* whatever the windows chosen.
THEOREM OrderIsPreserved ==
    (Spec => []ExecutionOrderPreserved) /\ (OptimalSpec => []ExecutionOrderPreserved)
BY ScanKeepsOrder, GreedyScans, OptimalScans, PTL

\* _make_fused_op's interface is exact, for every list of patterns: a pass
\* that sees only a fused op's inputs and outputs misses nothing.
THEOREM ExactInterfaces == (Spec => []InterfaceExact) /\ (OptimalSpec => []InterfaceExact)
BY ScanInterfaces, GreedyScans, OptimalScans, PTL

\* "Fusion must preserve every structural invariant": the verify_graph call
\* after the pass accepts every fused graph, of either strategy.
THEOREM FusedAccepted ==
    (Spec => []FusedGraphVerifies) /\ (OptimalSpec => []FusedGraphVerifies)
BY ScanAccepted, GreedyScans, OptimalScans, PTL

\* The plan of a bucket and the fusion summary can look a fused op up by its
\* name: it identifies the op and the record that lists its sub-ops.
THEOREM NamesIdentify == (Spec => []FusedNamesIdentify) /\ (OptimalSpec => []FusedNamesIdentify)
BY ScanNamesIdentify, GreedyScans, OptimalScans, PTL
----------------------------------------------------------------------------
\* "longest-pattern-first": no pattern that can match stands before a longer
\* one.
LongestFirst ==
    \A p, q \in DOMAIN Patterns :
        p < q /\ Patterns[p].kinds # <<>> => Len(Patterns[q].kinds) <= Len(Patterns[p].kinds)

\* The default list is one such.
LEMMA DefaultIsLongestFirst == Patterns = PATTERNS => LongestFirst
<1> SUFFICES ASSUME Patterns = PATTERNS, NEW p \in DOMAIN Patterns, NEW q \in DOMAIN Patterns, p < q
             PROVE  Len(Patterns[q].kinds) <= Len(Patterns[p].kinds)
  BY DEF LongestFirst
<1>1. DOMAIN Patterns = 1..6
  BY DEF PATTERNS
<1>2. /\ Len(Patterns[1].kinds) = 4 /\ Len(Patterns[2].kinds) = 3 /\ Len(Patterns[3].kinds) = 3
      /\ Len(Patterns[4].kinds) = 2 /\ Len(Patterns[5].kinds) = 2 /\ Len(Patterns[6].kinds) = 2
  BY DEF PATTERNS
<1> DEFINE length == [k \in 1..6 |-> Len(Patterns[k].kinds)]
<1>3. /\ length[1] = 4 /\ length[2] = 3 /\ length[3] = 3
      /\ length[4] = 2 /\ length[5] = 2 /\ length[6] = 2
  BY <1>2
<1>4. p \in 1..6 /\ q \in 1..6 /\ length[p] = Len(Patterns[p].kinds) /\ length[q] = Len(Patterns[q].kinds)
  BY <1>1
<1> HIDE DEF length
<1>5. length[q] <= length[p]
  <2>1. p \in {1, 2, 3, 4, 5, 6} /\ q \in {1, 2, 3, 4, 5, 6}
    BY <1>4
  <2> QED  BY <1>3, <2>1
<1> QED  BY <1>4, <1>5

\* Trying such a list in order takes the longest window there is.
THEOREM LongestIsTaken ==
    ASSUME LongestFirst
    PROVE  Spec => []GreedyTakesLongest
<1>1. Init => GreedyTakesLongest
  <2>1. DOMAIN <<>> = {}
    BY EmptySeq
  <2> QED  BY <2>1 DEF Init, GreedyTakesLongest
<1>2. TypeOK /\ GreedyTakesLongest /\ [Next]_vars => GreedyTakesLongest'
  <2> SUFFICES ASSUME TypeOK, GreedyTakesLongest, [Next]_vars
               PROVE  GreedyTakesLongest'
    OBVIOUS
  <2> DEFINE n == Len(new_ops)
  \* A step that moves on by at least the longest match at i.
  <2>1. ASSUME NEW op \in PlainOp \cup FusedOp, NEW length \in Nat \ {0}, Scanning,
               new_ops' = Append(new_ops, op), starts' = Append(starts, i), i' = i + length,
               graph' = graph,
               \A p \in Matches(graph.ops, i) : Len(Patterns[p].kinds) <= length
        PROVE  GreedyTakesLongest'
    <3>1. /\ n \in Nat /\ i \in 1..Len(graph.ops)
          /\ DOMAIN starts = 1..n /\ DOMAIN starts' = 1..(n + 1)
          /\ \A k \in 1..n : starts'[k] = starts[k] /\ NextStart(k)' = NextStart(k)
          /\ \A k : k = n + 1 => starts'[k] = i /\ NextStart(k)' = i + length
      BY <2>1, AppendedStart
    <3> HIDE DEF n
    <3> SUFFICES ASSUME NEW k \in 1..(n + 1), NEW p \in Matches(graph.ops, starts'[k])
                 PROVE  Len(Patterns[p].kinds) <= NextStart(k)' - starts'[k]
      BY <2>1, <3>1 DEF GreedyTakesLongest
    <3>2. CASE k \in 1..n
      BY <3>1, <3>2 DEF GreedyTakesLongest
    <3>3. CASE k = n + 1
      <4>1. starts'[k] = i /\ NextStart(k)' = i + length
        BY <3>1, <3>3
      <4>2. (i + length) - i = length
        BY <2>1, <3>1
      <4> QED  BY <2>1, <4>1, <4>2
    <3> QED  BY <3>1, <3>2, <3>3
  <2>2. CASE KeepOp
    <3>1. /\ Scanning /\ new_ops' = Append(new_ops, graph.ops[i]) /\ starts' = Append(starts, i)
          /\ i' = i + 1 /\ graph' = graph /\ Matches(graph.ops, i) = {}
      BY <2>2 DEF KeepOp, KeepAndCount
    <3>2. graph.ops[i] \in PlainOp \cup FusedOp /\ 1 \in Nat \ {0}
      BY <3>1, ScanProperties
    <3> QED  BY <2>1, <3>1, <3>2
  <2>3. CASE \E p \in DOMAIN Patterns : FuseWindow(p)
    <3>1. PICK p \in DOMAIN Patterns : FuseWindow(p)
      BY <2>3
    <3> DEFINE length == Len(Patterns[p].kinds)
               fused == MakeFusedOp(SubSeq(graph.ops, i, i + length - 1), Patterns[p].fused_kind, fuse_idx)
    <3>2. /\ Scanning /\ starts' = Append(starts, i) /\ graph' = graph
          /\ \A q \in Matches(graph.ops, i) : p <= q
      BY <3>1 DEF FuseWindow, IsFirstMatch, FuseAndJump
    <3>3. /\ length \in Nat \ {0} /\ fused \in FusedOp
          /\ new_ops' = Append(new_ops, fused) /\ i' = i + length
      BY <3>1, FuseProperties DEF FuseWindow, IsFirstMatch
    <3>4. ASSUME NEW q \in Matches(graph.ops, i)
          PROVE  Len(Patterns[q].kinds) <= length
      <4>1. q \in DOMAIN Patterns /\ p <= q
        BY <3>2 DEF Matches
      <4>2. Patterns[p].kinds # <<>>
        BY <3>3, EmptySeq
      <4>3. CASE p < q
        BY <4>1, <4>2, <4>3 DEF LongestFirst
      <4>4. CASE ~ (p < q)
        <5>1. p \in Int /\ q \in Int
          BY <4>1, PatternsAssumption, LenProperties
        <5>2. p = q
          BY <4>1, <4>4, <5>1
        <5> QED  BY <3>3, <5>2
      <4> QED  BY <4>3, <4>4
    <3> HIDE DEF length, fused
    <3> QED  BY <2>1, <3>2, <3>3, <3>4
  <2>4. CASE UNCHANGED vars
    BY <2>4 DEF vars, GreedyTakesLongest, NextStart
  <2> QED  BY <2>2, <2>3, <2>4 DEF Next, Terminated
<1> QED  BY <1>1, <1>2, TypeCorrect, PTL DEF Spec

\* Ops kept one after the other stand one after the other in the base graph,
\* and no pattern matched at any of them.
KeptInARow ==
    /\ \A k \in DOMAIN new_ops : new_ops[k].kind # "fused" =>
          /\ new_ops[k] = graph.ops[starts[k]]
          /\ Matches(graph.ops, starts[k]) = {}
          /\ NextStart(k) = starts[k] + 1
    /\ \A k, l \in DOMAIN new_ops :
          k <= l /\ (\A m \in k..l : new_ops[m].kind # "fused") => starts[l] = starts[k] + (l - k)

\* One scan is enough: a match in the result would consist of kept ops, and
\* so have been a match in the base graph, which the scan does not pass by.
THEOREM NothingIsLeft == Spec => []NothingLeftToFuse
<1>1. Init => KeptInARow
  <2>1. DOMAIN <<>> = {}
    BY EmptySeq
  <2> QED  BY <2>1 DEF Init, KeptInARow
<1>2. TypeOK /\ KeptInARow /\ [Next]_vars => KeptInARow'
  <2> SUFFICES ASSUME TypeOK, KeptInARow, [Next]_vars
               PROVE  KeptInARow'
    OBVIOUS
  <2> DEFINE n == Len(new_ops)
  \* A step that appends a fused op, or keeps one that matches nothing.
  <2>1. ASSUME NEW op \in PlainOp \cup FusedOp, NEW length \in Nat \ {0}, Scanning,
               new_ops' = Append(new_ops, op), starts' = Append(starts, i), i' = i + length,
               graph' = graph,
               op.kind # "fused" =>
                  op = graph.ops[i] /\ Matches(graph.ops, i) = {} /\ length = 1
        PROVE  KeptInARow'
    <3>1. /\ n \in Nat /\ i \in 1..Len(graph.ops) /\ Len(starts) = n
          /\ DOMAIN new_ops = 1..n /\ DOMAIN new_ops' = 1..(n + 1)
          /\ \A k \in 1..n : /\ new_ops'[k] = new_ops[k]
                             /\ starts'[k] = starts[k] /\ starts[k] \in 1..Len(graph.ops)
                             /\ NextStart(k)' = NextStart(k)
          /\ \A k : k = n + 1 => new_ops'[k] = op /\ starts'[k] = i /\ NextStart(k)' = i + length
      BY <2>1, AppendedStart
    <3> HIDE DEF n
    <3>2. ASSUME NEW k \in 1..(n + 1), new_ops'[k].kind # "fused"
          PROVE  /\ new_ops'[k] = graph.ops[starts'[k]]
                 /\ Matches(graph.ops, starts'[k]) = {}
                 /\ NextStart(k)' = starts'[k] + 1
      <4>1. CASE k \in 1..n
        BY <3>1, <3>2, <4>1 DEF KeptInARow
      <4>2. CASE k = n + 1
        BY <2>1, <3>1, <3>2, <4>2
      <4> QED  BY <3>1, <4>1, <4>2
    <3>3. ASSUME NEW k \in 1..(n + 1), NEW l \in 1..(n + 1), k <= l,
                 \A m \in k..l : new_ops'[m].kind # "fused"
          PROVE  starts'[l] = starts'[k] + (l - k)
      <4>1. CASE l \in 1..n
        <5>1. k \in 1..n
          BY <3>1, <3>3, <4>1
        <5>2. \A m \in k..l : m \in 1..n
          BY <3>1, <4>1, <5>1
        <5>3. \A m \in k..l : new_ops[m].kind # "fused"
          BY <3>1, <3>3, <5>2
        <5>4. starts[l] = starts[k] + (l - k)
          BY <3>1, <3>3, <4>1, <5>1, <5>3 DEF KeptInARow
        <5> QED  BY <3>1, <4>1, <5>1, <5>4
      <4>2. CASE k = n + 1
        <5>1. l = k
          BY <3>1, <3>3, <4>2
        <5>2. starts'[k] \in Int
          BY <3>1, <4>2
        <5> QED  BY <3>1, <5>1, <5>2
      <4>3. CASE l = n + 1 /\ k \in 1..n
        <5>1. n \in 1..n /\ k <= n /\ \A m \in k..n : m \in k..l /\ m \in 1..n
          BY <3>1, <4>3
        <5>2. \A m \in k..n : new_ops[m].kind # "fused"
          BY <3>1, <3>3, <5>1
        <5>3. starts[n] = starts[k] + (n - k)
          BY <3>1, <4>3, <5>1, <5>2 DEF KeptInARow
        <5>4. NextStart(n) = starts[n] + 1
          <6>1. n \in k..n
            BY <3>1, <5>1
          <6> QED  BY <3>1, <5>1, <5>2, <6>1 DEF KeptInARow
        <5>5. NextStart(n) = i
          BY <3>1 DEF NextStart
        <5>6. i = starts[k] + (n - k) + 1
          BY <5>3, <5>4, <5>5
        <5>7. starts'[k] = starts[k] /\ starts'[l] = i
          BY <3>1, <4>3
        <5>8. l - k = (n - k) + 1 /\ n - k \in Int
          BY <3>1, <4>3
        <5>9. starts[k] \in Int
          BY <3>1, <4>3
        <5>10. starts[k] + (n - k) + 1 = starts[k] + ((n - k) + 1)
          BY <5>8, <5>9
        <5> QED  BY <5>6, <5>7, <5>8, <5>10
      <4> QED  BY <3>1, <4>1, <4>2, <4>3
    <3> QED  BY <2>1, <3>1, <3>2, <3>3 DEF KeptInARow
  <2>2. CASE KeepOp
    <3>1. /\ Scanning /\ new_ops' = Append(new_ops, graph.ops[i]) /\ starts' = Append(starts, i)
          /\ i' = i + 1 /\ graph' = graph /\ Matches(graph.ops, i) = {}
      BY <2>2 DEF KeepOp, KeepAndCount
    <3>2. graph.ops[i] \in PlainOp \cup FusedOp /\ 1 \in Nat \ {0}
      BY <3>1, ScanProperties
    <3> QED  BY <2>1, <3>1, <3>2
  <2>3. CASE \E p \in DOMAIN Patterns : FuseWindow(p)
    <3>1. PICK p \in DOMAIN Patterns : FuseWindow(p)
      BY <2>3
    <3> DEFINE length == Len(Patterns[p].kinds)
               fused == MakeFusedOp(SubSeq(graph.ops, i, i + length - 1), Patterns[p].fused_kind, fuse_idx)
    <3>2. Scanning /\ starts' = Append(starts, i) /\ graph' = graph
      BY <3>1 DEF FuseWindow, IsFirstMatch, FuseAndJump
    <3>3. /\ length \in Nat \ {0} /\ fused \in FusedOp /\ fused.kind = "fused"
          /\ new_ops' = Append(new_ops, fused) /\ i' = i + length
      BY <3>1, FuseProperties DEF FuseWindow, IsFirstMatch
    <3> HIDE DEF length, fused
    <3> QED  BY <2>1, <3>2, <3>3
  <2>4. CASE UNCHANGED vars
    BY <2>4 DEF vars, KeptInARow, NextStart
  <2> QED  BY <2>2, <2>3, <2>4 DEF Next, Terminated
<1>3. TypeOK /\ KeptInARow => NothingLeftToFuse
  <2> SUFFICES ASSUME TypeOK, KeptInARow,
                      NEW k \in DOMAIN new_ops, NEW p \in Matches(new_ops, k)
               PROVE  FALSE
    BY DEF NothingLeftToFuse
  <2> DEFINE length == Len(Patterns[p].kinds)
             window == SubSeq(new_ops, k, k + length - 1)
             start == starts[k]
  <2>1. /\ new_ops \in Seq(PlainOp \cup FusedOp) /\ Len(new_ops) \in Nat
        /\ DOMAIN new_ops = 1..Len(new_ops)
        /\ \A m \in 1..Len(new_ops) : starts[m] \in 1..Len(graph.ops)
    BY LenProperties, ElementOfSeq DEF TypeOK
  <2>2. Len(graph.ops) \in Nat
    <3>1. graph.ops \in Seq(PlainOp)
      BY GraphsAssumption DEF TypeOK, IsBaseGraph
    <3> QED  BY <3>1, LenProperties
  <2>3. /\ p \in DOMAIN Patterns /\ k + length - 1 <= Len(new_ops) /\ IsConnectedChain(window)
        /\ \A m \in DOMAIN Patterns[p].kinds : window[m].kind = Patterns[p].kinds[m]
    BY DEF Matches
  <2>4. /\ length \in Nat /\ DOMAIN Patterns[p].kinds = 1..length
        /\ \A m \in 1..length : Patterns[p].kinds[m] \in Kind
    BY <2>3, PatternsAssumption, LenProperties, ElementOfSeq
  <2>5. length > 0
    <3> SUFFICES ASSUME length = 0 PROVE FALSE
      BY <2>4
    <3>1. k \in Int /\ k + length - 1 \in Int /\ k + length - 1 < k
      BY <2>1
    <3>2. window = <<>>
      BY <3>1, SubSeqEmpty
    <3>3. Len(window) = 0
      BY <3>2, EmptySeq
    <3> HIDE DEF window
    <3> QED  BY <2>3, <3>3 DEF IsConnectedChain
  <2> HIDE DEF length
  <2>6. /\ window \in Seq(PlainOp \cup FusedOp) /\ Len(window) = length
        /\ \A m \in 1..length : window[m] = new_ops[k + m - 1]
    <3>1. \A m \in k..(k + length - 1) : new_ops[m] \in PlainOp \cup FusedOp
      BY <2>1, <2>3, <2>4, ElementOfSeq
    <3>2. k \in Int /\ k + length - 1 \in Int /\ k <= k + length - 1 /\ (k + length - 1) - k + 1 = length
      BY <2>1, <2>4, <2>5
    <3> QED  BY <3>1, <3>2, SubSeqProperties
  <2> HIDE DEF window
  <2>7. ASSUME NEW m \in k..(k + length - 1)
        PROVE  m \in 1..Len(new_ops) /\ new_ops[m].kind # "fused"
    <3>1. m \in 1..Len(new_ops) /\ (m - k + 1) \in 1..length /\ k + (m - k + 1) - 1 = m
      BY <2>1, <2>3, <2>4
    <3>2. new_ops[m].kind = Patterns[p].kinds[m - k + 1]
      BY <2>3, <2>4, <2>6, <3>1
    <3> QED  BY <2>4, <3>1, <3>2, FusedIsNoKind
  <2>8. ASSUME NEW m \in 1..length
        PROVE  /\ start + m - 1 = starts[k + m - 1]
               /\ graph.ops[start + m - 1] = new_ops[k + m - 1]
    <3>1. k + m - 1 \in k..(k + length - 1) /\ k <= k + m - 1 /\ k \in 1..Len(new_ops)
      BY <2>1, <2>4
    <3>2. k + m - 1 \in DOMAIN new_ops /\ new_ops[k + m - 1].kind # "fused"
      BY <2>1, <2>7, <3>1
    <3>3. \A l \in k..(k + m - 1) : l \in k..(k + length - 1)
      BY <2>1, <2>4
    <3>4. starts[k + m - 1] = start + ((k + m - 1) - k)
      BY <2>7, <3>1, <3>2, <3>3 DEF KeptInARow
    <3>5. start \in Int
      BY <2>1, <3>1
    <3>6. start + m - 1 = starts[k + m - 1]
      BY <2>1, <3>4, <3>5
    <3>7. graph.ops[starts[k + m - 1]] = new_ops[k + m - 1]
      BY <3>2 DEF KeptInARow
    <3> QED  BY <3>6, <3>7
  <2>9. start \in 1..Len(graph.ops) /\ start + length - 1 <= Len(graph.ops)
    <3>1. length \in 1..length /\ k + length - 1 \in 1..Len(new_ops)
      BY <2>1, <2>3, <2>4, <2>5
    <3>2. starts[k + length - 1] \in 1..Len(graph.ops)
      BY <2>1, <3>1
    <3>3. start + length - 1 = starts[k + length - 1]
      BY <2>8, <3>1
    <3> QED  BY <2>1, <2>2, <3>2, <3>3
  <2>10. SubSeq(graph.ops, start, start + length - 1) = window
    <3> DEFINE base == SubSeq(graph.ops, start, start + length - 1)
    <3> HIDE DEF start
    <3>1. \A m \in 1..length : window[m] \in PlainOp \cup FusedOp
      BY <2>6, ElementOfSeq
    <3>2. ASSUME NEW m \in start..(start + length - 1)
          PROVE  graph.ops[m] \in PlainOp \cup FusedOp
      <4>1. m - start + 1 \in 1..length /\ start + (m - start + 1) - 1 = m
        BY <2>4, <2>9
      <4>2. graph.ops[m] = window[m - start + 1]
        BY <2>6, <2>8, <4>1
      <4> QED  BY <3>1, <4>1, <4>2
    <3>3. /\ start \in Int /\ start + length - 1 \in Int /\ start <= start + length - 1
          /\ (start + length - 1) - start + 1 = length
      BY <2>4, <2>5, <2>9
    <3>4. /\ base \in Seq(PlainOp \cup FusedOp) /\ Len(base) = length
          /\ \A m \in 1..length : base[m] = graph.ops[start + m - 1]
      BY <3>2, <3>3, SubSeqProperties
    <3> HIDE DEF base
    <3>5. base = window
      BY <2>6, <2>8, <3>4, SeqEqual
    <3> QED  BY <3>5 DEF base
  <2>11. p \in Matches(graph.ops, start)
    <3> HIDE DEF start
    <3> QED  BY <2>3, <2>9, <2>10 DEF Matches, length
  <2>12. Matches(graph.ops, start) = {}
    <3>1. k \in k..(k + length - 1)
      BY <2>1, <2>4, <2>5
    <3> QED  BY <2>7, <3>1 DEF KeptInARow
  <2> QED  BY <2>11, <2>12
<1> QED  BY <1>1, <1>2, <1>3, TypeCorrect, PTL DEF Spec
----------------------------------------------------------------------------
(***************************************************************************)
(* The cost-optimal strategy: the traffic model counts what it says, and   *)
(* the dynamic program finds the most that can be saved.                   *)
(***************************************************************************)
\* The fold of NumElements, as a function on the sets of positions.
IsProduct(iter, shape, S) ==
    iter = [s \in SUBSET S |-> IF s = {} THEN 1 ELSE iter[s \ {Max(s)}] * Dims[shape[Max(s)]]]

\* The fold of NumElements multiplies the last dimension in last.
LEMMA ProductStep ==
    ASSUME NEW S \in FinitePositions, NEW shape, NEW iter, IsProduct(iter, shape, S), NEW s \in SUBSET S
    PROVE  /\ s = {} => iter[s] = 1
           /\ s # {} => Max(s) \in s /\ iter[s] = iter[s \ {Max(s)}] * Dims[shape[Max(s)]]
<1>1. s # {} => Max(s) \in s
  BY PartOfPositions, LastPosition
<1> QED  BY <1>1 DEF IsProduct

\* Two such products agree wherever both are defined,
LEMMA ProductsAgree ==
    ASSUME NEW A \in FinitePositions, NEW B \in FinitePositions, NEW shape, NEW g, NEW h,
           IsProduct(g, shape, A), IsProduct(h, shape, B), NEW s \in SUBSET A, s \subseteq B
    PROVE  g[s] = h[s]
<1> DEFINE F == {k \in SUBSET A : k \subseteq B /\ g[k] # h[k]}
<1> SUFFICES ASSUME F # {} PROVE FALSE
  OBVIOUS
<1>1. PICK m \in F : \A k \in F : k \subseteq m => k = m
  <2>1. F \in SUBSET SUBSET A
    OBVIOUS
  <2> HIDE DEF F
  <2> QED  BY <2>1, PartOfPositions, LeastSet
<1>2. m \in SUBSET A /\ m \in SUBSET B /\ g[m] # h[m]
  OBVIOUS
<1>3. m # {}
  BY <1>2, ProductStep
<1>4. /\ Max(m) \in m
      /\ g[m] = g[m \ {Max(m)}] * Dims[shape[Max(m)]]
      /\ h[m] = h[m \ {Max(m)}] * Dims[shape[Max(m)]]
  <2> HIDE DEF F
  <2>1. Max(m) \in m /\ g[m] = g[m \ {Max(m)}] * Dims[shape[Max(m)]]
    BY <1>2, <1>3, ProductStep
  <2>2. h[m] = h[m \ {Max(m)}] * Dims[shape[Max(m)]]
    BY <1>2, <1>3, ProductStep
  <2> QED  BY <2>1, <2>2
<1>5. g[m \ {Max(m)}] = h[m \ {Max(m)}]
  BY <1>1, <1>4
<1> QED  BY <1>2, <1>4, <1>5

\* and there is one for every list of dimensions.
LEMMA ProductExists ==
    ASSUME NEW S \in FinitePositions, NEW shape
    PROVE  \E iter : IsProduct(iter, shape, S)
<1> DEFINE F == {k \in SUBSET S : ~ \E iter : IsProduct(iter, shape, k)}
<1> SUFFICES ASSUME F # {} PROVE FALSE
  OBVIOUS
<1>1. PICK m \in F : \A k \in F : k \subseteq m => k = m
  <2>1. F \in SUBSET SUBSET S
    OBVIOUS
  <2> HIDE DEF F
  <2> QED  BY <2>1, PartOfPositions, LeastSet
<1>2. ASSUME NEW k \in SUBSET m, k # m
      PROVE  IsProduct(CHOOSE iter : IsProduct(iter, shape, k), shape, k)
  BY <1>1, <1>2
<1> DEFINE product(k) == CHOOSE iter : IsProduct(iter, shape, k)
           rest(k) == k \ {Max(k)}
           whole == [k \in SUBSET m |->
                       IF k = m THEN IF m = {} THEN 1 ELSE product(rest(m))[rest(m)] * Dims[shape[Max(m)]]
                       ELSE product(k)[k]]
<1>3. \A k \in SUBSET m : k \in FinitePositions /\ (k # {} => Max(k) \in k)
  BY PartOfPositions, LastPosition
<1>4. ASSUME NEW k \in SUBSET m
      PROVE  whole[k] = IF k = {} THEN 1 ELSE whole[rest(k)] * Dims[shape[Max(k)]]
  <2>1. CASE k = m
    <3>1. k # {} => rest(k) # m /\ rest(k) \in SUBSET m
      BY <1>3, <2>1
    <3> HIDE DEF product
    <3> QED  BY <2>1, <3>1
  <2>2. CASE k # m
    <3>1. whole[k] = product(k)[k]
      BY <2>2
    <3>2. IsProduct(product(k), shape, k)
      BY <1>2, <2>2
    <3>3. CASE k = {}
      <4> HIDE DEF product, whole
      <4> QED BY <1>3, <3>1, <3>2, <3>3, ProductStep
    <3>4. CASE k # {}
      <4> DEFINE j == rest(k)
      <4>1. j \in SUBSET m /\ j # m /\ j \in SUBSET k
        BY <1>3, <2>2, <3>4
      <4>2. whole[j] = product(j)[j]
        BY <4>1
      <4>3. IsProduct(product(j), shape, j)
        BY <1>2, <4>1
      <4> HIDE DEF product, whole
      <4>4. product(k)[k] = product(k)[j] * Dims[shape[Max(k)]]
        <5>1. k \in SUBSET k
          OBVIOUS
        <5> QED  BY <1>3, <3>2, <3>4, <5>1, ProductStep
      <4>5. product(k)[j] = product(j)[j]
        <5> HIDE DEF j
        <5>1. j \subseteq j
          OBVIOUS
        <5>2. k \in FinitePositions /\ j \in FinitePositions
          BY <1>3, <4>1
        <5> QED  BY <3>2, <4>1, <4>3, <5>1, <5>2, ProductsAgree
      <4> QED  BY <3>1, <3>4, <4>2, <4>4, <4>5
    <3> QED  BY <3>3, <3>4
  <2> QED  BY <2>1, <2>2
<1>5. whole = [k \in SUBSET m |-> whole[k]]
  OBVIOUS
<1>6. IsProduct(whole, shape, m)
  <2> HIDE DEF whole
  <2> QED  BY <1>4, <1>5 DEF IsProduct
<1> QED  BY <1>6

\* num_elements is the product of natural numbers.
LEMMA NumElementsIsNat ==
    ASSUME NEW shape \in Seq(DOMAIN Dims)
    PROVE  NumElements(shape) \in Nat
<1> DEFINE S == DOMAIN shape
           iter == CHOOSE it : it = [s \in SUBSET S |-> IF s = {} THEN 1 ELSE it[s \ {Max(s)}] * Dims[shape[Max(s)]]]
<1>1. S = 1..Len(shape) /\ Len(shape) \in Nat /\ \A x \in S : Dims[shape[x]] \in Nat
  BY LenProperties, ElementOfSeq, DimsAssumption
<1>2. S \in FinitePositions
  BY <1>1, PositionsCounted DEF FinitePositions
<1>3. IsProduct(iter, shape, S)
  <2>1. PICK some : IsProduct(some, shape, S)
    <3> HIDE DEF S
    <3> QED  BY <1>2, ProductExists
  <2> QED  BY <2>1 DEF IsProduct
<1>4. NumElements(shape) = iter[S]
  BY DEF NumElements, FoldLeft, MapThenFoldSet
<1> HIDE DEF S, iter
<1> DEFINE F == {k \in SUBSET S : iter[k] \notin Nat}
<1>5. CASE F # {}
  <2>1. PICK m \in F : \A k \in F : k \subseteq m => k = m
    <3>1. F \in SUBSET SUBSET S
      OBVIOUS
    <3> HIDE DEF F
    <3> QED  BY <1>2, <1>5, <3>1, PartOfPositions, LeastSet
  <2>2. m \in SUBSET S /\ iter[m] \notin Nat
    BY <2>1
  <2>3. m # {} /\ Max(m) \in m /\ iter[m] = iter[m \ {Max(m)}] * Dims[shape[Max(m)]]
    <3>1. m # {}
      <4>1. m = {} => iter[m] = 1
        BY <1>2, <1>3, <2>2, ProductStep
      <4> QED  BY <2>2, <4>1
    <3> HIDE DEF F
    <3> QED  BY <1>2, <1>3, <2>2, <3>1, ProductStep
  <2>4. iter[m \ {Max(m)}] \in Nat
    BY <2>1, <2>3
  <2>5. Dims[shape[Max(m)]] \in Nat
    BY <1>1, <2>2, <2>3
  <2>6. \A a, b \in Nat : a * b \in Nat
    OBVIOUS
  <2> QED  BY <2>2, <2>3, <2>4, <2>5, <2>6
<1>6. CASE F = {}
  BY <1>4, <1>6
<1> QED  BY <1>5, <1>6

\* A declared tensor's size is a natural number.
LEMMA BytesAreNat ==
    ASSUME graph \in Graphs, NEW t \in DOMAIN graph.shapes
    PROVE  BytesOf(graph, t) \in Nat
<1>1. NumElements(graph.shapes[t]) \in Nat
  BY ShapesAssumption, NumElementsIsNat
<1> QED  BY <1>1 DEF BytesOf, DtypeBytes

\* What each output of a window saves.
SavedAtOf(window, g) == [at \in DOMAIN AllOutputs(window) |-> SavedAt(window, g, at[1], at[2])]

\* The sum of _group_traffic_saved is a total.
LEMMA TrafficIsTotal ==
    ASSUME NEW window \in Seq(PlainOp), NEW g
    PROVE  GroupTrafficSaved(window, g) = Total(SavedAtOf(window, g), DOMAIN AllOutputs(window))
<1> DEFINE P == DOMAIN AllOutputs(window)
           f == SavedAtOf(window, g)
           iter == CHOOSE it : it = [s \in SUBSET P |->
                      IF s = {} THEN 0
                      ELSE SavedAt(window, g, One(s)[1], One(s)[2]) + it[s \ {One(s)}]]
<1>1. IsFiniteSet(P)
  BY WindowMentions
<1>2. GroupTrafficSaved(window, g) = iter[P]
  BY DEF GroupTrafficSaved, MapThenSumSet, MapThenFoldSet, One
<1>3. \A s \in SUBSET P : s # {} => f[One(s)] = SavedAt(window, g, One(s)[1], One(s)[2])
  BY DEF One, SavedAtOf
<1> HIDE DEF P, f
<1>4. PICK some : IsTally(some, f, P)
  BY <1>1, TallyExists
<1>5. some = [s \in SUBSET P |->
                 IF s = {} THEN 0
                 ELSE SavedAt(window, g, One(s)[1], One(s)[2]) + some[s \ {One(s)}]]
  BY <1>3, <1>4 DEF IsTally
<1>6. iter = [s \in SUBSET P |->
                 IF s = {} THEN 0
                 ELSE SavedAt(window, g, One(s)[1], One(s)[2]) + iter[s \ {One(s)}]]
  BY <1>5
<1> HIDE DEF iter
<1>7. IsTally(iter, f, P)
  BY <1>3, <1>6 DEF IsTally
<1>8. Total(f, P) = iter[P]
  BY <1>1, <1>7, TallyTotals
<1> QED  BY <1>2, <1>8 DEF P, f

\* Where a matching window stands.
LEMMA WindowAt ==
    ASSUME GraphAccepted, NEW k \in DOMAIN graph.ops, NEW p \in Matches(graph.ops, k)
    PROVE  /\ graph.ops \in Seq(PlainOp) /\ graph.ops \in Seq(Range(graph.ops))
           /\ Len(graph.ops) \in Nat /\ DOMAIN graph.ops = 1..Len(graph.ops)
           /\ Length(p) \in Nat \ {0}
           /\ k + Length(p) \in (k + 1)..(Len(graph.ops) + 1)
           /\ Window(k, p) \in Seq(PlainOp) /\ Len(Window(k, p)) = Length(p)
           /\ Window(k, p) = SubSeq(graph.ops, k, (k + Length(p)) - 1)
           /\ p \in DOMAIN Patterns /\ p # NoChoice
<1>1. graph.ops \in Seq(PlainOp)
  BY GraphsAssumption DEF GraphAccepted, IsBaseGraph
<1>2. Len(graph.ops) \in Nat /\ DOMAIN graph.ops = 1..Len(graph.ops)
  BY <1>1, LenProperties
<1>3. /\ Length(p) \in Nat \ {0} /\ k + Length(p) - 1 <= Len(graph.ops)
      /\ Window(k, p) \in Seq(PlainOp) /\ Len(Window(k, p)) = Length(p)
  BY <1>1, <1>2, MatchProperties DEF Length, Window
<1>4. k + Length(p) \in (k + 1)..(Len(graph.ops) + 1) /\ (k + Length(p)) - 1 = k + Length(p) - 1
  BY <1>2, <1>3
<1>5. p \in DOMAIN Patterns /\ p # NoChoice
  <2>1. p \in DOMAIN Patterns
    BY DEF Matches
  <2>2. DOMAIN Patterns = 1..Len(Patterns) /\ Len(Patterns) \in Nat
    BY PatternsAssumption, LenProperties
  <2> QED  BY <2>1, <2>2 DEF NoChoice
<1> QED  BY <1>1, <1>2, <1>3, <1>4, <1>5, OwnRange DEF Window

\* A window's tensors have declared shapes,
LEMMA WindowTensorsDeclared ==
    ASSUME GraphAccepted, NEW k \in DOMAIN graph.ops, NEW p \in Matches(graph.ops, k),
           NEW t \in WrittenBy(Window(k, p))
    PROVE  t \in DOMAIN graph.shapes
<1>1. /\ graph.ops \in Seq(Range(graph.ops)) /\ Window(k, p) = SubSeq(graph.ops, k, (k + Length(p)) - 1)
      /\ k + Length(p) \in (k + 1)..(Len(graph.ops) + 1) /\ Len(graph.ops) \in Nat
      /\ DOMAIN graph.ops = 1..Len(graph.ops)
  BY WindowAt
<1>2. k \in 1..(Len(graph.ops) + 1) /\ k + Length(p) \in 1..(Len(graph.ops) + 1) /\ k <= k + Length(p)
  BY <1>1
<1> DEFINE j == k + Length(p)
<1> HIDE DEF j
<1>3. t \in WrittenBy(SubSeq(graph.ops, k, j - 1)) /\ j \in 1..(Len(graph.ops) + 1) /\ k <= j
  BY <1>1, <1>2 DEF j
<1>4. PICK m \in DOMAIN graph.ops : t \in Range(graph.ops[m].outputs)
  BY <1>1, <1>2, <1>3, WindowTensors
<1> QED  BY <1>4, VerifiedGives DEF GraphAccepted

\* so each of its outputs saves a natural number of bytes,
LEMMA SavedAtIsNat ==
    ASSUME GraphAccepted, NEW k \in DOMAIN graph.ops, NEW p \in Matches(graph.ops, k),
           NEW at \in DOMAIN AllOutputs(Window(k, p))
    PROVE  SavedAt(Window(k, p), graph, at[1], at[2]) \in Nat
<1> DEFINE window == Window(k, p)
           t == window[at[1]].outputs[at[2]]
<1>1. t = AllOutputs(window)[at]
  BY DEF AllOutputs
<1>2. t \in WrittenBy(window)
  <2>1. Range(AllOutputs(window)) = WrittenBy(window)
    BY WindowAt, WindowMentions
  <2> QED  BY <1>1, <2>1 DEF Range
<1>3. BytesOf(graph, t) \in Nat
  BY <1>2, WindowTensorsDeclared, BytesAreNat DEF GraphAccepted
<1> DEFINE b == BytesOf(graph, t)
<1>4. 2 * b \in Nat /\ 1 * b \in Nat /\ 0 \in Nat
  <2> HIDE DEF b
  <2>1. b \in Nat
    BY <1>3 DEF b
  <2> QED  BY <2>1
<1> QED  BY <1>4 DEF SavedAt

\* and so does the window.
LEMMA SavedByIsNat ==
    ASSUME GraphAccepted, NEW k \in DOMAIN graph.ops, NEW p \in Matches(graph.ops, k)
    PROVE  SavedBy(k, p) \in Nat
<1> DEFINE window == Window(k, p)
           P == DOMAIN AllOutputs(window)
<1>1. window \in Seq(PlainOp) /\ IsFiniteSet(P)
  BY WindowAt, WindowMentions
<1>2. \A at \in P : SavedAtOf(window, graph)[at] \in Nat
  BY SavedAtIsNat DEF SavedAtOf
<1>3. Total(SavedAtOf(window, graph), P) \in Nat
  <2> HIDE DEF P
  <2> QED  BY <1>1, <1>2, TotalIsNat
<1> QED  BY <1>1, <1>3, TrafficIsTotal DEF SavedBy

\* What the entry of a scored position says: it bounds what leaving the op
\* unfused or fusing a window there can save, and the choice attains it.
EntryRight(k) ==
    /\ best[k] >= best[k + 1]
    /\ \A p \in Matches(graph.ops, k) : best[k] >= SavedBy(k, p) + best[k + Length(p)]
    /\ choice[k] = NoChoice => best[k] = best[k + 1]
    /\ choice[k] # NoChoice =>
          /\ choice[k] \in Matches(graph.ops, k)
          /\ best[k] = SavedBy(k, choice[k]) + best[k + Length(choice[k])]

\* The inductive invariant of the dynamic program.
TableRight ==
    /\ dp_i \in 0..Len(graph.ops)
    /\ best \in [1..(Len(graph.ops) + 1) -> Nat]
    /\ best[Len(graph.ops) + 1] = 0
    /\ Scoring => i = 1 /\ new_ops = <<>>
    /\ \A k \in (dp_i + 1)..Len(graph.ops) : EntryRight(k)

\* The positions of the base graph.
LEMMA AcceptedOps ==
    ASSUME GraphAccepted
    PROVE  Len(graph.ops) \in Nat /\ DOMAIN graph.ops = 1..Len(graph.ops)
<1>1. graph.ops \in Seq(PlainOp)
  BY GraphsAssumption DEF GraphAccepted, IsBaseGraph
<1> QED  BY <1>1, LenProperties

\* A step of the dynamic program computes a right entry and disturbs no other.
LEMMA SettleKeepsTable ==
    ASSUME GraphAccepted, ChoicesMatch, TableRight, Scoring, NEW bytes \in Nat, NEW p, Settle(bytes, p),
           bytes >= best[dp_i + 1], \A q \in Matches(graph.ops, dp_i) : bytes >= Candidate(q),
           p = NoChoice => bytes = best[dp_i + 1],
           p # NoChoice => p \in Matches(graph.ops, dp_i) /\ bytes = Candidate(p)
    PROVE  TableRight'
<1> DEFINE n == Len(graph.ops)
<1>1. n \in Nat /\ DOMAIN graph.ops = 1..n
  BY AcceptedOps
<1>2. /\ graph' = graph /\ i' = i /\ new_ops' = new_ops /\ dp_i' = dp_i - 1
      /\ best' = [best EXCEPT ![dp_i] = bytes] /\ choice' = [choice EXCEPT ![dp_i] = p]
  BY DEF Settle, vars
<1>3. /\ dp_i \in 1..n /\ best \in [1..(n + 1) -> Nat] /\ best[n + 1] = 0
      /\ i = 1 /\ new_ops = <<>>
      /\ \A k \in (dp_i + 1)..n : EntryRight(k)
  BY <1>1 DEF TableRight, Scoring
<1>4. \A k, q : SavedBy(k, q)' = SavedBy(k, q)
  BY <1>2 DEF SavedBy, Window
<1>5. /\ best' \in [1..(n + 1) -> Nat]
      /\ best'[dp_i] = bytes
      /\ \A k \in 1..(n + 1) : k # dp_i => best'[k] = best[k]
  BY <1>1, <1>2, <1>3
<1>6. /\ choice'[dp_i] = p
      /\ \A k \in 1..n : k # dp_i => choice'[k] = choice[k]
  BY <1>1, <1>2, <1>3 DEF ChoicesMatch
<1>7. best'[n + 1] = 0
  BY <1>1, <1>3, <1>5, SMTT(30)
<1>8. ASSUME NEW k \in 1..n, k >= dp_i, NEW q \in Matches(graph.ops, k)
      PROVE  best'[k + Length(q)] = best[k + Length(q)]
  <2>1. k + Length(q) \in (k + 1)..(n + 1)
    BY <1>1, WindowAt
  <2> DEFINE j == k + Length(q)
  <2> HIDE DEF j
  <2>2. j \in 1..(n + 1) /\ j # dp_i
    BY <1>1, <1>3, <1>8, <2>1 DEF j
  <2>3. best'[j] = best[j]
    BY <1>5, <2>2
  <2> QED  BY <2>3 DEF j
<1> HIDE DEF n
<1>9. ASSUME NEW k \in dp_i..n
      PROVE  EntryRight(k)'
  <2>1. k \in 1..n /\ k >= dp_i /\ k + 1 \in 1..(n + 1) /\ k + 1 # dp_i
    BY <1>1, <1>3
  <2>2. best'[k + 1] = best[k + 1]
    BY <1>5, <2>1
  <2>3. CASE k = dp_i
    <3>1. best'[k] = bytes /\ choice'[k] = p
      BY <1>5, <1>6, <2>3
    <3>2. \A q \in Matches(graph.ops, k) :
             /\ best'[k + Length(q)] = best[k + Length(q)]
             /\ Candidate(q) = SavedBy(k, q) + best[k + Length(q)]
      BY <1>8, <2>1, <2>3 DEF Candidate
    <3>3. \A q \in Matches(graph.ops, k) : bytes >= SavedBy(k, q) + best'[k + Length(q)]
      BY <2>3, <3>2
    <3>4. p # NoChoice => p \in Matches(graph.ops, k) /\ bytes = SavedBy(k, p) + best'[k + Length(p)]
      BY <2>3, <3>2
    <3>5. bytes >= best'[k + 1] /\ (p = NoChoice => bytes = best'[k + 1])
      BY <2>2, <2>3
    <3> QED  BY <1>2, <1>4, <3>1, <3>3, <3>4, <3>5 DEF EntryRight
  <2>4. CASE k # dp_i
    <3>1. EntryRight(k) /\ best'[k] = best[k] /\ choice'[k] = choice[k]
      <4>1. k \in (dp_i + 1)..n /\ k \in 1..(n + 1)
        BY <1>1, <1>3, <2>4
      <4> QED  BY <1>3, <1>5, <1>6, <2>1, <2>4, <4>1
    <3>2. \A q \in Matches(graph.ops, k) : best'[k + Length(q)] = best[k + Length(q)]
      BY <1>8, <2>1
    <3>3. \A q \in Matches(graph.ops, k) : best[k] >= SavedBy(k, q) + best'[k + Length(q)]
      BY <3>1, <3>2 DEF EntryRight
    <3>4. choice[k] # NoChoice =>
             choice[k] \in Matches(graph.ops, k)
                 /\ best[k] = SavedBy(k, choice[k]) + best'[k + Length(choice[k])]
      BY <3>1, <3>2 DEF EntryRight
    <3>5. best[k] >= best'[k + 1] /\ (choice[k] = NoChoice => best[k] = best'[k + 1])
      BY <2>2, <3>1 DEF EntryRight
    <3> QED  BY <1>2, <1>4, <3>1, <3>3, <3>4, <3>5 DEF EntryRight
  <2> QED  BY <2>3, <2>4
<1>10. dp_i' \in 0..n /\ (dp_i' + 1)..n = dp_i..n
  BY <1>1, <1>2, <1>3
<1>11. TableRight' <=> /\ dp_i' \in 0..n /\ best' \in [1..(n + 1) -> Nat] /\ best'[n + 1] = 0
                       /\ (Scoring' => i' = 1 /\ new_ops' = <<>>)
                       /\ \A k \in (dp_i' + 1)..n : EntryRight(k)'
  BY <1>2 DEF TableRight, n
<1> QED  BY <1>2, <1>3, <1>5, <1>7, <1>9, <1>10, <1>11

\* Every step keeps the table right.
LEMMA OptimalTable ==
    ASSUME GraphAccepted, TypeOK, ChoicesMatch, TableRight, [OptimalNext]_optimalVars
    PROVE  TableRight'
<1> DEFINE n == Len(graph.ops)
<1>1. n \in Nat /\ DOMAIN graph.ops = 1..n
  BY AcceptedOps
<1>2. ASSUME Scoring, NEW q \in Matches(graph.ops, dp_i)
      PROVE  Candidate(q) \in Nat
  <2>1. dp_i \in DOMAIN graph.ops
    BY <1>1, <1>2 DEF TableRight, Scoring
  <2>2. SavedBy(dp_i, q) \in Nat
    BY <1>2, <2>1, SavedByIsNat
  <2>3. dp_i + Length(q) \in (dp_i + 1)..(n + 1)
    BY <1>2, <2>1, WindowAt
  <2>4. dp_i + Length(q) \in 1..(n + 1)
    BY <1>1, <2>1, <2>3
  <2>5. best[dp_i + Length(q)] \in Nat
    BY <2>4 DEF TableRight
  <2> QED  BY <2>2, <2>5 DEF Candidate
<1>3. Scoring => best[dp_i + 1] \in Nat
  <2>1. Scoring => dp_i + 1 \in 1..(n + 1)
    BY <1>1 DEF TableRight, Scoring
  <2> QED  BY <2>1 DEF TableRight
<1>4. CASE LeaveUnfused
  <2>1. Scoring /\ Settle(best[dp_i + 1], NoChoice)
        /\ \A q \in Matches(graph.ops, dp_i) : best[dp_i + 1] >= Candidate(q)
    BY <1>2, <1>3, <1>4 DEF LeaveUnfused, NothingGained
  <2>2. best[dp_i + 1] >= best[dp_i + 1]
    BY <1>3, <2>1
  <2> QED  BY <1>3, <2>1, <2>2, SettleKeepsTable
<1>5. CASE \E p \in DOMAIN Patterns : ChooseWindow(p)
  <2>1. PICK p \in DOMAIN Patterns : ChooseWindow(p)
    BY <1>5
  <2>2. /\ Scoring /\ p \in Matches(graph.ops, dp_i) /\ Settle(Candidate(p), p)
        /\ Candidate(p) \in Nat /\ Candidate(p) >= best[dp_i + 1]
        /\ \A q \in Matches(graph.ops, dp_i) : Candidate(p) >= Candidate(q)
    BY <1>2, <1>3, <2>1 DEF ChooseWindow
  <2>3. p # NoChoice
    <3>1. dp_i \in DOMAIN graph.ops
      BY <1>1, <2>2 DEF TableRight, Scoring
    <3> QED  BY <2>2, <3>1, WindowAt
  <2> QED  BY <2>2, <2>3, SettleKeepsTable
<1>6. CASE KeepUnfused \/ FuseChosen \/ UNCHANGED optimalVars
  <2>1. graph' = graph /\ UNCHANGED dpVars
    BY <1>6 DEF KeepUnfused, FuseChosen, KeepAndCount, FuseAndJump, optimalVars, vars
  <2>2. Scoring' => i' = i /\ new_ops' = new_ops /\ Scoring
    BY <1>6, <2>1 DEF KeepUnfused, FuseChosen, Selecting, Scoring, optimalVars, vars, dpVars
  <2>3. \A k, q : SavedBy(k, q)' = SavedBy(k, q)
    BY <2>1 DEF SavedBy, Window
  <2>4. \A k : EntryRight(k)' <=> EntryRight(k)
    BY <2>1, <2>3 DEF EntryRight, dpVars
  <2> QED  BY <2>1, <2>2, <2>4 DEF TableRight, dpVars
<1>7. CASE OptimalTerminated
  BY <1>6, <1>7 DEF OptimalTerminated
<1> QED  BY <1>4, <1>5, <1>6, <1>7 DEF OptimalNext, Score

\* Before anything is scored, only the entry after the last op counts.
LEMMA OptimalInitTable == OptimalInit => TableRight
<1> SUFFICES ASSUME OptimalInit PROVE TableRight
  OBVIOUS
<1>1. GraphAccepted
  BY DEF OptimalInit, Init, GraphAccepted
<1>2. Len(graph.ops) \in Nat
  BY <1>1, AcceptedOps
<1>3. (Len(graph.ops) + 1)..Len(graph.ops) = {} /\ Len(graph.ops) + 1 \in 1..(Len(graph.ops) + 1)
  BY <1>2
<1> QED  BY <1>2, <1>3 DEF OptimalInit, Init, TableRight

\* What the dynamic program keeps, together with what every scan keeps.
LEMMA TableStaysRight == OptimalSpec => [](GraphAccepted /\ TypeOK /\ ChoicesMatch /\ TableRight)
<1>1. OptimalSpec => []GraphAccepted
  BY OptimalScans, GraphStaysAccepted, PTL
<1>2. OptimalSpec => []TypeOK
  BY OptimalScans, ScanTypeCorrect, PTL
<1>3. OptimalSpec => []ChoicesMatch
  BY OptimalScans, PTL
<1> QED  BY <1>1, <1>2, <1>3, OptimalInitTable, OptimalTable, PTL DEF OptimalSpec

\* The type invariant of run_cost_optimal: every choice is a match where it is
\* to be fused, for every graph, list of patterns and size of the dimensions.
THEOREM SelectionTyped == OptimalSpec => []SelectionTypeOK
<1>1. GraphAccepted /\ TypeOK /\ ChoicesMatch /\ TableRight => SelectionTypeOK
  BY DEF TypeOK, ChoicesMatch, TableRight, EntryRight, SelectionTypeOK
<1> QED  BY <1>1, TableStaysRight, PTL

\* The windows from a position on, what each saves, and when two do not
\* overlap.
WindowsFrom(k) == UNION {{j} \X Matches(graph.ops, j) : j \in k..Len(graph.ops)}
Savings == [a \in WindowsFrom(1) |-> SavedBy(a[1], a[2])]
Apart(a, b) == a[1] + Length(a[2]) <= b[1] \/ b[1] + Length(b[2]) <= a[1]

\* A selection is a set of windows apart from one another.
LEMMA SelectionsAre ==
    ASSUME NEW k, NEW S
    PROVE  S \in Selections(k) <=> S \in SUBSET WindowsFrom(k) /\ \A a, b \in S : a # b => Apart(a, b)
BY DEF Selections, WindowsFrom, Apart

\* A window to choose from: where it starts, and the pattern it matches.
LEMMA WindowOf ==
    ASSUME GraphAccepted, NEW k \in 1..(Len(graph.ops) + 1), NEW a
    PROVE  a \in WindowsFrom(k) <=>
              a = <<a[1], a[2]>> /\ a[1] \in k..Len(graph.ops) /\ a[2] \in Matches(graph.ops, a[1])
BY DEF WindowsFrom

\* Its place and its savings.
LEMMA WindowSaves ==
    ASSUME GraphAccepted, NEW a \in WindowsFrom(1)
    PROVE  /\ a[1] \in Int /\ a[1] \in 1..Len(graph.ops) /\ Length(a[2]) \in Nat \ {0}
           /\ a[1] + Length(a[2]) \in (a[1] + 1)..(Len(graph.ops) + 1)
           /\ Savings[a] = SavedBy(a[1], a[2]) /\ Savings[a] \in Nat
<1>1. Len(graph.ops) \in Nat /\ DOMAIN graph.ops = 1..Len(graph.ops)
  BY AcceptedOps
<1>2. 1 \in 1..(Len(graph.ops) + 1)
  BY <1>1
<1>3. a[1] \in 1..Len(graph.ops) /\ a[2] \in Matches(graph.ops, a[1])
  BY <1>2, WindowOf
<1>4. Length(a[2]) \in Nat \ {0} /\ a[1] + Length(a[2]) \in (a[1] + 1)..(Len(graph.ops) + 1)
  BY <1>1, <1>3, WindowAt
<1>5. SavedBy(a[1], a[2]) \in Nat
  BY <1>1, <1>3, SavedByIsNat
<1> QED  BY <1>3, <1>4, <1>5 DEF Savings

\* There are finitely many.
LEMMA WindowsAreFinite ==
    ASSUME GraphAccepted, NEW k \in 1..(Len(graph.ops) + 1)
    PROVE  WindowsFrom(k) \subseteq WindowsFrom(1) /\ \A S \in SUBSET WindowsFrom(k) : IsFiniteSet(S)
<1>1. Len(graph.ops) \in Nat /\ DOMAIN graph.ops = 1..Len(graph.ops)
  BY AcceptedOps
<1>2. 1 \in 1..(Len(graph.ops) + 1) /\ k..Len(graph.ops) \subseteq 1..Len(graph.ops)
  BY <1>1
<1>3. WindowsFrom(k) \subseteq WindowsFrom(1)
  BY <1>2 DEF WindowsFrom
<1>4. DOMAIN Patterns = 1..Len(Patterns) /\ Len(Patterns) \in Nat
  BY PatternsAssumption, LenProperties
<1>5. IsFiniteSet(DOMAIN Patterns) /\ IsFiniteSet(DOMAIN graph.ops)
  BY <1>1, <1>4, PositionsCounted
<1>6. IsFiniteSet((DOMAIN graph.ops) \X DOMAIN Patterns)
  BY <1>5, FS_Product
<1>7. WindowsFrom(1) \subseteq (DOMAIN graph.ops) \X DOMAIN Patterns
  BY <1>1 DEF WindowsFrom, Matches
<1> QED  BY <1>3, <1>6, <1>7, FS_Subset

\* What a selection saves is a total.
LEMMA SelectionIsTotal ==
    ASSUME GraphAccepted, NEW S \in SUBSET WindowsFrom(1)
    PROVE  TotalSaved(S) = Total(Savings, S)
<1> DEFINE iter == CHOOSE it : it = [s \in SUBSET S |->
                      IF s = {} THEN 0
                      ELSE SavedBy(One(s)[1], One(s)[2]) + it[s \ {One(s)}]]
<1>1. IsFiniteSet(S)
  <2>1. 1 \in 1..(Len(graph.ops) + 1)
    BY AcceptedOps
  <2> QED  BY <2>1, WindowsAreFinite
<1>2. TotalSaved(S) = iter[S]
  BY DEF TotalSaved, MapThenSumSet, MapThenFoldSet, One
<1>3. \A s \in SUBSET S : s # {} => Savings[One(s)] = SavedBy(One(s)[1], One(s)[2])
  BY DEF One, Savings
<1>4. PICK some : IsTally(some, Savings, S)
  BY <1>1, TallyExists
<1>5. some = [s \in SUBSET S |->
                 IF s = {} THEN 0
                 ELSE SavedBy(One(s)[1], One(s)[2]) + some[s \ {One(s)}]]
  BY <1>3, <1>4 DEF IsTally
<1>6. iter = [s \in SUBSET S |->
                 IF s = {} THEN 0
                 ELSE SavedBy(One(s)[1], One(s)[2]) + iter[s \ {One(s)}]]
  BY <1>5
<1> HIDE DEF iter
<1>7. IsTally(iter, Savings, S)
  BY <1>3, <1>6 DEF IsTally
<1>8. Total(Savings, S) = iter[S]
  BY <1>1, <1>7, TallyTotals
<1> QED  BY <1>2, <1>8

\* Selections from a position on: an empty one, one with a window there, or
\* one that starts later.
LEMMA NothingSelected ==
    ASSUME GraphAccepted, NEW k \in 1..(Len(graph.ops) + 1)
    PROVE  {} \in Selections(k)
BY SelectionsAre

\* Selections are finite, and save natural numbers of bytes.
LEMMA SelectionTotals ==
    ASSUME GraphAccepted, NEW k \in 1..(Len(graph.ops) + 1), NEW S \in Selections(k)
    PROVE  /\ S \in SUBSET WindowsFrom(k) /\ S \in SUBSET WindowsFrom(1) /\ IsFiniteSet(S)
           /\ TotalSaved(S) \in Nat /\ TotalSaved(S) = Total(Savings, S)
<1>1. S \in SUBSET WindowsFrom(k)
  BY SelectionsAre
<1>2. S \in SUBSET WindowsFrom(1) /\ IsFiniteSet(S)
  BY <1>1, WindowsAreFinite
<1>3. \A a \in S : Savings[a] \in Nat
  BY <1>2, WindowSaves
<1>4. Total(Savings, S) \in Nat
  BY <1>2, <1>3, TotalIsNat
<1> QED  BY <1>1, <1>2, <1>4, SelectionIsTotal

\* A selection from a position on leaves the op there unfused or fuses one
\* window there.
LEMMA SelectionSplit ==
    ASSUME GraphAccepted, NEW k \in 1..Len(graph.ops), NEW S \in Selections(k)
    PROVE  \/ S \in Selections(k + 1)
           \/ \E p \in Matches(graph.ops, k) : \E R \in Selections(k + Length(p)) :
                 TotalSaved(S) = SavedBy(k, p) + TotalSaved(R)
<1> DEFINE n == Len(graph.ops)
<1>1. n \in Nat /\ DOMAIN graph.ops = 1..n /\ k \in 1..(n + 1) /\ k + 1 \in 1..(n + 1) /\ 1 \in 1..(n + 1)
  BY AcceptedOps
<1>2. S \in SUBSET WindowsFrom(k) /\ \A a, b \in S : a # b => Apart(a, b)
  BY SelectionsAre
<1>3. CASE \A a \in S : a[1] # k
  <2>1. ASSUME NEW a \in S PROVE a \in WindowsFrom(k + 1)
    <3>1. a = <<a[1], a[2]>> /\ a[1] \in k..n /\ a[2] \in Matches(graph.ops, a[1])
      BY <1>1, <1>2, WindowOf
    <3>2. a[1] \in (k + 1)..n
      BY <1>1, <1>3, <3>1
    <3> QED  BY <1>1, <3>1, <3>2, WindowOf
  <2> QED  BY <1>2, <2>1, SelectionsAre
<1>4. CASE \E a \in S : a[1] = k
  <2>1. PICK a \in S : a[1] = k
    BY <1>4
  <2> DEFINE p == a[2]
             j == k + Length(p)
             R == S \ {a}
  <2>2. p \in Matches(graph.ops, k)
    BY <1>1, <1>2, <2>1, WindowOf
  <2>3. j \in (k + 1)..(n + 1) /\ j \in 1..(n + 1)
    <3>1. j \in (k + 1)..(n + 1)
      BY <1>1, <2>2, WindowAt
    <3> QED  BY <1>1, <3>1
  <2>4. ASSUME NEW b \in R PROVE b \in WindowsFrom(j)
    <3>1. b = <<b[1], b[2]>> /\ b[1] \in k..n /\ b[2] \in Matches(graph.ops, b[1]) /\ b \in WindowsFrom(1)
      <4>1. b \in WindowsFrom(k)
        BY <1>2
      <4> QED  BY <1>1, <4>1, WindowOf, WindowsAreFinite
    <3>2. Apart(a, b)
      BY <1>2, <2>1
    <3>3. j <= b[1] \/ b[1] + Length(b[2]) <= k
      BY <2>1, <3>2 DEF Apart
    <3>4. Length(b[2]) \in Nat \ {0}
      BY <3>1, WindowSaves
    <3>5. b[1] \in j..n
      <4> HIDE DEF j
      <4> QED  BY <1>1, <2>3, <3>1, <3>3, <3>4
    <3> QED  BY <2>3, <3>1, <3>5, WindowOf
  <2>5. R \in Selections(j)
    BY <1>2, <2>4, SelectionsAre
  <2>6. TotalSaved(S) = SavedBy(k, p) + TotalSaved(R)
    <3>1. S \in SUBSET WindowsFrom(1) /\ IsFiniteSet(S) /\ TotalSaved(S) = Total(Savings, S)
      BY <1>1, SelectionTotals
    <3>2. TotalSaved(R) = Total(Savings, R)
      BY <2>3, <2>5, SelectionTotals
    <3>3. \A b \in S : Savings[b] \in Int
      BY <3>1, WindowSaves
    <3>4. Total(Savings, S) = Savings[a] + Total(Savings, R)
      BY <2>1, <3>1, <3>3, TotalSplit
    <3>5. Savings[a] = SavedBy(k, p)
      BY <2>1, <3>1, WindowSaves
    <3> QED  BY <3>1, <3>2, <3>4, <3>5
  <2> QED  BY <2>2, <2>5, <2>6
<1> QED  BY <1>3, <1>4

\* And a window can be put in front of every selection that starts after it.
LEMMA SelectionWith ==
    ASSUME GraphAccepted, NEW k \in 1..Len(graph.ops), NEW p \in Matches(graph.ops, k),
           NEW R \in Selections(k + Length(p))
    PROVE  \E S \in Selections(k) : TotalSaved(S) = SavedBy(k, p) + TotalSaved(R)
<1> DEFINE n == Len(graph.ops)
           j == k + Length(p)
           a == <<k, p>>
           S == R \cup {a}
<1>1. n \in Nat /\ DOMAIN graph.ops = 1..n /\ k \in 1..(n + 1) /\ 1 \in 1..(n + 1) /\ k \in k..n
  BY AcceptedOps
<1>2. j \in (k + 1)..(n + 1) /\ j \in 1..(n + 1)
  <2>1. j \in (k + 1)..(n + 1)
    BY <1>1, WindowAt
  <2> QED  BY <1>1, <2>1
<1>3. a \in WindowsFrom(k) /\ a \in WindowsFrom(1)
  BY <1>1, WindowOf, WindowsAreFinite DEF WindowsFrom
<1>4. /\ R \in SUBSET WindowsFrom(j) /\ R \in SUBSET WindowsFrom(1) /\ IsFiniteSet(R)
      /\ TotalSaved(R) = Total(Savings, R)
  BY <1>2, SelectionTotals
<1>5. ASSUME NEW b \in R
      PROVE  b \in WindowsFrom(k) /\ b # a /\ Apart(a, b) /\ Apart(b, a)
  <2>1. b = <<b[1], b[2]>> /\ b[1] \in j..n /\ b[2] \in Matches(graph.ops, b[1])
    <3>1. b \in WindowsFrom(j)
      BY <1>4
    <3> HIDE DEF j
    <3> QED  BY <1>2, <3>1, WindowOf
  <2>2. b[1] \in k..n /\ b[1] # k /\ j <= b[1]
    <3> HIDE DEF j
    <3> QED  BY <1>1, <1>2, <2>1
  <2>3. b \in WindowsFrom(k) /\ b # a
    BY <1>1, <2>1, <2>2, WindowOf
  <2> QED  BY <2>2, <2>3 DEF Apart
<1>6. S \in Selections(k)
  <2>1. \A b, c \in R : b # c => Apart(b, c)
    BY SelectionsAre
  <2>2. S \in SUBSET WindowsFrom(k) /\ \A b, c \in S : b # c => Apart(b, c)
    <3> HIDE DEF j, a
    <3> QED  BY <1>3, <1>5, <2>1
  <2> QED  BY <2>2, SelectionsAre
<1>7. TotalSaved(S) = Total(Savings, S)
  <2> HIDE DEF S
  <2> QED  BY <1>1, <1>6, SelectionTotals
<1>8. Total(Savings, S) = Savings[a] + Total(Savings, R)
  <2>1. \A b \in R : Savings[b] \in Int
    BY <1>4, WindowSaves
  <2>2. Savings[a] \in Int
    BY <1>3, WindowSaves
  <2>3. a \notin R
    BY <1>5
  <2> HIDE DEF a, j
  <2> QED  BY <1>4, <2>1, <2>2, <2>3, TotalAdd
<1>9. Savings[a] = SavedBy(k, p)
  BY <1>3, WindowSaves
<1> QED  BY <1>4, <1>6, <1>7, <1>8, <1>9

\* What starts later starts from here on.
LEMMA LaterSelections ==
    ASSUME GraphAccepted, NEW k \in 1..Len(graph.ops)
    PROVE  Selections(k + 1) \subseteq Selections(k)
<1>1. Len(graph.ops) \in Nat
  BY AcceptedOps
<1>2. (k + 1)..Len(graph.ops) \subseteq k..Len(graph.ops)
  BY <1>1
<1>3. WindowsFrom(k + 1) \subseteq WindowsFrom(k)
  BY <1>2 DEF WindowsFrom
<1> QED  BY <1>3, SelectionsAre

\* best[k] is what the best selection from k on saves.
Optimal(k) ==
    /\ \A S \in Selections(k) : TotalSaved(S) <= best[k]
    /\ \E S \in Selections(k) : TotalSaved(S) = best[k]

\* After the last op nothing can be saved.
LEMMA OptimalAtEnd ==
    ASSUME GraphAccepted, TableRight
    PROVE  Optimal(Len(graph.ops) + 1)
<1> DEFINE n == Len(graph.ops)
<1>1. n \in Nat /\ n + 1 \in 1..(n + 1) /\ (n + 1)..n = {}
  BY AcceptedOps
<1>2. WindowsFrom(n + 1) = {}
  BY <1>1 DEF WindowsFrom
<1>3. Selections(n + 1) = {{}}
  BY <1>2, SelectionsAre
<1>4. TotalSaved({}) = 0
  <2>1. {} \in SUBSET WindowsFrom(1)
    OBVIOUS
  <2>2. TotalSaved({}) = Total(Savings, {})
    BY <2>1, SelectionIsTotal
  <2>3. Total(Savings, {}) = 0
    BY TotalEmpty
  <2> QED  BY <2>2, <2>3
<1>5. best[n + 1] = 0
  BY DEF TableRight
<1>6. \A S \in Selections(n + 1) : TotalSaved(S) = best[n + 1]
  BY <1>3, <1>4, <1>5
<1>7. \E S \in Selections(n + 1) : TotalSaved(S) = best[n + 1]
  BY <1>3, <1>4, <1>5
<1>8. best[n + 1] <= best[n + 1]
  BY <1>5
<1> QED  BY <1>6, <1>7, <1>8 DEF Optimal

\* An entry is optimal if those after it are.
LEMMA OptimalEarlier ==
    ASSUME GraphAccepted, TableRight, NEW k \in (dp_i + 1)..Len(graph.ops),
           \A j \in (k + 1)..(Len(graph.ops) + 1) : Optimal(j)
    PROVE  Optimal(k)
<1> DEFINE n == Len(graph.ops)
<1>1. n \in Nat /\ DOMAIN graph.ops = 1..n
  BY AcceptedOps
<1>2. k \in 1..n /\ k \in 1..(n + 1) /\ k + 1 \in (k + 1)..(n + 1) /\ k + 1 \in 1..(n + 1)
  BY <1>1 DEF TableRight
<1>3. EntryRight(k)
  BY DEF TableRight
<1>4. best[k] \in Nat /\ best[k + 1] \in Nat
  BY <1>2 DEF TableRight
<1>5. ASSUME NEW p \in Matches(graph.ops, k)
      PROVE  /\ k + Length(p) \in (k + 1)..(n + 1) /\ k + Length(p) \in 1..(n + 1)
             /\ SavedBy(k, p) \in Nat /\ best[k + Length(p)] \in Nat
  <2>1. k + Length(p) \in (k + 1)..(n + 1)
    BY <1>1, <1>2, WindowAt
  <2>2. k + Length(p) \in 1..(n + 1)
    BY <1>1, <1>2, <2>1
  <2> QED  BY <1>1, <1>2, <2>1, <2>2, SavedByIsNat DEF TableRight
<1>6. ASSUME NEW S \in Selections(k) PROVE TotalSaved(S) <= best[k]
  <2>0. TotalSaved(S) \in Nat
    BY <1>2, SelectionTotals
  <2>1. CASE S \in Selections(k + 1)
    <3>1. TotalSaved(S) <= best[k + 1] /\ best[k] >= best[k + 1]
      BY <1>2, <1>3, <2>1 DEF Optimal, EntryRight
    <3> QED  BY <1>4, <2>0, <3>1
  <2>2. CASE \E p \in Matches(graph.ops, k) : \E R \in Selections(k + Length(p)) :
                 TotalSaved(S) = SavedBy(k, p) + TotalSaved(R)
    <3>0. PICK p \in Matches(graph.ops, k) : \E R \in Selections(k + Length(p)) :
             TotalSaved(S) = SavedBy(k, p) + TotalSaved(R)
      BY <2>2
    <3>1. PICK R \in Selections(k + Length(p)) : TotalSaved(S) = SavedBy(k, p) + TotalSaved(R)
      BY <3>0
    <3>2. TotalSaved(R) <= best[k + Length(p)] /\ TotalSaved(R) \in Nat
      BY <1>5, <3>1, SelectionTotals DEF Optimal
    <3>3. best[k] >= SavedBy(k, p) + best[k + Length(p)]
      BY <1>3 DEF EntryRight
    <3>4. SavedBy(k, p) \in Nat /\ best[k + Length(p)] \in Nat
      BY <1>5
    <3> QED  BY <1>4, <3>1, <3>2, <3>3, <3>4
  <2> QED  BY <1>2, <2>1, <2>2, SelectionSplit
<1>7. \E S \in Selections(k) : TotalSaved(S) = best[k]
  <2>1. CASE choice[k] = NoChoice
    <3>1. best[k] = best[k + 1]
      BY <1>3, <2>1 DEF EntryRight
    <3>2. PICK S \in Selections(k + 1) : TotalSaved(S) = best[k + 1]
      BY <1>2 DEF Optimal
    <3> QED  BY <1>2, <3>1, <3>2, LaterSelections
  <2>2. CASE choice[k] # NoChoice
    <3>1. PICK p \in Matches(graph.ops, k) : best[k] = SavedBy(k, p) + best[k + Length(p)]
      BY <1>3, <2>2 DEF EntryRight
    <3>2. PICK R \in Selections(k + Length(p)) : TotalSaved(R) = best[k + Length(p)]
      BY <1>5 DEF Optimal
    <3> QED  BY <1>2, <3>1, <3>2, SelectionWith
  <2> QED  BY <2>1, <2>2
<1> QED  BY <1>6, <1>7 DEF Optimal

\* So every entry of a right table is optimal: a first one from the end that is
\* not cannot exist.
LEMMA TableIsOptimal ==
    ASSUME GraphAccepted, TableRight
    PROVE  \A k \in (dp_i + 1)..(Len(graph.ops) + 1) : Optimal(k)
<1> DEFINE n == Len(graph.ops)
           F == {k \in (dp_i + 1)..(n + 1) : ~ Optimal(k)}
<1> SUFFICES ASSUME F # {} PROVE FALSE
  OBVIOUS
<1>1. n \in Nat /\ dp_i \in 0..n
  BY AcceptedOps DEF TableRight
<1>2. F \in FinitePositions
  <2>1. IsFiniteSet(1..(n + 1)) /\ 1..(n + 1) \subseteq Int
    BY <1>1, PositionsCounted
  <2>2. F \subseteq 1..(n + 1)
    BY <1>1
  <2> HIDE DEF F
  <2> QED  BY <2>1, <2>2, FS_Subset DEF FinitePositions
<1>3. PICK k \in F : \A x \in F : x <= k
  <2> HIDE DEF F
  <2> QED  BY <1>2, LastPosition
<1>4. k \in (dp_i + 1)..(n + 1) /\ ~ Optimal(k)
  BY <1>3
<1>5. k # n + 1
  BY <1>4, OptimalAtEnd
<1>6. \A j \in (k + 1)..(n + 1) : Optimal(j)
  <2>1. ASSUME NEW j \in (k + 1)..(n + 1) PROVE j \in (dp_i + 1)..(n + 1) /\ ~ (j <= k)
    BY <1>1, <1>4
  <2> QED  BY <1>3, <2>1
<1>7. k \in (dp_i + 1)..n
  BY <1>1, <1>4, <1>5
<1> QED  BY <1>4, <1>6, <1>7, OptimalEarlier

\* "provably optimal": what run_cost_optimal computes is the most bytes that
\* any set of matching windows that do not overlap can save, for every graph,
\* list of patterns and size of the dimensions.
THEOREM BestIsBest == OptimalSpec => []BestIsOptimal
<1>1. GraphAccepted /\ TableRight => BestIsOptimal
  <2> SUFFICES ASSUME GraphAccepted, TableRight
               PROVE  best[dp_i + 1] = Max({TotalSaved(S) : S \in Selections(dp_i + 1)})
    BY DEF BestIsOptimal
  <2> DEFINE k == dp_i + 1
             totals == {TotalSaved(S) : S \in Selections(k)}
  <2>1. k \in 1..(Len(graph.ops) + 1) /\ k \in (dp_i + 1)..(Len(graph.ops) + 1)
    BY AcceptedOps DEF TableRight
  <2>2. Optimal(k)
    BY <2>1, TableIsOptimal
  <2> HIDE DEF k
  <2>3. best[k] \in totals /\ \A x \in totals : x <= best[k]
    BY <2>2 DEF Optimal
  <2>4. totals \subseteq Nat
    BY <2>1, SelectionTotals
  <2> HIDE DEF totals
  <2>5. Max(totals) \in totals /\ \A y \in totals : Max(totals) >= y
    <3>1. \E x \in totals : \A y \in totals : x >= y
      BY <2>3, <2>4
    <3> QED  BY <3>1 DEF Max
  <2>6. best[k] = Max(totals)
    <3>1. best[k] \in Nat /\ Max(totals) \in Nat /\ best[k] <= Max(totals) /\ Max(totals) <= best[k]
      BY <2>3, <2>4, <2>5
    <3> QED  BY <3>1
  <2> QED  BY <2>6 DEF k, totals
<1> QED  BY <1>1, TableStaysRight, PTL

\* The ops of a window, by their positions in the graph.
LEMMA WindowPlace ==
    ASSUME GraphAccepted, NEW k \in DOMAIN graph.ops, NEW p \in Matches(graph.ops, k)
    PROVE  /\ DOMAIN Window(k, p) = 1..Length(p)
           /\ \A m \in 1..Length(p) :
                 (k + m) - 1 \in DOMAIN graph.ops /\ Window(k, p)[m] = graph.ops[(k + m) - 1]
<1> DEFINE j == k + Length(p)
<1>1. /\ graph.ops \in Seq(Range(graph.ops)) /\ DOMAIN graph.ops = 1..Len(graph.ops) /\ Len(graph.ops) \in Nat
      /\ Length(p) \in Nat \ {0} /\ j \in (k + 1)..(Len(graph.ops) + 1)
      /\ Window(k, p) = SubSeq(graph.ops, k, j - 1)
  BY WindowAt
<1>2. k \in 1..(Len(graph.ops) + 1) /\ j \in 1..(Len(graph.ops) + 1) /\ k <= j /\ j - k = Length(p)
  BY <1>1
<1> HIDE DEF j
<1>3. /\ DOMAIN SubSeq(graph.ops, k, j - 1) = 1..Length(p)
      /\ \A m \in 1..Length(p) : k + m - 1 \in DOMAIN graph.ops
                                    /\ SubSeq(graph.ops, k, j - 1)[m] = graph.ops[k + m - 1]
  BY <1>1, <1>2, WindowOps
<1>4. \A m \in 1..Length(p) : k + m - 1 = (k + m) - 1
  BY <1>1, <1>2
<1> QED  BY <1>1, <1>3, <1>4

\* The readers of a tensor inside and outside a window.
ReadersIn(k, p, t) == {m \in 1..Length(p) : t \in Range(Window(k, p)[m].inputs)}
ReadersOut(k, p, t) ==
    {m \in DOMAIN graph.ops : m \notin k..(k + Length(p) - 1) /\ t \in Range(graph.ops[m].inputs)}

\* The readers of a tensor in the whole graph are those in a window and those
\* outside of it.
LEMMA ReadersCounted ==
    ASSUME GraphAccepted, NEW k \in DOMAIN graph.ops, NEW p \in Matches(graph.ops, k), NEW t
    PROVE  LET all == {m \in DOMAIN graph.ops : t \in Range(graph.ops[m].inputs)} IN
           /\ IsFiniteSet(ReadersIn(k, p, t)) /\ Cardinality(ReadersIn(k, p, t)) \in Nat
           /\ IsFiniteSet(ReadersOut(k, p, t)) /\ Cardinality(ReadersOut(k, p, t)) \in Nat
           /\ Cardinality(all) = Cardinality(ReadersIn(k, p, t)) + Cardinality(ReadersOut(k, p, t))
<1> DEFINE n == Len(graph.ops)
           L == Length(p)
           W == Window(k, p)
           all == {m \in DOMAIN graph.ops : t \in Range(graph.ops[m].inputs)}
           inside == {m \in DOMAIN graph.ops : m \in k..(k + L - 1) /\ t \in Range(graph.ops[m].inputs)}
           out == ReadersOut(k, p, t)
           within == ReadersIn(k, p, t)
           place == [m \in within |-> (k + m) - 1]
<1>1. n \in Nat /\ DOMAIN graph.ops = 1..n /\ L \in Nat \ {0} /\ k + L \in (k + 1)..(n + 1)
  BY WindowAt
<1>2. \A m \in 1..L : (k + m) - 1 \in DOMAIN graph.ops /\ W[m] = graph.ops[(k + m) - 1]
  BY WindowPlace
<1> HIDE DEF W
<1>3. IsFiniteSet(DOMAIN graph.ops) /\ IsFiniteSet(1..L)
  BY <1>1, PositionsCounted
<1>4. IsFiniteSet(within) /\ IsFiniteSet(out) /\ IsFiniteSet(inside)
  BY <1>3, FS_Subset DEF ReadersIn, ReadersOut
<1>5. place \in Bijection(within, inside)
  <2>1. ASSUME NEW m \in within PROVE (k + m) - 1 \in inside
    <3>1. m \in 1..L /\ t \in Range(W[m].inputs)
      BY DEF ReadersIn, W
    <3>2. (k + m) - 1 \in DOMAIN graph.ops /\ t \in Range(graph.ops[(k + m) - 1].inputs)
      BY <1>2, <3>1
    <3>3. (k + m) - 1 \in k..(k + L - 1)
      <4> HIDE DEF L
      <4> QED  BY <1>1, <3>1
    <3> QED  BY <3>2, <3>3
  <2>2. ASSUME NEW x \in inside PROVE \E m \in within : place[m] = x
    <3> DEFINE m == (x - k) + 1
    <3>1. x \in DOMAIN graph.ops /\ x \in k..(k + L - 1) /\ t \in Range(graph.ops[x].inputs)
      OBVIOUS
    <3>2. m \in 1..L /\ (k + m) - 1 = x
      <4> HIDE DEF L
      <4> QED  BY <1>1, <3>1
    <3> HIDE DEF m
    <3>3. t \in Range(W[m].inputs)
      BY <1>2, <3>1, <3>2
    <3>4. m \in within
      BY <3>2, <3>3 DEF ReadersIn, W
    <3> QED  BY <3>2, <3>4
  <2>3. ASSUME NEW a \in within, NEW b \in within, place[a] = place[b] PROVE a = b
    <3>1. a \in 1..L /\ b \in 1..L /\ (k + a) - 1 = (k + b) - 1
      BY <2>3 DEF ReadersIn
    <3> HIDE DEF L
    <3> QED  BY <1>1, <3>1
  <2> HIDE DEF within, inside
  <2> QED  BY <2>1, <2>2, <2>3 DEF Bijection, Injection, Surjection, IsInjective
<1>6. Cardinality(inside) = Cardinality(within)
  <2>1. ExistsBijection(within, inside)
    BY <1>5 DEF ExistsBijection
  <2> HIDE DEF within, inside
  <2> QED  BY <1>4, <2>1, FS_Bijection
<1>7. inside \cup out = all /\ inside \cap out = {}
  BY DEF ReadersOut
<1>8. /\ Cardinality(inside) \in Nat /\ Cardinality(out) \in Nat
      /\ Cardinality(inside \cup out) = Cardinality(inside) + Cardinality(out) - Cardinality(inside \cap out)
  <2> HIDE DEF inside, out
  <2> QED  BY <1>4, FS_Union, FS_CardinalityType
<1>9. Cardinality({}) = 0
  BY FS_EmptySet
<1> HIDE DEF inside, all
<1>10. Cardinality(all) = Cardinality(within) + Cardinality(out)
  <2> HIDE DEF within, out
  <2>1. Cardinality(all) = Cardinality(inside) + Cardinality(out) - 0
    BY <1>7, <1>8, <1>9
  <2> QED  BY <1>6, <1>8, <2>1
<1> QED  BY <1>4, <1>6, <1>8, <1>10 DEF all

\* A tensor of the window is read there by later ops only.
LEMMA ReadersInAreLater ==
    ASSUME GraphAccepted, NEW k \in DOMAIN graph.ops, NEW p \in Matches(graph.ops, k),
           NEW at \in DOMAIN AllOutputs(Window(k, p))
    PROVE  LET t == Window(k, p)[at[1]].outputs[at[2]] IN
           /\ at[1] \in 1..Length(p) /\ at[2] \in DOMAIN Window(k, p)[at[1]].outputs
           /\ {m \in (at[1] + 1)..Len(Window(k, p)) : t \in Range(Window(k, p)[m].inputs)}
                 = ReadersIn(k, p, t)
<1> DEFINE W == Window(k, p)
           L == Length(p)
           t == W[at[1]].outputs[at[2]]
<1>1. Len(graph.ops) \in Nat /\ DOMAIN graph.ops = 1..Len(graph.ops) /\ L \in Nat \ {0} /\ Len(W) = L
      /\ graph.ops \in Seq(Range(graph.ops)) /\ DOMAIN W = 1..L
  BY WindowAt, WindowPlace
<1>2. at[1] \in 1..L /\ at[2] \in DOMAIN W[at[1]].outputs
  BY <1>1 DEF AllOutputs
<1>3. t \in Range(W[at[1]].outputs)
  BY <1>2 DEF Range
<1>4. ASSUME NEW m \in 1..L, t \in Range(W[m].inputs) PROVE at[1] < m
  <2> DEFINE x == (k + at[1]) - 1
             y == (k + m) - 1
  <2>1. x \in DOMAIN graph.ops /\ W[at[1]] = graph.ops[x] /\ y \in DOMAIN graph.ops /\ W[m] = graph.ops[y]
    BY <1>2, WindowPlace
  <2>2. t \in Range(graph.ops[x].outputs) /\ t \in Range(graph.ops[y].inputs)
    BY <1>3, <1>4, <2>1
  <2>3. ~ (y <= x)
    <3> HIDE DEF x, y, t
    <3>1. graph.ops \in Seq(Range(graph.ops)) /\ Verified(graph)
      BY <1>1 DEF GraphAccepted
    <3> QED  BY <2>1, <2>2, <3>1, ReadersComeLater
  <2>4. at[1] \in Int /\ m \in Int /\ k \in Int
    BY <1>1, <1>2
  <2> QED  BY <2>3, <2>4
<1> HIDE DEF t, L
<1>5. at[1] \in Int /\ L \in Int
  BY <1>1, <1>2
<1>6. {m \in (at[1] + 1)..L : t \in Range(W[m].inputs)} = {m \in 1..L : t \in Range(W[m].inputs)}
  BY <1>2, <1>4, <1>5
<1>7. ReadersIn(k, p, t) = {m \in 1..L : t \in Range(W[m].inputs)}
  BY DEF ReadersIn, L
<1> QED  BY <1>1, <1>2, <1>6, <1>7 DEF L, t

\* What is handed on inside the window is worth what the docstring says.
Worth(k, p) ==
    [t \in Internal(Window(k, p)) |->
        (IF NeededOutside(k, p, t) THEN 1 ELSE 2) * BytesOf(graph, t)]

\* What an output of the window saves: its worth if it is handed on, nothing if
\* it is not.
LEMMA SavedAtIsWorth ==
    ASSUME GraphAccepted, NEW k \in DOMAIN graph.ops, NEW p \in Matches(graph.ops, k),
           NEW at \in DOMAIN AllOutputs(Window(k, p))
    PROVE  LET t == AllOutputs(Window(k, p))[at] IN
           SavedAtOf(Window(k, p), graph)[at] =
              IF t \in Internal(Window(k, p)) THEN Worth(k, p)[t] ELSE 0
<1> DEFINE W == Window(k, p)
           L == Length(p)
           t == W[at[1]].outputs[at[2]]
           internal == Cardinality(ReadersIn(k, p, t))
           outside == Cardinality(ReadersOut(k, p, t))
           listed == IF t \in Range(graph.graph_outputs) THEN 1 ELSE 0
           external == ConsumerCount(graph, t) - internal
<1>1. AllOutputs(W)[at] = t
  BY DEF AllOutputs
<1>2. at[1] \in 1..L /\ at[2] \in DOMAIN W[at[1]].outputs
  BY ReadersInAreLater
<1>3. SavedAtOf(W, graph)[at] = SavedAt(W, graph, at[1], at[2])
  BY DEF SavedAtOf
<1>4. Cardinality({m \in (at[1] + 1)..Len(W) : t \in Range(W[m].inputs)}) = internal
  BY ReadersInAreLater
<1>5. SavedAt(W, graph, at[1], at[2]) =
         IF internal = 0 THEN 0 ELSE (IF external <= 0 THEN 2 ELSE 1) * BytesOf(graph, t)
  <2>1. SavedAt(W, graph, at[1], at[2]) =
           IF Cardinality({m \in (at[1] + 1)..Len(W) : t \in Range(W[m].inputs)}) = 0 THEN 0
           ELSE (IF ConsumerCount(graph, t)
                       - Cardinality({m \in (at[1] + 1)..Len(W) : t \in Range(W[m].inputs)}) <= 0
                 THEN 2 ELSE 1) * BytesOf(graph, t)
    BY DEF SavedAt
  <2> HIDE DEF internal
  <2> QED  BY <1>4, <2>1
<1>6. IsFiniteSet(ReadersIn(k, p, t)) /\ IsFiniteSet(ReadersOut(k, p, t)) /\ internal \in Nat /\ outside \in Nat
  BY ReadersCounted
<1>7. ConsumerCount(graph, t) = (internal + outside) + listed
  <2>1. Cardinality({m \in DOMAIN graph.ops : t \in Range(graph.ops[m].inputs)}) = internal + outside
    BY ReadersCounted
  <2> QED  BY <2>1, SMTT(30) DEF ConsumerCount
<1>8. external <= 0 <=> outside = 0 /\ listed = 0
  <2>1. listed \in {0, 1}
    OBVIOUS
  <2> HIDE DEF internal, outside, listed
  <2> QED  BY <1>6, <1>7, <2>1
<1>9. outside = 0 /\ listed = 0 <=> ~ NeededOutside(k, p, t)
  <2>1. outside = 0 <=> ReadersOut(k, p, t) = {}
    BY <1>6, FS_EmptySet
  <2> QED  BY <2>1 DEF NeededOutside, ReadersOut
<1>10. internal = 0 <=> ReadersIn(k, p, t) = {}
  BY <1>6, FS_EmptySet
<1>11. t \in Internal(W) <=> ReadersIn(k, p, t) # {}
  <2>1. DOMAIN W = 1..L
    BY WindowPlace
  <2>2. t \in WrittenBy(W)
    BY <1>2, <2>1 DEF WrittenBy, Range
  <2>3. t \in ReadBy(W) <=> ReadersIn(k, p, t) # {}
    BY <2>1 DEF ReadBy, ReadersIn
  <2> QED  BY <2>2, <2>3 DEF Internal
<1> HIDE DEF t, internal, outside, listed, external, W
<1>12. CASE t \in Internal(W)
  <2>1. Worth(k, p)[t] = (IF NeededOutside(k, p, t) THEN 1 ELSE 2) * BytesOf(graph, t)
    BY <1>12 DEF Worth, W
  <2> QED  BY <1>1, <1>3, <1>5, <1>8, <1>9, <1>10, <1>11, <1>12, <2>1 DEF W
<1>13. CASE t \notin Internal(W)
  BY <1>1, <1>3, <1>5, <1>10, <1>11, <1>13 DEF W
<1> QED  BY <1>12, <1>13

\* The window's outputs are all different tensors.
LEMMA WindowWritesOnce ==
    ASSUME GraphAccepted, NEW k \in DOMAIN graph.ops, NEW p \in Matches(graph.ops, k),
           NEW a \in DOMAIN AllOutputs(Window(k, p)), NEW b \in DOMAIN AllOutputs(Window(k, p)),
           AllOutputs(Window(k, p))[a] = AllOutputs(Window(k, p))[b]
    PROVE  a = b
<1> DEFINE W == Window(k, p)
           L == Length(p)
           PlaceOf(at) == (k + at[1]) - 1
           t == AllOutputs(W)[a]
<1>1. /\ Len(graph.ops) \in Nat /\ DOMAIN graph.ops = 1..Len(graph.ops) /\ L \in Nat \ {0}
      /\ graph.ops \in Seq(Range(graph.ops)) /\ graph.ops \in Seq(PlainOp) /\ Verified(graph)
  BY WindowAt DEF GraphAccepted
<1>2. ASSUME NEW at \in DOMAIN AllOutputs(W), AllOutputs(W)[at] = t
      PROVE  /\ at = <<at[1], at[2]>> /\ at[1] \in 1..L
             /\ PlaceOf(at) \in DOMAIN graph.ops
             /\ at[2] \in DOMAIN graph.ops[PlaceOf(at)].outputs
             /\ t = graph.ops[PlaceOf(at)].outputs[at[2]]
             /\ t \in Range(graph.ops[PlaceOf(at)].outputs)
  <2>1. DOMAIN W = 1..L
    BY WindowPlace
  <2>2. at = <<at[1], at[2]>> /\ at[1] \in 1..L /\ at[2] \in DOMAIN W[at[1]].outputs
    BY <2>1, SMTT(30) DEF AllOutputs
  <2>3. t = W[at[1]].outputs[at[2]]
    BY <1>2 DEF AllOutputs
  <2>4. PlaceOf(at) \in DOMAIN graph.ops /\ W[at[1]] = graph.ops[PlaceOf(at)]
    BY <2>2, WindowPlace
  <2> HIDE DEF W, L, t, PlaceOf
  <2> QED  BY <2>2, <2>3, <2>4 DEF Range
<1> HIDE DEF t
<1>3. ASSUME NEW x \in DOMAIN graph.ops, NEW y \in DOMAIN graph.ops, x < y,
             t \in Range(graph.ops[x].outputs), t \in Range(graph.ops[y].outputs)
      PROVE  FALSE
  <2>1. y \in 1..(Len(graph.ops) + 1)
    BY <1>1
  <2>2. Range(graph.ops[x].outputs) \subseteq WrittenBy(SubSeq(graph.ops, 1, y - 1))
    BY <1>1, <1>3, <2>1, WrittenByPrefix
  <2>3. MultiplyProduced(graph) = {}
    BY <1>1 DEF Verified, CollectGraphErrors
  <2>4. Range(graph.ops[y].outputs) \cap WrittenBy(SubSeq(graph.ops, 1, y - 1)) = {}
    BY <1>1, <2>3, WrittenOnce
  <2> QED  BY <1>3, <2>2, <2>4
<1>4. AllOutputs(W)[a] = t /\ AllOutputs(W)[b] = t
  BY DEF t
<1> DEFINE x == PlaceOf(a)
           y == PlaceOf(b)
<1>5. /\ a = <<a[1], a[2]>> /\ a[1] \in 1..L /\ x \in DOMAIN graph.ops
      /\ a[2] \in DOMAIN graph.ops[x].outputs /\ t = graph.ops[x].outputs[a[2]]
      /\ t \in Range(graph.ops[x].outputs)
  BY <1>2, <1>4
<1>6. /\ b = <<b[1], b[2]>> /\ b[1] \in 1..L /\ y \in DOMAIN graph.ops
      /\ b[2] \in DOMAIN graph.ops[y].outputs /\ t = graph.ops[y].outputs[b[2]]
      /\ t \in Range(graph.ops[y].outputs)
  BY <1>2, <1>4
<1>7. a[1] \in Int /\ b[1] \in Int /\ k \in Int
  BY <1>1, <1>5, <1>6
<1>8. x = (k + a[1]) - 1 /\ y = (k + b[1]) - 1
  OBVIOUS
<1> HIDE DEF x, y, L, PlaceOf
<1>9. x = y
  <2>1. ~ (x < y) /\ ~ (y < x)
    BY <1>3, <1>5, <1>6
  <2> QED  BY <1>1, <1>5, <1>6, <2>1
<1>10. a[1] = b[1]
  BY <1>7, <1>8, <1>9
<1>11. a[2] = b[2]
  <2>1. graph.ops[x].outputs \in Seq(Range(graph.ops[x].outputs))
    <3>1. graph.ops[x] \in PlainOp
      BY <1>1, <1>5, ElementOfSeq
    <3>2. graph.ops[x].outputs \in Seq(Tensor)
      BY <3>1 DEF PlainOp
    <3> QED  BY <3>2, OwnRange
  <2> QED  BY <1>1, <1>5, <1>6, <1>9, <2>1, OutputsDiffer
<1> QED  BY <1>5, <1>6, <1>10, <1>11

\* So a window saves what the tensors it hands on are worth.
LEMMA SavedByIsWorth ==
    ASSUME GraphAccepted, NEW k \in DOMAIN graph.ops, NEW p \in Matches(graph.ops, k)
    PROVE  /\ IsFiniteSet(Internal(Window(k, p)))
           /\ SavedBy(k, p) = Total(Worth(k, p), Internal(Window(k, p)))
<1> DEFINE W == Window(k, p)
           A == AllOutputs(W)
           P == DOMAIN A
           f == SavedAtOf(W, graph)
           T == {at \in P : A[at] \in Internal(W)}
           image == {A[at] : at \in T}
<1>1. W \in Seq(PlainOp) /\ IsFiniteSet(P) /\ Range(A) = WrittenBy(W)
  BY WindowAt, WindowMentions
<1>2. SavedBy(k, p) = Total(f, P)
  BY <1>1, TrafficIsTotal DEF SavedBy
<1>3. \A at \in P : f[at] \in Int
  <2>1. \A at \in P : f[at] \in Nat
    BY SavedAtIsNat DEF SavedAtOf
  <2> QED  BY <2>1
<1>4. \A at \in P : f[at] = IF A[at] \in Internal(W) THEN Worth(k, p)[A[at]] ELSE 0
  BY SavedAtIsWorth
<1>5. \A at, bt \in P : A[at] = A[bt] => at = bt
  BY WindowWritesOnce
<1>6. image = Internal(W)
  <2>1. ASSUME NEW t \in Internal(W) PROVE t \in image
    <3>1. t \in Range(A)
      BY <1>1 DEF Internal
    <3>2. PICK at \in P : t = A[at]
      BY <3>1 DEF Range
    <3> QED  BY <3>2
  <2> QED  BY <2>1
<1> HIDE DEF W, A, P, f
<1>7. T \in SUBSET P /\ IsFiniteSet(T)
  BY <1>1, FS_Subset
<1>8. Total(f, P) = Total(f, T)
  <2>1. \A at \in T : f[at] \in Int
    BY <1>3
  <2>2. \A at \in P \ T : f[at] = 0
    BY <1>4
  <2> HIDE DEF T
  <2> QED  BY <1>1, <1>7, <2>1, <2>2, TotalOfPart
<1>9. Total(Worth(k, p), image) = Total(f, T)
  <2>1. \A at \in T : f[at] \in Int /\ f[at] = Worth(k, p)[A[at]]
    BY <1>3, <1>4
  <2>2. \A at, bt \in T : A[at] = A[bt] => at = bt
    BY <1>5
  <2> HIDE DEF T
  <2> QED  BY <1>7, <2>1, <2>2, TotalRenamed
<1>10. IsFiniteSet(image)
  <2> DEFINE g == [at \in T |-> A[at]]
  <2>1. g \in Surjection(T, image)
    <3> HIDE DEF T
    <3> QED  BY DEF Surjection
  <2> HIDE DEF image, T, g
  <2> QED  BY <1>7, <2>1, FS_Surjection
<1> HIDE DEF image, T
<1> QED  BY <1>2, <1>6, <1>8, <1>9, <1>10 DEF W

\* The property's sum is that total.
LEMMA WorthIsTotal ==
    ASSUME NEW k, NEW p, IsFiniteSet(Internal(Window(k, p)))
    PROVE  MapThenSumSet(LAMBDA t : (IF NeededOutside(k, p, t) THEN 1 ELSE 2) * BytesOf(graph, t),
                         Internal(Window(k, p)))
              = Total(Worth(k, p), Internal(Window(k, p)))
<1> DEFINE S == Internal(Window(k, p))
           w == Worth(k, p)
           Saved(t) == (IF NeededOutside(k, p, t) THEN 1 ELSE 2) * BytesOf(graph, t)
           iter == CHOOSE it : it = [s \in SUBSET S |->
                      IF s = {} THEN 0 ELSE Saved(One(s)) + it[s \ {One(s)}]]
<1>1. MapThenSumSet(Saved, S) = iter[S]
  BY DEF MapThenSumSet, MapThenFoldSet, One
<1>2. \A s \in SUBSET S : s # {} => w[One(s)] = Saved(One(s))
  BY DEF One, Worth
<1> HIDE DEF S, w, Saved
<1>3. PICK some : IsTally(some, w, S)
  BY TallyExists DEF S
<1>4. some = [s \in SUBSET S |-> IF s = {} THEN 0 ELSE Saved(One(s)) + some[s \ {One(s)}]]
  BY <1>2, <1>3 DEF IsTally
<1>5. iter = [s \in SUBSET S |-> IF s = {} THEN 0 ELSE Saved(One(s)) + iter[s \ {One(s)}]]
  BY <1>4
<1> HIDE DEF iter
<1>6. IsTally(iter, w, S)
  BY <1>2, <1>5 DEF IsTally
<1>7. Total(w, S) = iter[S]
  BY <1>6, TallyTotals DEF S
<1> QED  BY <1>1, <1>7 DEF S, w, Saved

\* The docstring of _group_traffic_saved, for every graph and window: the
\* difference of the two counters tells exactly the tensors nothing outside
\* the window needs.
THEOREM SavingsExact == OptimalSpec => []SavingsAreExact
<1>1. GraphAccepted /\ TableRight => SavingsAreExact
  <2> SUFFICES ASSUME GraphAccepted, TableRight, Scoring, NEW p \in Matches(graph.ops, dp_i)
               PROVE  SavedBy(dp_i, p)
                         = MapThenSumSet(LAMBDA t : (IF NeededOutside(dp_i, p, t) THEN 1 ELSE 2)
                                                       * BytesOf(graph, t),
                                         Internal(Window(dp_i, p)))
    BY DEF SavingsAreExact
  <2>1. dp_i \in DOMAIN graph.ops
    BY AcceptedOps DEF TableRight, Scoring
  <2> QED  BY <2>1, SavedByIsWorth, WorthIsTotal
<1> QED  BY <1>1, TableStaysRight, PTL

\* What each op of the result saves, by the estimate the summary uses.
OpSavings == [k \in DOMAIN new_ops |-> TrafficSavedBytes(new_ops[k], graph)]

\* What the result saves so far and what is still to be saved.
PromiseOn ==
    /\ \A k \in DOMAIN new_ops : TrafficSavedBytes(new_ops[k], graph) \in Nat
    /\ Total(OpSavings, DOMAIN new_ops) + best[i] = best[1]

\* One more op adds what it saves.
LEMMA OneMoreSaves ==
    ASSUME TypeOK, NEW op \in PlainOp \cup FusedOp, new_ops' = Append(new_ops, op), graph' = graph,
           \A k \in DOMAIN new_ops : TrafficSavedBytes(new_ops[k], graph) \in Nat,
           NEW saved \in Nat, saved = TrafficSavedBytes(op, graph)
    PROVE  /\ \A k \in DOMAIN new_ops' : TrafficSavedBytes(new_ops'[k], graph) \in Nat
           /\ Total(OpSavings, DOMAIN new_ops) \in Nat
           /\ Total(OpSavings', DOMAIN new_ops') = Total(OpSavings, DOMAIN new_ops) + saved
<1> DEFINE n == Len(new_ops)
           f == OpSavings
           g == OpSavings'
<1>1. /\ n \in Nat /\ DOMAIN new_ops = 1..n /\ DOMAIN new_ops' = 1..(n + 1)
      /\ \A k \in 1..n : new_ops'[k] = new_ops[k]
      /\ new_ops'[n + 1] = op
  BY AppendedOps
<1>2. /\ \A k \in 1..n : f[k] = TrafficSavedBytes(new_ops[k], graph)
      /\ \A k \in 1..(n + 1) : g[k] = TrafficSavedBytes(new_ops'[k], graph)
  BY <1>1 DEF OpSavings
<1>3. \A k \in 1..n : f[k] \in Nat
  BY <1>1, <1>2
<1> HIDE DEF n, f, g
<1>4. 1..(n + 1) = (1..n) \cup {n + 1} /\ n + 1 \notin 1..n /\ n + 1 \in 1..(n + 1)
      /\ \A k \in 1..n : k \in 1..(n + 1)
  BY <1>1
<1>5. g[n + 1] = saved /\ \A k \in 1..n : g[k] = f[k]
  BY <1>1, <1>2, <1>4
<1>6. IsFiniteSet(1..n)
  BY <1>1, PositionsCounted
<1>7. \A k \in 1..n : g[k] \in Int
  BY <1>3, <1>5
<1>8. Total(g, (1..n) \cup {n + 1}) = g[n + 1] + Total(g, 1..n)
  <2>1. g[n + 1] \in Int
    BY <1>5
  <2> QED  BY <1>4, <1>6, <1>7, <2>1, TotalAdd
<1>9. Total(g, 1..n) = Total(f, 1..n)
  BY <1>5, <1>6, TotalSame
<1>10. Total(f, 1..n) \in Nat
  BY <1>3, <1>6, TotalIsNat
<1>11. Total(g, 1..(n + 1)) = Total(f, 1..n) + saved
  <2>1. Total(g, 1..(n + 1)) = Total(g, (1..n) \cup {n + 1})
    BY <1>4
  <2>2. Total(g, 1..(n + 1)) = saved + Total(f, 1..n)
    BY <2>1, <1>5, <1>8, <1>9
  <2>3. \A a, b \in Nat : a + b = b + a
    OBVIOUS
  <2> QED  BY <1>10, <2>2, <2>3
<1>12. \A k \in 1..(n + 1) : TrafficSavedBytes(new_ops'[k], graph) \in Nat
  BY <1>2, <1>3, <1>4, <1>5
<1> QED  BY <1>1, <1>10, <1>11, <1>12 DEF f, g

\* A step of either phase keeps the promise.
LEMMA StepKeepsPromise ==
    ASSUME GraphAccepted, TypeOK, ChoicesMatch, TableRight, PromiseOn, [OptimalNext]_optimalVars, TableRight'
    PROVE  PromiseOn'
<1> DEFINE n == Len(graph.ops)
           total == Total(OpSavings, DOMAIN new_ops)
<1>1. n \in Nat /\ DOMAIN graph.ops = 1..n
  BY AcceptedOps
\* Scoring, nothing is in the result, whatever the table holds.
<1>2. ASSUME graph' = graph, i = 1, i' = 1, new_ops = <<>>, new_ops' = <<>> PROVE PromiseOn'
  <2>1. DOMAIN <<>> = {} /\ Total(OpSavings', {}) = 0
    BY EmptySeq, TotalEmpty
  <2>2. best'[1] \in Nat
    <3>1. best' \in [1..(n + 1) -> Nat] /\ 1 \in 1..(n + 1)
      BY <1>1, <1>2 DEF TableRight
    <3> QED  BY <3>1
  <2> QED  BY <1>2, <2>1, <2>2 DEF PromiseOn
<1>3. ASSUME NEW bytes, NEW p, Scoring, Settle(bytes, p) PROVE PromiseOn'
  <2>1. i = 1 /\ new_ops = <<>> /\ i' = i /\ new_ops' = new_ops /\ graph' = graph
    BY <1>3 DEF TableRight, Settle, vars
  <2> QED  BY <1>2, <2>1
<1>4. CASE LeaveUnfused \/ \E p \in DOMAIN Patterns : ChooseWindow(p)
  BY <1>3, <1>4 DEF LeaveUnfused, NothingGained, ChooseWindow
\* In the forward scan every entry is right.
<1>5. ASSUME NEW op \in PlainOp \cup FusedOp, NEW saved \in Nat, Selecting,
             saved = TrafficSavedBytes(op, graph), best[i] = saved + best[i'],
             new_ops' = Append(new_ops, op), graph' = graph, best' = best, i' \in 1..(n + 1)
      PROVE  PromiseOn'
  <2>1. /\ \A k \in DOMAIN new_ops' : TrafficSavedBytes(new_ops'[k], graph) \in Nat
        /\ total \in Nat /\ Total(OpSavings', DOMAIN new_ops') = total + saved
    BY <1>5, OneMoreSaves DEF PromiseOn
  <2>2. best[i'] \in Nat /\ best[1] \in Nat
    <3>1. best \in [1..(n + 1) -> Nat] /\ 1 \in 1..(n + 1)
      BY <1>1 DEF TableRight
    <3> QED  BY <1>5, <3>1
  <2>3. total + best[i] = best[1]
    BY DEF PromiseOn
  <2> HIDE DEF total
  <2>4. (total + saved) + best[i'] = best[1]
    BY <1>5, <2>1, <2>2, <2>3
  <2> QED  BY <1>5, <2>1, <2>4 DEF PromiseOn
<1>6. Selecting => i \in 1..n /\ EntryRight(i) /\ graph.ops[i] \in PlainOp
  <2> SUFFICES ASSUME Selecting PROVE i \in 1..n /\ EntryRight(i) /\ graph.ops[i] \in PlainOp
    OBVIOUS
  <2>1. i \in 1..n /\ graph.ops[i] \in PlainOp
    BY ScanProperties DEF Selecting
  <2>2. i \in (dp_i + 1)..n
    BY <1>1, <2>1 DEF Selecting, Scoring, TableRight
  <2> QED  BY <2>1, <2>2 DEF TableRight
<1>7. CASE KeepUnfused
  <2>1. /\ Selecting /\ choice[i] = NoChoice /\ new_ops' = Append(new_ops, graph.ops[i])
        /\ i' = i + 1 /\ graph' = graph /\ best' = best
    BY <1>7 DEF KeepUnfused, KeepAndCount, dpVars
  <2>2. TrafficSavedBytes(graph.ops[i], graph) = 0
    <3>1. graph.ops[i].kind # "fused"
      BY <1>6, <2>1, FusedIsNoKind DEF PlainOp
    <3> QED  BY <3>1 DEF TrafficSavedBytes
  <2>3. i' \in 1..(n + 1)
    BY <1>1, <1>6, <2>1
  <2>4. best[i] = 0 + best[i']
    <3>1. best[i] = best[i + 1]
      BY <1>6, <2>1 DEF EntryRight
    <3>2. best[i'] \in Nat
      BY <2>3 DEF TableRight
    <3> QED  BY <2>1, <3>1, <3>2
  <2> QED  BY <1>5, <1>6, <2>1, <2>2, <2>3, <2>4
<1>8. CASE FuseChosen
  <2> DEFINE p == choice[i]
             fused == MakeFusedOp(Window(i, p), Patterns[p].fused_kind, fuse_idx)
  <2>1. Selecting /\ FuseAndJump(p, Length(p)) /\ choice[i] # NoChoice /\ best' = best
    BY <1>8 DEF FuseChosen, dpVars
  <2>2. p \in Matches(graph.ops, i) /\ best[i] = SavedBy(i, p) + best[i + Length(p)]
    BY <1>6, <2>1, SMTT(30) DEF EntryRight
  <2>3. /\ fused \in FusedOp /\ fused.kind = "fused" /\ fused.attrs.sub_ops = Window(i, p)
        /\ new_ops' = Append(new_ops, fused) /\ i' = i + Length(p)
    BY <2>1, <2>2, FuseProperties DEF Window, Length
  <2>4. graph' = graph
    BY <2>1 DEF FuseAndJump
  <2>5. SavedBy(i, p) \in Nat /\ TrafficSavedBytes(fused, graph) = SavedBy(i, p)
    <3>1. SavedBy(i, p) \in Nat
      BY <1>1, <1>6, <2>1, <2>2, SavedByIsNat
    <3> QED  BY <2>3, <3>1 DEF TrafficSavedBytes, SavedBy
  <2>6. i + Length(p) \in 1..(n + 1)
    <3>1. i + Length(p) \in (i + 1)..(n + 1)
      BY <1>1, <1>6, <2>1, <2>2, WindowAt
    <3> QED  BY <1>1, <1>6, <2>1, <3>1
  <2> HIDE DEF p, fused
  <2> QED  BY <1>5, <2>1, <2>2, <2>3, <2>4, <2>5, <2>6
<1>9. CASE OptimalTerminated \/ UNCHANGED optimalVars
  BY <1>9 DEF OptimalTerminated, optimalVars, vars, dpVars, PromiseOn, OpSavings
<1> QED  BY <1>4, <1>7, <1>8, <1>9 DEF OptimalNext, Score

\* So what the result saves and what is still to be saved add up to best[1].
LEMMA PromiseStaysOn == OptimalSpec => []PromiseOn
<1>1. OptimalInit => PromiseOn
  <2> SUFFICES ASSUME OptimalInit PROVE PromiseOn
    OBVIOUS
  <2>1. i = 1 /\ new_ops = <<>> /\ best = [k \in 1..(Len(graph.ops) + 1) |-> 0] /\ GraphAccepted
    BY DEF OptimalInit, Init, GraphAccepted
  <2>2. 1 \in 1..(Len(graph.ops) + 1)
    BY <2>1, AcceptedOps
  <2>3. DOMAIN <<>> = {} /\ Total(OpSavings, {}) = 0
    BY EmptySeq, TotalEmpty
  <2>4. best[1] = 0
    BY <2>1, <2>2
  <2> QED  BY <2>1, <2>3, <2>4 DEF PromiseOn
<1>2. /\ GraphAccepted /\ TypeOK /\ ChoicesMatch /\ TableRight /\ PromiseOn
      /\ [OptimalNext]_optimalVars
      => PromiseOn'
  BY OptimalTable, StepKeepsPromise
<1> QED  BY <1>1, <1>2, TableStaysRight, PTL DEF OptimalSpec

\* The sum that the property names is that total.
LEMMA SummaryIsTotal ==
    ASSUME TypeOK
    PROVE  MapThenSumSet(LAMBDA k : TrafficSavedBytes(new_ops[k], graph), DOMAIN new_ops)
              = Total(OpSavings, DOMAIN new_ops)
<1> DEFINE S == DOMAIN new_ops
           f == OpSavings
           Saved(k) == TrafficSavedBytes(new_ops[k], graph)
           iter == CHOOSE it : it = [s \in SUBSET S |->
                      IF s = {} THEN 0 ELSE Saved(One(s)) + it[s \ {One(s)}]]
<1>1. MapThenSumSet(Saved, S) = iter[S]
  BY DEF MapThenSumSet, MapThenFoldSet, One
<1>2. \A s \in SUBSET S : s # {} => f[One(s)] = Saved(One(s))
  BY DEF One, OpSavings
<1>3. IsFiniteSet(S)
  <2>1. S = 1..Len(new_ops) /\ Len(new_ops) \in Nat
    BY LenProperties DEF TypeOK
  <2> QED  BY <2>1, PositionsCounted
<1> HIDE DEF S, f, Saved
<1>4. PICK some : IsTally(some, f, S)
  BY <1>3, TallyExists
<1>5. some = [s \in SUBSET S |-> IF s = {} THEN 0 ELSE Saved(One(s)) + some[s \ {One(s)}]]
  BY <1>2, <1>4 DEF IsTally
<1>6. iter = [s \in SUBSET S |-> IF s = {} THEN 0 ELSE Saved(One(s)) + iter[s \ {One(s)}]]
  BY <1>5
<1> HIDE DEF iter
<1>7. IsTally(iter, f, S)
  BY <1>2, <1>6 DEF IsTally
<1>8. Total(f, S) = iter[S]
  BY <1>3, <1>7, TallyTotals
<1> QED  BY <1>1, <1>8 DEF S, f, Saved

\* What the ops of the result run, joined, is the part of the base graph the
\* scan has passed.
LEMMA FlatIsPassed ==
    ASSUME TypeOK, ExecutionOrderPreserved
    PROVE  FlattenSeq([k \in DOMAIN new_ops |-> SubOps(new_ops[k])]) = SubSeq(graph.ops, 1, i - 1)
<1> DEFINE n == Len(new_ops)
           ops == graph.ops
           runs == [k \in DOMAIN new_ops |-> SubOps(new_ops[k])]
           passed == [k \in 1..n |-> SubSeq(ops, 1, NextStart(k) - 1)]
           flat == CHOOSE it : it = [k \in 1..n |-> IF k = 1 THEN runs[k] ELSE it[k - 1] \o runs[k]]
<1>1. /\ ops \in Seq(PlainOp) /\ Len(ops) \in Nat /\ i \in 1..(Len(ops) + 1)
      /\ n \in Nat /\ DOMAIN new_ops = 1..n /\ DOMAIN starts = 1..n /\ Len(starts) = n
      /\ \A k \in 1..n : starts[k] \in 1..Len(ops)
  <2>1. ops \in Seq(PlainOp)
    BY GraphsAssumption DEF TypeOK, IsBaseGraph
  <2> QED  BY <2>1, LenProperties, ElementOfSeq DEF TypeOK
<1>2. runs \in Seq(Range(runs)) /\ Len(runs) = n /\ DOMAIN runs = 1..n
  <2>1. runs \in [1..n -> Range(runs)]
    BY <1>1 DEF Range
  <2>2. runs \in Seq(Range(runs))
    BY <1>1, <2>1, SeqDef
  <2>3. DOMAIN runs = 1..n
    BY <1>1
  <2> HIDE DEF runs
  <2> QED  BY <1>1, <2>2, <2>3, LenProperties
<1>3. ASSUME NEW k \in 1..n
      PROVE  /\ starts[k] < NextStart(k) /\ NextStart(k) \in 1..(Len(ops) + 1)
             /\ runs[k] = SubSeq(ops, starts[k], NextStart(k) - 1)
             /\ k = 1 => starts[k] = 1
             /\ k # 1 => k - 1 \in 1..n /\ NextStart(k - 1) = starts[k]
  <2>1. starts[k] < NextStart(k) /\ runs[k] = SubSeq(ops, starts[k], NextStart(k) - 1)
    BY <1>1 DEF ExecutionOrderPreserved
  <2>2. NextStart(k) \in 1..(Len(ops) + 1)
    <3> HIDE DEF runs, ops, n
    <3>1. CASE k = n
      BY <1>1, <3>1 DEF NextStart
    <3>2. CASE k # n
      <4>1. k + 1 \in 1..n
        BY <1>1, <3>2
      <4>2. starts[k + 1] \in 1..Len(ops)
        BY <1>1, <4>1
      <4>3. starts[k + 1] \in 1..(Len(ops) + 1)
        BY <1>1, <4>2
      <4> QED  BY <1>1, <3>2, <4>3 DEF NextStart
    <3> QED  BY <3>1, <3>2
  <2>3. k = 1 => starts[k] = 1
    <3>1. starts # <<>>
      BY <1>1, EmptySeq
    <3> QED  BY <3>1 DEF ExecutionOrderPreserved
  <2>4. k # 1 => k - 1 \in 1..n /\ NextStart(k - 1) = starts[k]
    <3> SUFFICES ASSUME k # 1 PROVE k - 1 \in 1..n /\ NextStart(k - 1) = starts[k]
      OBVIOUS
    <3>1. k - 1 \in 1..n /\ k - 1 # n /\ (k - 1) + 1 = k
      BY <1>1
    <3> QED  BY <1>1, <3>1 DEF NextStart
  <2> QED  BY <2>1, <2>2, <2>3, <2>4
<1> HIDE DEF ops, runs, n
<1>4. ASSUME NEW k \in 1..n
      PROVE  passed[k] = IF k = 1 THEN runs[k] ELSE passed[k - 1] \o runs[k]
  <2>1. CASE k = 1
    BY <1>3, <2>1
  <2>2. CASE k # 1
    <3> DEFINE a == starts[k] - 1
               b == NextStart(k) - 1
    <3>1. /\ k - 1 \in 1..n /\ NextStart(k - 1) = starts[k]
          /\ starts[k] \in 1..Len(ops) /\ starts[k] < NextStart(k) /\ NextStart(k) \in 1..(Len(ops) + 1)
          /\ runs[k] = SubSeq(ops, starts[k], NextStart(k) - 1)
      BY <1>1, <1>3, <2>2
    <3>2. a \in (1 - 1)..Len(ops) /\ b \in a..Len(ops) /\ a + 1 = starts[k] /\ 1 \in 1..(Len(ops) + 1)
      <4>1. /\ starts[k] \in 1..Len(ops) /\ starts[k] < NextStart(k)
            /\ NextStart(k) \in 1..(Len(ops) + 1) /\ Len(ops) \in Nat
        BY <1>1, <3>1
      <4> HIDE DEF passed, flat
      <4> QED  BY <4>1, SMTT(30)
    <3>3. passed[k - 1] = SubSeq(ops, 1, a) /\ passed[k] = SubSeq(ops, 1, b)
          /\ runs[k] = SubSeq(ops, a + 1, b)
      BY <3>1, <3>2
    <3> HIDE DEF a, b, passed
    <3>4. SubSeq(ops, 1, a) \o SubSeq(ops, a + 1, b) = SubSeq(ops, 1, b)
      BY <1>1, <3>2, ConcatAdjacentSubSeq
    <3> QED  BY <2>2, <3>3, <3>4
  <2> QED  BY <2>1, <2>2
<1>5. flat = [k \in 1..n |-> IF k = 1 THEN runs[k] ELSE flat[k - 1] \o runs[k]]
  <2>1. passed = [k \in 1..n |-> IF k = 1 THEN runs[k] ELSE passed[k - 1] \o runs[k]]
    <3>1. passed = [k \in 1..n |-> passed[k]]
      OBVIOUS
    <3> HIDE DEF passed
    <3> QED  BY <1>4, <3>1
  <2> HIDE DEF passed
  <2> QED  BY <2>1, Zenon
<1> HIDE DEF flat, passed
<1>6. ASSUME NEW F, F = {k \in 1..n : flat[k] # passed[k]}, F # {} PROVE FALSE
  <2>1. PICK m \in F : \A k \in F : m <= k
    <3>1. F \in SUBSET Nat
      BY <1>1, <1>6
    <3> QED  BY <1>6, <3>1, LeastNat
  <2>2. m \in 1..n /\ flat[m] # passed[m]
    BY <1>6, <2>1
  <2>3. flat[m] = (IF m = 1 THEN runs[m] ELSE flat[m - 1] \o runs[m])
        /\ passed[m] = (IF m = 1 THEN runs[m] ELSE passed[m - 1] \o runs[m])
    BY <1>4, <1>5, <2>2
  <2>4. m # 1 => flat[m - 1] = passed[m - 1]
    <3>1. m # 1 => m - 1 \in 1..n /\ ~ (m <= m - 1)
      BY <1>1, <2>2
    <3> QED  BY <1>6, <2>1, <3>1
  <2> QED  BY <2>2, <2>3, <2>4
<1>7. FlattenSeq(runs) = IF n = 0 THEN runs ELSE flat[n]
  BY <1>2 DEF FlattenSeq, flat
<1>8. CASE n = 0
  <2>1. starts = <<>>
    BY <1>1, <1>8, EmptySeq DEF TypeOK
  <2>2. i = 1
    BY <2>1 DEF ExecutionOrderPreserved
  <2>3. runs = <<>>
    BY <1>2, <1>8, EmptySeq
  <2>4. SubSeq(ops, 1, 1 - 1) = <<>>
    <3>1. 1 \in Int /\ 1 - 1 \in Int /\ 1 - 1 < 1
      OBVIOUS
    <3> QED  BY <3>1, SubSeqEmpty
  <2> QED  BY <1>7, <1>8, <2>2, <2>3, <2>4 DEF ops, runs
<1>9. CASE n # 0
  <2>1. n \in 1..n
    BY <1>1, <1>9
  <2>2. flat[n] = passed[n]
    BY <1>6, <2>1
  <2>3. NextStart(n) = i
    BY <1>1 DEF NextStart
  <2>4. passed[n] = SubSeq(ops, 1, i - 1)
    BY <2>1, <2>3 DEF passed
  <2> QED  BY <1>7, <1>9, <2>2, <2>4 DEF ops, runs
<1> QED  BY <1>8, <1>9

\* The forward scan realises the optimum: the savings reported for the ops of
\* the result add up to it, and the result runs the base graph in order and
\* verifies.
THEOREM PromiseIsKept == OptimalSpec => []PromiseKept
<1>1. OptimalSpec => []ExecutionOrderPreserved /\ []FusedGraphVerifies
  BY OrderIsPreserved, FusedAccepted
<1>2. /\ GraphAccepted /\ TypeOK /\ TableRight /\ PromiseOn
      /\ ExecutionOrderPreserved /\ FusedGraphVerifies
      => PromiseKept
  <2> SUFFICES ASSUME GraphAccepted, TypeOK, TableRight, PromiseOn, ExecutionOrderPreserved,
                      FusedGraphVerifies, Finished
               PROVE  /\ MapThenSumSet(LAMBDA k : TrafficSavedBytes(new_ops[k], graph), DOMAIN new_ops)
                            = best[1]
                      /\ FlattenSeq([k \in DOMAIN new_ops |-> SubOps(new_ops[k])]) = graph.ops
                      /\ Verified(FusedGraph)
    BY DEF PromiseKept
  <2> DEFINE n == Len(graph.ops)
  <2>1. n \in Nat /\ i = n + 1 /\ graph.ops \in Seq(PlainOp)
    <3>1. n \in Nat /\ graph.ops \in Seq(PlainOp)
      BY AcceptedOps, GraphsAssumption DEF GraphAccepted, IsBaseGraph
    <3> QED  BY <3>1 DEF Finished, TypeOK
  <2>2. MapThenSumSet(LAMBDA k : TrafficSavedBytes(new_ops[k], graph), DOMAIN new_ops) = best[1]
    <3> DEFINE total == Total(OpSavings, DOMAIN new_ops)
    <3>1. MapThenSumSet(LAMBDA k : TrafficSavedBytes(new_ops[k], graph), DOMAIN new_ops) = total
      BY SummaryIsTotal
    <3>2. total + best[n + 1] = best[1] /\ best[n + 1] = 0
      BY <2>1 DEF PromiseOn, TableRight
    <3>3. total \in Nat
      <4>1. DOMAIN new_ops = 1..Len(new_ops) /\ Len(new_ops) \in Nat
        BY LenProperties DEF TypeOK
      <4>2. IsFiniteSet(DOMAIN new_ops)
        BY <4>1, PositionsCounted
      <4>3. \A k \in DOMAIN new_ops : OpSavings[k] \in Nat
        BY DEF PromiseOn, OpSavings
      <4> QED  BY <4>2, <4>3, TotalIsNat
    <3> HIDE DEF total
    <3>4. total + 0 = total
      BY <3>3
    <3> QED  BY <3>1, <3>2, <3>4
  <2>3. FlattenSeq([k \in DOMAIN new_ops |-> SubOps(new_ops[k])]) = graph.ops
    <3>1. SubSeq(graph.ops, 1, i - 1) = SubSeq(graph.ops, 1, n)
      BY <2>1
    <3>2. SubSeq(graph.ops, 1, n) = graph.ops
      BY <2>1, SubSeqFull
    <3> QED  BY <3>1, <3>2, FlatIsPassed
  <2>4. Verified(FusedGraph)
    BY DEF FusedGraphVerifies
  <2> QED  BY <2>2, <2>3, <2>4
<1> QED  BY <1>1, <1>2, TableStaysRight, PromiseStaysOn, PTL
----------------------------------------------------------------------------
(***************************************************************************)
(* The execution of the fused graph implements that of the base graph.     *)
(***************************************************************************)

\* Both executions look an op up, run it and fill in the given tensors in the
\* same way.
LEMMA SameOperators ==
    ASSUME NEW op, NEW e
    PROVE  /\ Execution!HasImplementation(op) = Unfused!HasImplementation(op)
           /\ Execution!Arguments(op) = Unfused!Arguments(op)
           /\ Execution!Range(Execution!Arguments(op)) = Unfused!Range(Unfused!Arguments(op))
           /\ Execution!Assign(e, op) = Unfused!Assign(e, op)
           /\ Execution!InitialTensors(op) = Unfused!InitialTensors(op)
<1>1. /\ Execution!NumInputs = Unfused!NumInputs
      /\ Execution!NumOutputs = Unfused!NumOutputs
      /\ Execution!StepDims = Unfused!StepDims
  BY DEF Execution!NumInputs, Unfused!NumInputs, Execution!NumOutputs, Unfused!NumOutputs,
         Execution!StepDims, Unfused!StepDims
<1>2. /\ Execution!Arguments(op) = Unfused!Arguments(op)
      /\ Execution!Results(op) = Unfused!Results(op)
  BY <1>1 DEF Execution!Arguments, Unfused!Arguments, Execution!Results, Unfused!Results
<1>3. \A f : Execution!Range(f) = Unfused!Range(f)
  BY DEF Execution!Range, Unfused!Range
<1>4. Execution!HasImplementation(op) = Unfused!HasImplementation(op)
  BY <1>1 DEF Execution!HasImplementation, Unfused!HasImplementation
<1>5. Execution!Assign(e, op) = Unfused!Assign(e, op)
  BY <1>2, <1>3 DEF Execution!Assign, Unfused!Assign
<1>6. Execution!InitialTensors(op) = Unfused!InitialTensors(op)
  <2>1. \A ops : Execution!WrittenBy(ops) = Unfused!WrittenBy(ops)
    BY <1>3 DEF Execution!WrittenBy, Unfused!WrittenBy
  <2>2. Execution!External(op) = Unfused!External(op)
    BY <2>1 DEF Execution!External, Unfused!External
  <2> QED  BY <1>3, <2>2 DEF Execution!InitialTensors, Unfused!InitialTensors
<1> QED  BY <1>2, <1>3, <1>4, <1>5, <1>6
----------------------------------------------------------------------------
\* The finished scan has cut the base graph into the windows of the new ops.
CutIntoWindows ==
    /\ graph.ops \in Seq(PlainOp) /\ Len(graph.ops) \in Nat /\ i = Len(graph.ops) + 1
    /\ Len(new_ops) \in Nat /\ DOMAIN new_ops = 1..Len(new_ops)
    /\ Len(new_ops) = 0 => Len(graph.ops) = 0
    /\ Len(new_ops) > 0 => starts[1] = 1
    /\ \A k \in 1..Len(new_ops) :
          /\ starts[k] \in 1..Len(graph.ops)
          /\ NextStart(k) \in 1..(Len(graph.ops) + 1)
          /\ NextStart(k) = IF k = Len(new_ops) THEN Len(graph.ops) + 1 ELSE starts[k + 1]
          /\ starts[k] < NextStart(k)
          /\ Len(SubOps(new_ops[k])) = NextStart(k) - starts[k]
          /\ \A m \in 1..(NextStart(k) - starts[k]) :
                SubOps(new_ops[k])[m] = graph.ops[starts[k] + m - 1]

LEMMA FinishedWindows ==
    ASSUME TypeOK, ExecutionOrderPreserved, Finished
    PROVE  CutIntoWindows
<1>1. /\ graph.ops \in Seq(PlainOp) /\ graph.ops \in Seq(Range(graph.ops))
      /\ Len(graph.ops) \in Nat
  <2>1. graph.ops \in Seq(PlainOp)
    BY GraphsAssumption DEF TypeOK, IsBaseGraph
  <2> QED  BY <2>1, OwnRange, LenProperties
<1>2. i = Len(graph.ops) + 1
  BY <1>1 DEF TypeOK, Finished
<1>3. /\ starts \in Seq(1..Len(graph.ops)) /\ Len(starts) = Len(new_ops)
      /\ Len(new_ops) \in Nat /\ DOMAIN new_ops = 1..Len(new_ops)
      /\ DOMAIN starts = 1..Len(new_ops)
      /\ \A k \in 1..Len(new_ops) : starts[k] \in 1..Len(graph.ops)
  <2>1. starts \in Seq(1..Len(graph.ops)) /\ Len(starts) = Len(new_ops)
        /\ new_ops \in Seq(PlainOp \cup FusedOp)
    BY DEF TypeOK
  <2> QED  BY <2>1, LenProperties, ElementOfSeq
<1>4. ASSUME Len(new_ops) = 0 PROVE Len(graph.ops) = 0
  <2>1. starts = <<>>
    BY <1>3, <1>4, EmptySeq
  <2> QED  BY <1>1, <1>2, <2>1 DEF ExecutionOrderPreserved
<1>5. ASSUME Len(new_ops) > 0 PROVE starts[1] = 1
  <2>1. starts # <<>>
    BY <1>3, <1>5, EmptySeq
  <2> QED  BY <2>1 DEF ExecutionOrderPreserved
<1>6. ASSUME NEW k \in 1..Len(new_ops)
      PROVE  /\ starts[k] \in 1..Len(graph.ops)
             /\ NextStart(k) \in 1..(Len(graph.ops) + 1)
             /\ NextStart(k) = IF k = Len(new_ops) THEN Len(graph.ops) + 1 ELSE starts[k + 1]
             /\ starts[k] < NextStart(k)
             /\ Len(SubOps(new_ops[k])) = NextStart(k) - starts[k]
             /\ \A m \in 1..(NextStart(k) - starts[k]) :
                   SubOps(new_ops[k])[m] = graph.ops[starts[k] + m - 1]
  <2>1. NextStart(k) = IF k = Len(new_ops) THEN Len(graph.ops) + 1 ELSE starts[k + 1]
    BY <1>2, <1>3 DEF NextStart
  <2>2. NextStart(k) \in 1..(Len(graph.ops) + 1)
    <3>1. CASE k = Len(new_ops)
      BY <1>1, <2>1, <3>1
    <3>2. CASE k # Len(new_ops)
      <4>1. k + 1 \in 1..Len(new_ops)
        <5>1. Len(new_ops) \in Nat
          BY <1>3
        <5> QED  BY <3>2, <5>1
      <4>2. starts[k + 1] \in 1..Len(graph.ops)
        BY <1>3, <4>1
      <4> QED  BY <1>1, <2>1, <3>2, <4>2
    <3> QED  BY <3>1, <3>2
  <2>3. /\ starts[k] < NextStart(k)
        /\ SubOps(new_ops[k]) = SubSeq(graph.ops, starts[k], NextStart(k) - 1)
    BY <1>3 DEF ExecutionOrderPreserved
  <2>4. starts[k] \in 1..(Len(graph.ops) + 1) /\ starts[k] <= NextStart(k)
    <3>1. starts[k] \in 1..Len(graph.ops)
      BY <1>3
    <3> QED  BY <1>1, <2>2, <2>3, <3>1
  <2> DEFINE j == NextStart(k)
             window == SubSeq(graph.ops, starts[k], j - 1)
  <2>5. /\ Len(SubOps(new_ops[k])) = j - starts[k]
        /\ \A m \in 1..(j - starts[k]) :
              SubOps(new_ops[k])[m] = graph.ops[starts[k] + m - 1]
    <3>1. j \in 1..(Len(graph.ops) + 1)
      BY <2>2
    <3>2. starts[k] <= j
      BY <2>4
    <3>3. SubOps(new_ops[k]) = window
      BY <2>3
    <3> HIDE DEF j
    <3>4. Len(window) = j - starts[k] /\ \A m \in 1..(j - starts[k]) : window[m] = graph.ops[starts[k] + m - 1]
      BY <1>1, <2>4, <3>1, <3>2, WindowOps
    <3> QED  BY <3>3, <3>4
  <2>6. starts[k] \in 1..Len(graph.ops) /\ starts[k] < NextStart(k)
    BY <1>3, <2>3
  <2> QED  BY <2>1, <2>2, <2>5, <2>6
<1> QED  BY <1>1, <1>2, <1>3, <1>4, <1>5, <1>6, Zenon DEF CutIntoWindows
----------------------------------------------------------------------------
\* Where the execution of the fused graph can be: before the scan has ended
\* it has not begun, and then it is at one of the sub-ops or at the end.
RunInv ==
    /\ ~ Finished => pos = 1 /\ sub = 1 /\ status = "running"
    /\ Finished => /\ pos \in 1..(Len(new_ops) + 1)
                   /\ sub \in Nat \ {0}
                   /\ pos <= Len(new_ops) => sub <= Len(SubOps(new_ops[pos]))

\* The scan of the composition is the scan of GreedyFusion.
LEMMA RunsTheScan == RunSpec => Spec /\ [](Finished => CutIntoWindows)
<1>1. RunInit => Init
  BY DEF RunInit
<1>2. [RunNext]_runVars => [Next]_vars
  BY DEF RunNext, Fuse, Execute, runVars, Next, vars
<1>3. TypeOK /\ ExecutionOrderPreserved => (Finished => CutIntoWindows)
  BY FinishedWindows
<1> QED  BY <1>1, <1>2, <1>3, TypeCorrect, OrderIsPreserved, PTL DEF RunSpec, Spec

LEMMA FusedOps ==
    ASSUME graph \in Graphs
    PROVE  FusedGraph.ops = new_ops
BY GraphsAssumption DEF FusedGraph, IsBaseGraph, MkGraph

\* The sub-op the execution of the fused graph is at is the base graph's op at
\* the position that execution stands for.
LEMMA AtSubOp ==
    ASSUME TypeOK, CutIntoWindows, RunInv, Finished, pos <= Len(new_ops)
    PROVE  /\ pos \in 1..Len(new_ops) /\ sub \in 1..Len(SubOps(new_ops[pos]))
           /\ BasePos = starts[pos] + sub - 1 /\ BasePos \in 1..Len(graph.ops)
           /\ Execution!CurrentOp = graph.ops[BasePos]
           /\ Unfused!CurrentOp = graph.ops[BasePos]
           /\ graph.ops[BasePos].kind # "fused"
<1> DEFINE length == Len(SubOps(new_ops[pos]))
           last == NextStart(pos)
<1>1. pos \in 1..Len(new_ops) /\ sub \in Nat \ {0} /\ sub <= length
  <2>1. Len(new_ops) \in Nat
    BY Zenon DEF CutIntoWindows
  <2> QED  BY <2>1 DEF RunInv
<1>2. /\ starts[pos] \in 1..Len(graph.ops) /\ last \in 1..(Len(graph.ops) + 1)
      /\ length = last - starts[pos] /\ Len(graph.ops) \in Nat
      /\ \A m \in 1..(last - starts[pos]) : SubOps(new_ops[pos])[m] = graph.ops[starts[pos] + m - 1]
  BY <1>1, Zenon DEF CutIntoWindows
<1>3. BasePos = starts[pos] + sub - 1
  BY DEF BasePos
<1> HIDE DEF last, length
<1>4. sub \in 1..length /\ starts[pos] + sub - 1 \in 1..Len(graph.ops)
  BY <1>1, <1>2
<1>5. SubOps(new_ops[pos])[sub] = graph.ops[BasePos]
  BY <1>2, <1>3, <1>4
<1>6. Execution!CurrentOp = graph.ops[BasePos]
  <2>1. FusedGraph.ops = new_ops
    BY FusedOps DEF TypeOK
  <2>2. CASE new_ops[pos].kind = "fused"
    <3>1. SubOps(new_ops[pos]) = new_ops[pos].attrs.sub_ops
      BY <2>2 DEF SubOps
    <3> QED  BY <1>5, <2>1, <2>2, <3>1 DEF Execution!CurrentOp
  <2>3. CASE new_ops[pos].kind # "fused"
    <3>1. SubOps(new_ops[pos]) = <<new_ops[pos]>>
      BY <2>3 DEF SubOps
    <3>2. length = 1
      BY <3>1 DEF length
    <3>3. sub = 1
      BY <1>1, <3>2
    <3>4. new_ops[pos] = graph.ops[BasePos]
      BY <1>5, <3>1, <3>3
    <3> QED  BY <2>1, <2>3, <3>4 DEF Execution!CurrentOp
  <2> QED  BY <2>2, <2>3
<1>7. graph.ops[BasePos].kind # "fused"
  <2>1. graph.ops[BasePos] \in PlainOp
    BY <1>3, <1>4, ElementOfSeq, Zenon DEF CutIntoWindows
  <2> QED  BY <2>1, FusedIsNoKind DEF PlainOp
<1>8. Unfused!CurrentOp = graph.ops[BasePos]
  BY <1>7 DEF Unfused!CurrentOp
<1> QED  BY <1>1, <1>3, <1>4, <1>6, <1>7, <1>8 DEF length

\* Going on in the fused graph is going to the base graph's next op.
LEMMA AfterSubOp ==
    ASSUME TypeOK, CutIntoWindows, RunInv, Finished, pos <= Len(new_ops),
           Execution!Advance, UNCHANGED vars
    PROVE  RunInv' /\ BasePos' = BasePos + 1
<1> DEFINE n == Len(new_ops)
           length == Len(SubOps(new_ops[pos]))
<1>1. /\ pos \in 1..n /\ sub \in 1..length /\ BasePos = starts[pos] + sub - 1
      /\ n \in Nat /\ Len(graph.ops) \in Nat
  BY AtSubOp, Zenon DEF CutIntoWindows
<1>2. /\ new_ops' = new_ops /\ graph' = graph /\ i' = i /\ starts' = starts
      /\ Finished' /\ Len(new_ops)' = n
  BY DEF vars, Finished
<1>3. \A k \in 1..n :
         /\ starts[k] \in 1..Len(graph.ops) /\ NextStart(k) \in 1..(Len(graph.ops) + 1)
         /\ NextStart(k) = IF k = n THEN Len(graph.ops) + 1 ELSE starts[k + 1]
         /\ Len(SubOps(new_ops[k])) = NextStart(k) - starts[k] /\ starts[k] < NextStart(k)
  BY Zenon DEF CutIntoWindows
<1>4. FusedGraph.ops = new_ops
  BY FusedOps DEF TypeOK
<1>5. CASE new_ops[pos].kind = "fused" /\ sub < Len(new_ops[pos].attrs.sub_ops)
  <2>1. pos' = pos /\ sub' = sub + 1
    BY <1>4, <1>5 DEF Execution!Advance
  <2>2. length = Len(new_ops[pos].attrs.sub_ops)
    BY <1>5 DEF SubOps
  <2>3. SubOps(new_ops[pos])' = SubOps(new_ops[pos])
    BY <1>2, <2>1 DEF SubOps
  <2>4. RunInv'
    <3>1. sub + 1 <= length /\ sub + 1 \in Nat \ {0} /\ pos \in 1..(n + 1)
      <4>1. length \in Int
        BY <1>1, <1>3
      <4> QED  BY <1>1, <1>5, <2>2, <4>1
    <3> QED  BY <1>2, <2>1, <2>3, <3>1 DEF RunInv
  <2>5. BasePos' = starts[pos] + (sub + 1) - 1
    BY <1>1, <1>2, <2>1 DEF BasePos
  <2>6. starts[pos] \in Int /\ sub \in Int
    BY <1>1, <1>3
  <2> QED  BY <1>1, <2>4, <2>5, <2>6
<1>6. CASE ~ (new_ops[pos].kind = "fused" /\ sub < Len(new_ops[pos].attrs.sub_ops))
  <2>1. pos' = pos + 1 /\ sub' = 1
    BY <1>4, <1>6 DEF Execution!Advance
  <2>2. length = NextStart(pos) - starts[pos] /\ length \in Int /\ starts[pos] \in Int
    BY <1>1, <1>3
  <2>3. sub = length
    <3>1. CASE new_ops[pos].kind = "fused"
      <4>1. length = Len(new_ops[pos].attrs.sub_ops)
        BY <3>1 DEF SubOps
      <4> QED  BY <1>1, <1>6, <2>2, <3>1, <4>1
    <3>2. CASE new_ops[pos].kind # "fused"
      <4>1. length = 1
        BY <3>2 DEF SubOps
      <4> QED  BY <1>1, <4>1
    <3> QED  BY <3>1, <3>2
  <2>4. BasePos + 1 = NextStart(pos)
    <3>1. NextStart(pos) \in Int /\ BasePos = starts[pos] + length - 1
      BY <1>1, <1>3, <2>3
    <3> HIDE DEF length
    <3> QED  BY <2>2, <3>1
  <2>5. CASE pos = n
    <3>1. NextStart(pos) = Len(graph.ops) + 1
      BY <1>1, <1>3, <2>5
    <3>2. BasePos' = Len(graph.ops) + 1
      BY <1>1, <1>2, <2>1, <2>5 DEF BasePos
    <3>3. RunInv'
      BY <1>1, <1>2, <2>1, <2>5 DEF RunInv
    <3> QED  BY <2>4, <3>1, <3>2, <3>3
  <2>6. CASE pos # n
    <3>1. pos + 1 \in 1..n /\ NextStart(pos) = starts[pos + 1]
      BY <1>1, <1>3, <2>6
    <3>2. BasePos' = starts[pos + 1] + 1 - 1
      BY <1>1, <1>2, <2>1, <3>1 DEF BasePos
    <3>3. starts[pos + 1] \in Int
      BY <1>3, <3>1
    <3>4. 1 <= Len(SubOps(new_ops[pos + 1]))
      BY <1>1, <1>3, <3>1
    <3>5. SubOps(new_ops[pos])' = SubOps(new_ops[pos + 1])
      BY <1>2, <2>1 DEF SubOps
    <3>6. RunInv'
      BY <1>1, <1>2, <2>1, <3>1, <3>4, <3>5 DEF RunInv
    <3> QED  BY <2>4, <3>1, <3>2, <3>3, <3>6
  <2> QED  BY <2>5, <2>6
<1> QED  BY <1>5, <1>6

\* An execution that has not begun stands for one that has not begun.
AtStart == pos = 1 /\ sub = 1 => BasePos = 1

LEMMA BeginsAtStart ==
    ASSUME RunInv, Finished => CutIntoWindows
    PROVE  AtStart
<1> SUFFICES ASSUME pos = 1, sub = 1 PROVE BasePos = 1
  BY DEF AtStart
<1>1. CASE ~ Finished
  BY <1>1 DEF BasePos
<1>2. CASE Finished
  <2>1. CutIntoWindows
    BY <1>2
  <2>2. /\ Len(new_ops) \in Nat
        /\ Len(new_ops) = 0 => Len(graph.ops) = 0
        /\ Len(new_ops) > 0 => starts[1] = 1
    BY <2>1, Zenon DEF CutIntoWindows
  <2>3. CASE Len(new_ops) = 0
    BY <1>2, <2>2, <2>3 DEF BasePos
  <2>4. CASE Len(new_ops) > 0
    <3>1. 1 <= Len(new_ops) /\ starts[1] = 1
      BY <2>2, <2>4
    <3>2. BasePos = starts[1] + 1 - 1
      BY <1>2, <3>1 DEF BasePos
    <3> QED  BY <3>1, <3>2
  <2> QED  BY <2>2, <2>3, <2>4
<1> QED  BY <1>1, <1>2

\* A step of the scan leaves the execution at its start.
LEMMA FuseStutters ==
    ASSUME TypeOK, RunInv, (Finished => CutIntoWindows)', Fuse
    PROVE  /\ RunInv' /\ graph' = graph
           /\ pos = 1 /\ sub = 1 /\ UNCHANGED <<pos, sub, env, status>>
<1>1. Scanning /\ graph' = graph
  BY DEF Fuse, KeepOp, KeepAndCount, FuseWindow, FuseAndJump
<1>2. ~ Finished
  BY <1>1, ScanProperties DEF Finished
<1>3. /\ pos = 1 /\ sub = 1 /\ status = "running"
      /\ pos' = pos /\ sub' = sub /\ status' = status /\ env' = env
  BY <1>2 DEF RunInv, Fuse
<1>4. RunInv'
  <2>1. CASE ~ Finished'
    BY <1>3, <2>1 DEF RunInv
  <2>2. CASE Finished'
    <3>1. CutIntoWindows'
      BY <2>2
    <3>2. Len(new_ops') \in Nat
      BY <3>1, Zenon DEF CutIntoWindows
    <3>3. ASSUME 1 <= Len(new_ops') PROVE 1 <= Len(SubOps(new_ops[1])')
      <4>1. 1 \in 1..Len(new_ops')
        BY <3>2, <3>3
      <4>2. /\ Len(SubOps(new_ops[1])') = NextStart(1)' - starts'[1]
            /\ starts'[1] < NextStart(1)' /\ starts'[1] \in 1..Len(graph.ops')
            /\ NextStart(1)' \in 1..(Len(graph.ops') + 1)
        BY <3>1, <4>1, Zenon DEF CutIntoWindows
      <4> QED  BY <4>2
    <3>4. SubOps(new_ops[pos])' = SubOps(new_ops[1])'
      BY <1>3
    <3> QED  BY <1>3, <2>2, <3>2, <3>3, <3>4 DEF RunInv
  <2> QED  BY <2>1, <2>2
<1> QED  BY <1>1, <1>3, <1>4

\* A step of the execution of the fused graph.
LEMMA ExecuteSteps ==
    ASSUME TypeOK, RunInv, Finished => CutIntoWindows, Execute
    PROVE  RunInv' /\ Unfused!Next
<1>1. Finished /\ CutIntoWindows /\ UNCHANGED vars /\ Execution!Next
  BY DEF Execute
<1>2. /\ new_ops' = new_ops /\ graph' = graph /\ Finished' /\ Len(new_ops) \in Nat
      /\ Len(graph.ops) \in Nat /\ pos \in 1..(Len(new_ops) + 1)
      /\ starts' = starts
  BY <1>1, Zenon DEF vars, Finished, CutIntoWindows, RunInv
<1>3. FusedGraph.ops = new_ops
  BY FusedOps DEF TypeOK
<1>4. \A op : /\ Execution!CanRun(op) <=> Unfused!CanRun(op)
              /\ Execution!Assign(env, op) = Unfused!Assign(env, op)
  BY SameOperators DEF Execution!CanRun, Unfused!CanRun
<1>5. CASE pos <= Len(new_ops)
  <2>1. /\ Execution!CurrentOp = graph.ops[BasePos] /\ Unfused!CurrentOp = graph.ops[BasePos]
        /\ BasePos \in 1..Len(graph.ops) /\ graph.ops[BasePos].kind # "fused"
    BY <1>1, <1>5, AtSubOp
  <2>2. Execution!AtOp <=> Unfused!AtOp
    BY <1>2, <1>3, <1>5, <2>1 DEF Execution!AtOp, Unfused!AtOp
  <2>3. CASE Execution!RunOp
    <3>1. Execution!Advance
      BY <2>3 DEF Execution!RunOp
    <3>2. RunInv' /\ BasePos' = BasePos + 1
      BY <1>1, <1>5, <3>1, AfterSubOp
    <3>3. Unfused!Advance
      BY <2>1, <3>2 DEF Unfused!Advance
    <3>4. Unfused!RunOp
      BY <1>2, <1>4, <2>1, <2>2, <2>3, <3>3 DEF Execution!RunOp, Unfused!RunOp
    <3> QED  BY <3>2, <3>4 DEF Unfused!Next
  <2>4. CASE Execution!Raise
    <3>1. pos' = pos /\ sub' = sub /\ env' = env /\ status' = "raised"
      BY <2>4 DEF Execution!Raise
    <3>2. RunInv' /\ BasePos' = BasePos
      BY <1>1, <1>2, <3>1 DEF RunInv, BasePos
    <3>3. Unfused!Raise
      BY <1>2, <1>4, <2>1, <2>2, <2>4, <3>1, <3>2 DEF Execution!Raise, Unfused!Raise
    <3> QED  BY <3>2, <3>3 DEF Unfused!Next
  <2>5. CASE Execution!Terminated
    <3>1. pos' = pos /\ sub' = sub /\ env' = env /\ status' = status /\ status # "running"
      BY <2>5 DEF Execution!Terminated, Execution!Halted, Execution!vars
    <3>2. RunInv' /\ BasePos' = BasePos
      BY <1>1, <1>2, <3>1 DEF RunInv, BasePos
    <3>3. Unfused!Terminated
      BY <1>2, <3>1, <3>2 DEF Unfused!Terminated, Unfused!Halted, Unfused!vars
    <3> QED  BY <3>2, <3>3 DEF Unfused!Next
  <2>6. ~ Execution!Return
    BY <1>2, <1>3, <1>5 DEF Execution!Return
  <2> QED  BY <1>1, <2>3, <2>4, <2>5, <2>6 DEF Execution!Next
<1>6. CASE ~ (pos <= Len(new_ops))
  <2>1. BasePos = Len(graph.ops) + 1
    BY <1>1, <1>6 DEF BasePos
  <2>2. ~ Execution!AtOp
    BY <1>3, <1>6 DEF Execution!AtOp
  <2>3. CASE Execution!Return
    <3>1. pos' = pos /\ sub' = sub /\ env' = env /\ status' = "returned" /\ status = "running"
      BY <2>3 DEF Execution!Return
    <3>2. RunInv' /\ BasePos' = BasePos
      BY <1>1, <1>2, <3>1 DEF RunInv, BasePos
    <3>3. BasePos > Len(graph.ops)
      BY <1>2, <2>1
    <3>4. Unfused!Return
      BY <1>2, <3>1, <3>2, <3>3 DEF Unfused!Return
    <3> QED  BY <3>2, <3>4 DEF Unfused!Next
  <2>4. CASE Execution!Terminated
    <3>1. pos' = pos /\ sub' = sub /\ env' = env /\ status' = status /\ status # "running"
      BY <2>4 DEF Execution!Terminated, Execution!Halted, Execution!vars
    <3>2. RunInv' /\ BasePos' = BasePos
      BY <1>1, <1>2, <3>1 DEF RunInv, BasePos
    <3>3. Unfused!Terminated
      BY <1>2, <3>1, <3>2 DEF Unfused!Terminated, Unfused!Halted, Unfused!vars
    <3> QED  BY <3>2, <3>3 DEF Unfused!Next
  <2> QED  BY <1>1, <2>2, <2>3, <2>4 DEF Execution!Next, Execution!RunOp, Execution!Raise
<1> QED  BY <1>5, <1>6

LEMMA RunInvariant == RunSpec => [](TypeOK /\ RunInv /\ (Finished => CutIntoWindows) /\ AtStart)
<1>1. RunInit /\ TypeOK /\ (Finished => CutIntoWindows) => RunInv
  <2> SUFFICES ASSUME RunInit, TypeOK, Finished => CutIntoWindows
               PROVE  RunInv
    OBVIOUS
  <2>1. new_ops = <<>> /\ pos = 1 /\ sub = 1 /\ status = "running"
    BY DEF RunInit, Init
  <2> QED  BY <2>1 DEF RunInv
<1>2. /\ TypeOK /\ RunInv /\ (Finished => CutIntoWindows) /\ (Finished => CutIntoWindows)'
      /\ [RunNext]_runVars
      => RunInv'
  <2> SUFFICES ASSUME TypeOK, RunInv, Finished => CutIntoWindows,
                      (Finished => CutIntoWindows)', [RunNext]_runVars
               PROVE  RunInv'
    OBVIOUS
  <2>1. CASE Fuse
    BY <2>1, FuseStutters
  <2>2. CASE Execute
    BY <2>2, ExecuteSteps
  <2>3. CASE UNCHANGED runVars
    BY <2>3 DEF runVars, vars, RunInv, Finished
  <2> QED  BY <2>1, <2>2, <2>3 DEF RunNext
<1>3. RunInv /\ (Finished => CutIntoWindows) => AtStart
  BY BeginsAtStart
<1> QED  BY <1>1, <1>2, <1>3, RunsTheScan, TypeCorrect, PTL DEF RunSpec

\* "Fusion here does not change *what* is computed": for every base graph,
\* every list of patterns and every arithmetic, fusing and executing the fused
\* graph is an execution of the base graph, op by op and tensor by tensor.
THEOREM FusionImplementsUnfused ==
    RunSpec => Unfused!Init /\ [][Unfused!Next]_(Unfused!vars)
<1>1. RunInit /\ AtStart => Unfused!Init
  <2> SUFFICES ASSUME RunInit, AtStart PROVE Unfused!Init
    OBVIOUS
  <2>1. /\ graph \in Graphs /\ BasePos = 1 /\ status = "running"
        /\ env = Execution!InitialTensors(graph)
    BY DEF RunInit, Init, AtStart
  <2> QED  BY <2>1, SameOperators DEF Unfused!Init
<1>2. /\ TypeOK /\ RunInv /\ (Finished => CutIntoWindows) /\ AtStart
      /\ (Finished => CutIntoWindows)' /\ AtStart'
      /\ [RunNext]_runVars
      => [Unfused!Next]_(Unfused!vars)
  <2> SUFFICES ASSUME TypeOK, RunInv, Finished => CutIntoWindows, AtStart,
                      (Finished => CutIntoWindows)', AtStart', [RunNext]_runVars
               PROVE  [Unfused!Next]_(Unfused!vars)
    OBVIOUS
  <2>1. CASE Fuse
    <3>1. /\ graph' = graph /\ env' = env /\ status' = status
          /\ pos = 1 /\ sub = 1 /\ pos' = 1 /\ sub' = 1
      BY <2>1, FuseStutters
    <3>2. BasePos = 1 /\ BasePos' = 1
      BY <3>1 DEF AtStart
    <3> QED  BY <3>1, <3>2 DEF Unfused!vars
  <2>2. CASE Execute
    BY <2>2, ExecuteSteps
  <2>3. CASE UNCHANGED runVars
    <3>1. BasePos' = BasePos
      BY <2>3 DEF runVars, vars, BasePos, Finished
    <3> QED  BY <2>3, <3>1 DEF runVars, vars, Unfused!vars
  <2> QED  BY <2>1, <2>2, <2>3 DEF RunNext
<1> QED  BY <1>1, <1>2, RunInvariant, PTL DEF RunSpec

----------------------------------------------------------------------------
(***************************************************************************)
(* What the scan's result is to the passes that come after it.             *)
(***************************************************************************)

\* What the fusion pass is known to keep true.
ScanInv ==
    /\ TypeOK /\ GraphAccepted /\ ResultInOrder
    /\ FusedGraphVerifies /\ InterfaceExact /\ ExecutionOrderPreserved

\* The interface and the given tensors of g are those of the base graph.
Serves(g) ==
    /\ g.graph_inputs = graph.graph_inputs
    /\ g.graph_outputs = graph.graph_outputs
    /\ External(g) \subseteq External(graph)

\* What the fusion pass hands on.
LEMMA FusedGraphServes ==
    ASSUME ScanInv, Finished
    PROVE  /\ FusedGraph.ops = new_ops /\ IsGraph(FusedGraph) /\ Verified(FusedGraph)
           /\ Serves(FusedGraph) /\ WrittenBy(new_ops) = WrittenBy(graph.ops)
<1>1. /\ graph = MkGraph(graph.ops, graph.shapes, graph.graph_inputs, graph.graph_outputs)
      /\ graph.ops \in Seq(PlainOp) /\ graph.ops \in Seq(Range(graph.ops))
      /\ graph.graph_inputs \in Seq(Range(graph.graph_inputs))
      /\ graph.graph_outputs \in Seq(Range(graph.graph_outputs))
  BY GraphsAssumption, OwnRange DEF ScanInv, GraphAccepted, IsBaseGraph
<1>2. /\ FusedGraph.ops = new_ops /\ FusedGraph.shapes = graph.shapes
      /\ FusedGraph.graph_inputs = graph.graph_inputs
      /\ FusedGraph.graph_outputs = graph.graph_outputs
      /\ FusedGraph = MkGraph(new_ops, graph.shapes, graph.graph_inputs, graph.graph_outputs)
  BY <1>1 DEF FusedGraph, MkGraph
<1>3. WrittenBy(new_ops) = WrittenBy(graph.ops)
  <2>1. i \in 1..(Len(graph.ops) + 1) /\ i = Len(graph.ops) + 1
    BY <1>1, LenProperties DEF ScanInv, TypeOK, Finished
  <2>2. SubSeq(graph.ops, 1, i - 1) = graph.ops
    BY <1>1, <2>1, PrefixOfAppend
  <2> QED  BY <2>2 DEF ScanInv, ResultInOrder
<1>4. new_ops \in Seq(Range(new_ops)) /\ \A k \in DOMAIN new_ops : IsOp(new_ops[k])
  <2>1. new_ops \in Seq(PlainOp \cup FusedOp)
    BY DEF ScanInv, TypeOK
  <2>2. ASSUME NEW op \in PlainOp \cup FusedOp PROVE IsOp(op)
    <3>1. op = MkOp(op.name, op.kind, op.inputs, op.outputs, op.attrs)
      BY DEF PlainOp, FusedOp, MkOp
    <3>2. op.inputs \in Seq(Tensor) /\ op.outputs \in Seq(Tensor)
      BY DEF PlainOp, FusedOp
    <3> QED  BY <3>1, <3>2, OwnRange DEF IsOp
  <2>3. \A k \in DOMAIN new_ops : new_ops[k] \in PlainOp \cup FusedOp
    BY <2>1, LenProperties, ElementOfSeq
  <2> QED  BY <2>1, <2>2, <2>3, OwnRange
<1>5. IsGraph(FusedGraph)
  BY <1>1, <1>2, <1>4 DEF IsGraph
<1>6. Verified(FusedGraph)
  BY DEF ScanInv, FusedGraphVerifies
<1>7. Serves(FusedGraph)
  BY <1>2, <1>3 DEF Serves, External
<1> QED  BY <1>2, <1>3, <1>5, <1>6, <1>7

\* The values v give its outputs are those it computes of its inputs.
SolvedIn(op, v) ==
    \A o \in DOMAIN op.outputs :
        v[op.outputs[o]] = Compute(op.kind, op.attrs.param,
                                   [j \in DOMAIN op.inputs |-> v[op.inputs[j]]], o)

LEMMA AllOfIt ==
    ASSUME NEW s, s \in Seq(Range(s))
    PROVE  SubSeq(s, 1, Len(s)) = s
<1>1. Len(s) \in Nat /\ DOMAIN s = 1..Len(s)
  BY PositionsOfList
<1>2. (Len(s) + 1) - 1 = Len(s) /\ Len(s) + 1 \in 1..(Len(s) + 1)
  BY <1>1
<1> QED  BY <1>2, PrefixOfAppend

LEMMA PlainLists ==
    ASSUME NEW op \in PlainOp
    PROVE  op.inputs \in Seq(Range(op.inputs)) /\ op.outputs \in Seq(Range(op.outputs))
<1>1. op.inputs \in Seq(Tensor) /\ op.outputs \in Seq(Tensor)
  BY DEF PlainOp
<1> QED  BY <1>1, OwnRange

\* What the ops of the list write before the m-th.
EarlierIn(ops, m) == UNION {Range(ops[l].outputs) : l \in {j \in DOMAIN ops : j < m}}

\* The interface of op covers what it runs, but for the reads of tensors in S.
Fits(op, S) ==
    /\ SubOps(op) \in Seq(Range(SubOps(op)))
    /\ Len(SubOps(op)) > 0
    /\ Range(op.outputs) = WrittenBy(SubOps(op))
    /\ \A m \in DOMAIN SubOps(op) :
          Range(SubOps(op)[m].inputs) \subseteq Range(op.inputs) \cup EarlierIn(SubOps(op), m) \cup S

AllFit(ops, S) == \A k \in DOMAIN ops : Fits(ops[k], S)

\* The ops that fusion makes fit: each runs base ops, and reads what these do.
LEMMA FusedOpsFit ==
    ASSUME ScanInv, Finished
    PROVE  /\ AllFit(new_ops, {})
           /\ \A k \in DOMAIN new_ops : \A m \in DOMAIN SubOps(new_ops[k]) :
                 \E j \in DOMAIN graph.ops : SubOps(new_ops[k])[m] = graph.ops[j]
<1>1. CutIntoWindows
  BY FinishedWindows DEF ScanInv
<1>2. graph.ops \in Seq(Range(graph.ops))
  BY <1>1, OwnRange, Zenon DEF CutIntoWindows
<1>3. ASSUME NEW k \in DOMAIN new_ops
      PROVE  /\ Fits(new_ops[k], {})
             /\ \A m \in DOMAIN SubOps(new_ops[k]) :
                   \E j \in DOMAIN graph.ops : SubOps(new_ops[k])[m] = graph.ops[j]
  <2> DEFINE ops == SubOps(new_ops[k])
  <2>1. /\ k \in 1..Len(new_ops) /\ k \in DOMAIN starts
        /\ starts[k] \in 1..(Len(graph.ops) + 1) /\ NextStart(k) \in 1..(Len(graph.ops) + 1)
        /\ starts[k] < NextStart(k) /\ starts[k] <= NextStart(k)
        /\ NextStart(k) - starts[k] > 0
    <3>1. k \in 1..Len(new_ops) /\ k \in DOMAIN starts
      BY <1>1, LenProperties DEF CutIntoWindows, ScanInv, TypeOK
    <3>2. /\ starts[k] \in 1..Len(graph.ops) /\ NextStart(k) \in 1..(Len(graph.ops) + 1)
          /\ starts[k] < NextStart(k) /\ Len(graph.ops) \in Nat
      BY <1>1, <3>1, Zenon DEF CutIntoWindows
    <3> QED  BY <3>1, <3>2
  <2>2. ops = SubSeq(graph.ops, starts[k], NextStart(k) - 1)
    BY <2>1 DEF ScanInv, ExecutionOrderPreserved
  <2>3. /\ ops \in Seq(Range(ops)) /\ Len(ops) = NextStart(k) - starts[k]
        /\ \A m \in DOMAIN ops : \E j \in DOMAIN graph.ops : ops[m] = graph.ops[j]
    <3>1. LET window == SubSeq(graph.ops, starts[k], NextStart(k) - 1) IN
          /\ window \in Seq(Range(window)) /\ Len(window) = NextStart(k) - starts[k]
          /\ DOMAIN window = 1..(NextStart(k) - starts[k])
          /\ \A m \in 1..(NextStart(k) - starts[k]) :
                starts[k] + m - 1 \in DOMAIN graph.ops
                /\ window[m] = graph.ops[starts[k] + m - 1]
      BY <1>2, <2>1, WindowOps, Zenon
    <3> HIDE DEF ops
    <3> QED  BY <2>2, <3>1
  <2>4. /\ Range(new_ops[k].inputs) = NeedsFromOutside(ops)
        /\ Range(new_ops[k].outputs) = WrittenBy(ops)
    BY DEF ScanInv, InterfaceExact
  <2>5. ASSUME NEW m \in DOMAIN ops
        PROVE  Range(ops[m].inputs) \subseteq Range(new_ops[k].inputs) \cup EarlierIn(ops, m) \cup {}
    <3> HIDE DEF ops
    <3>1. m \in 1..(Len(ops) + 1)
      BY <2>3, PositionsOfList
    <3>2. WrittenBy(SubSeq(ops, 1, m - 1)) \subseteq EarlierIn(ops, m)
      <4> SUFFICES ASSUME NEW t \in WrittenBy(SubSeq(ops, 1, m - 1)) PROVE t \in EarlierIn(ops, m)
        OBVIOUS
      <4>1. PICK l \in DOMAIN ops : l < m /\ t \in Range(ops[l].outputs)
        BY <2>3, <3>1, PrefixWriters
      <4> QED  BY <4>1 DEF EarlierIn
    <3>3. Range(ops[m].inputs) \ WrittenBy(SubSeq(ops, 1, m - 1)) \subseteq NeedsFromOutside(ops)
      BY DEF NeedsFromOutside
    <3> QED  BY <2>4, <3>2, <3>3
  <2>6. Len(ops) > 0
    BY <2>1, <2>3
  <2> QED  BY <2>3, <2>4, <2>5, <2>6 DEF Fits
<1>4. AllFit(new_ops, {})
  BY <1>3 DEF AllFit
<1> QED  BY <1>3, <1>4

\* What a plain op runs is itself.
LEMMA OneOp ==
    ASSUME NEW op
    PROVE  /\ <<op>> \in Seq(Range(<<op>>)) /\ Len(<<op>>) = 1 /\ DOMAIN <<op>> = {1}
           /\ <<op>>[1] = op /\ WrittenBy(<<op>>) = Range(op.outputs)
           /\ op.kind # "fused" => SubOps(op) = <<op>>
<1>1. <<op>> \in Seq(Range(<<op>>)) /\ Len(<<op>>) = 1 /\ DOMAIN <<op>> = {1} /\ <<op>>[1] = op
  BY DEF Range
<1> QED  BY <1>1 DEF SubOps, WrittenBy

\* The ops of the engine's graph keep all that from pass to pass.
LEMMA FitsMore ==
    ASSUME NEW ops, NEW S, NEW T, AllFit(ops, S), S \subseteq T
    PROVE  AllFit(ops, T)
<1>1. \A op : Fits(op, S) => Fits(op, T)
  BY DEF Fits
<1> QED  BY <1>1 DEF AllFit

----------------------------------------------------------------------------
(***************************************************************************)
(* Its account.  Ops are accounted for by their names, as the passes       *)
(* report them.                                                            *)
(***************************************************************************)

\* What the items of a list weigh, each for itself.
Weighed(w, s) == Total([k \in DOMAIN s |-> w[s[k]]], DOMAIN s)

LEMMA WeighIn ==
    ASSUME NEW w, NEW s, s \in Seq(Range(s)), \A x \in Range(s) : w[x] \in Nat
    PROVE  /\ IsFiniteSet(DOMAIN s) /\ Weighed(w, s) \in Nat
           /\ \A k \in DOMAIN s : [j \in DOMAIN s |-> w[s[j]]][k] \in Nat
<1>1. IsFiniteSet(DOMAIN s)
  BY PositionsOfList, PositionsCounted
<1>2. \A k \in DOMAIN s : s[k] \in Range(s)
  BY DEF Range
<1> QED  BY <1>1, <1>2, TotalIsNat DEF Weighed

LEMMA WeighNothing == ASSUME NEW w PROVE Weighed(w, <<>>) = 0
<1>1. DOMAIN <<>> = {}
  BY EmptySeq
<1> QED  BY <1>1, TotalEmpty DEF Weighed

LEMMA WeighOneMore ==
    ASSUME NEW w, NEW s, s \in Seq(Range(s)), NEW x, \A y \in Range(s) \cup {x} : w[y] \in Nat
    PROVE  Weighed(w, Append(s, x)) = Weighed(w, s) + w[x]
<1> DEFINE n == Len(s)
           longer == Append(s, x)
           f == [k \in DOMAIN s |-> w[s[k]]]
           g == [k \in DOMAIN longer |-> w[longer[k]]]
<1>1. /\ n \in Nat /\ DOMAIN s = 1..n /\ DOMAIN longer = 1..(n + 1)
      /\ \A k \in 1..n : longer[k] = s[k]
      /\ longer[n + 1] = x
  BY AppendedAt, PositionsOfList
<1> HIDE DEF longer, n
<1>2. \A k \in 1..n : s[k] \in Range(s)
  BY <1>1 DEF Range
<1>3. /\ 1..(n + 1) = (1..n) \cup {n + 1} /\ n + 1 \notin 1..n
      /\ \A k \in 1..n : k \in 1..(n + 1)
  BY <1>1
<1>4. g[n + 1] = w[x] /\ w[x] \in Nat /\ \A k \in 1..n : g[k] = f[k] /\ f[k] \in Nat
  BY <1>1, <1>2, <1>3
<1>5. Weighed(w, s) = Total(f, 1..n) /\ Weighed(w, longer) = Total(g, 1..(n + 1))
  BY <1>1 DEF Weighed
<1> HIDE DEF f, g
<1>6. IsFiniteSet(1..n)
  BY <1>1, PositionsCounted
<1>7. \A k \in 1..n : g[k] \in Int
  BY <1>4
<1>8. Total(g, (1..n) \cup {n + 1}) = g[n + 1] + Total(g, 1..n)
  <2>1. g[n + 1] \in Int
    BY <1>4
  <2> QED  BY <1>3, <1>6, <1>7, <2>1, TotalAdd
<1>9. Total(g, 1..n) = Total(f, 1..n)
  BY <1>4, <1>6, TotalSame
<1>10. Total(f, 1..n) \in Nat
  BY <1>4, <1>6, TotalIsNat
<1>11. Weighed(w, longer) = w[x] + Weighed(w, s)
  BY <1>3, <1>4, <1>5, <1>8, <1>9
<1> HIDE DEF Weighed
<1>12. Weighed(w, s) \in Nat /\ w[x] \in Nat
  BY <1>4, <1>5, <1>10
<1> QED  BY <1>11, <1>12 DEF longer

LEMMA WeighBoth ==
    ASSUME NEW w, NEW s, s \in Seq(Range(s)), NEW u, u \in Seq(Range(u)),
           \A x \in Range(s) \cup Range(u) : w[x] \in Nat
    PROVE  Weighed(w, s \o u) = Weighed(w, s) + Weighed(w, u)
<1> DEFINE n == Len(s)
           m == Len(u)
           both == s \o u
           g == [k \in DOMAIN both |-> w[both[k]]]
           f == [k \in DOMAIN s |-> w[s[k]]]
           e == [k \in DOMAIN u |-> w[u[k]]]
           h == [k \in 1..m |-> n + k]
           A == 1..n
           B == {h[k] : k \in 1..m}
<1>1. n \in Nat /\ m \in Nat /\ DOMAIN s = 1..n /\ DOMAIN u = 1..m
  BY PositionsOfList
<1>2. /\ DOMAIN both = 1..(n + m)
      /\ \A k \in 1..n : both[k] = s[k]
      /\ \A k \in 1..m : both[n + k] = u[k]
  <2>1. s \in Seq(Range(s) \cup Range(u)) /\ u \in Seq(Range(s) \cup Range(u))
    <3>1. s \in [1..n -> Range(s) \cup Range(u)] /\ u \in [1..m -> Range(s) \cup Range(u)]
      BY <1>1 DEF Range
    <3> QED  BY <1>1, <3>1, SeqDef
  <2>2. Len(both) = n + m /\ both \in Seq(Range(s) \cup Range(u))
        /\ \A k \in 1..(n + m) : both[k] = IF k <= n THEN s[k] ELSE u[k - n]
    BY <2>1, ConcatProperties
  <2>3. DOMAIN both = 1..(n + m)
    BY <2>2, LenProperties
  <2> HIDE DEF both
  <2>4. ASSUME NEW k \in 1..n PROVE k \in 1..(n + m) /\ k <= n
    BY <1>1
  <2>5. ASSUME NEW k \in 1..m PROVE n + k \in 1..(n + m) /\ ~ (n + k <= n) /\ (n + k) - n = k
    BY <1>1
  <2> QED  BY <2>2, <2>3, <2>4, <2>5
<1> HIDE DEF both, n, m
<1>3. DOMAIN both = A \cup B /\ A \cap B = {} /\ \A k \in 1..m : h[k] \in B
  <2>1. \A k \in 1..m : h[k] = n + k /\ n + k \in 1..(n + m) /\ n + k \notin 1..n
    BY <1>1
  <2>2. \A k \in 1..(n + m) : k \in 1..n \/ (k - n \in 1..m /\ n + (k - n) = k)
    BY <1>1
  <2>3. \A k \in 1..n : k \in 1..(n + m)
    BY <1>1
  <2>4. \A k \in 1..(n + m) : k \in A \/ k \in B
    BY <2>1, <2>2
  <2>5. \A k \in B : k \in 1..(n + m) /\ k \notin 1..n
    BY <2>1
  <2> QED  BY <1>2, <2>3, <2>4, <2>5
<1>4. \A k \in 1..m : h[k] = n + k
  OBVIOUS
<1>5. \A j, k \in 1..m : h[j] = h[k] => j = k
  BY <1>1
<1>6. (\A k \in 1..n : s[k] \in Range(s)) /\ (\A k \in 1..m : u[k] \in Range(u))
  BY <1>1 DEF Range
<1>7. \A k \in 1..n : g[k] = f[k] /\ f[k] \in Nat
  BY <1>1, <1>2, <1>3, <1>6
<1>8. \A k \in 1..m : g[h[k]] = e[k] /\ e[k] \in Nat
  BY <1>1, <1>2, <1>3, <1>4, <1>6
<1>9. /\ Weighed(w, both) = Total(g, A \cup B) /\ Weighed(w, s) = Total(f, A)
      /\ Weighed(w, u) = Total(e, 1..m)
  BY <1>1, <1>3 DEF Weighed
<1> HIDE DEF f, g, e, h
<1>10. IsFiniteSet(A) /\ IsFiniteSet(1..m)
  BY <1>1, PositionsCounted
<1>11. IsFiniteSet(B)
  <2>1. n + m \in Nat
    BY <1>1
  <2>2. IsFiniteSet(1..(n + m)) /\ B \subseteq 1..(n + m)
    BY <1>2, <1>3, <2>1, PositionsCounted
  <2> QED  BY <2>2, FS_Subset
<1>12. \A x \in A \cup B : g[x] \in Int
  BY <1>7, <1>8
<1>13. Total(g, A) = Total(f, A)
  BY <1>7, <1>10, TotalSame
<1>14. Total(g, B) = Total(e, 1..m)
  <2> DEFINE M == 1..m
  <2>1. \A k \in M : e[k] \in Int /\ e[k] = g[h[k]]
    BY <1>8
  <2>2. IsFiniteSet(M) /\ \A j, k \in M : h[j] = h[k] => j = k
    BY <1>5, <1>10
  <2> HIDE DEF M
  <2>3. Total(g, {h[k] : k \in M}) = Total(e, M)
    BY <2>1, <2>2, TotalRenamed
  <2> QED  BY <2>3 DEF M
<1> HIDE DEF A, B
<1>15. Total(g, A \cup B) = Total(g, A) + Total(g, B)
  BY <1>3, <1>10, <1>11, <1>12, TotalUnion
<1> QED  BY <1>9, <1>13, <1>14, <1>15 DEF both

\* What the names of the ops picked weigh is what the ops at those positions
\* do, so that the picked and the others account for all.
NamesOf(ops) == [k \in DOMAIN ops |-> ops[k].name]

\* The scan: every record is of an op of the result, and the new ops run as
\* many ops as the scan has passed.
RecordsName ==
    \A r \in DOMAIN records : \E k \in DOMAIN new_ops :
        /\ new_ops[k].kind = "fused"
        /\ records[r].fused_op_name = new_ops[k].name
        /\ Len(records[r].sub_op_names) = Len(SubOps(new_ops[k]))

OpRuns == [op \in PlainOp \cup FusedOp |-> Len(SubOps(op))]

RunsAddUp ==
    /\ \A k \in DOMAIN new_ops : Len(SubOps(new_ops[k])) \in Nat
    /\ \A k \in DOMAIN new_ops : new_ops[k].kind # "fused" => Len(SubOps(new_ops[k])) = 1
    /\ Weighed(OpRuns, new_ops) = i - 1

ScanAccount == RecordsName /\ RunsAddUp

LEMMA RecordsKeepNaming ==
    ASSUME TypeOK, RecordsName, [ScanNext]_vars
    PROVE  RecordsName'
<1> DEFINE n == Len(new_ops)
<1>1. CASE KeepAndCount(fuse_idx)
  <2>1. Scanning /\ new_ops' = Append(new_ops, graph.ops[i]) /\ records' = records
    BY <1>1 DEF KeepAndCount
  <2>2. graph.ops[i] \in PlainOp
    BY <2>1, ScanProperties
  <2>3. DOMAIN new_ops \subseteq DOMAIN new_ops' /\ \A k \in DOMAIN new_ops : new_ops'[k] = new_ops[k]
    <3>1. /\ n \in Nat /\ DOMAIN new_ops = 1..n /\ DOMAIN new_ops' = 1..(n + 1)
          /\ \A k \in 1..n : new_ops'[k] = new_ops[k]
      BY <2>1, <2>2, AppendedOps
    <3> HIDE DEF n
    <3> QED  BY <3>1
  <2> QED  BY <2>1, <2>3 DEF RecordsName
<1>2. CASE \E p \in Matches(graph.ops, i) : FuseAndJump(p, Length(p))
  <2>1. PICK p \in Matches(graph.ops, i) : FuseAndJump(p, Length(p))
    BY <1>2
  <2> DEFINE length == Len(Patterns[p].kinds)
             window == SubSeq(graph.ops, i, i + length - 1)
             fused == MakeFusedOp(window, Patterns[p].fused_kind, fuse_idx)
             names == [k \in DOMAIN window |-> window[k].name]
             rec == [fused_op_name |-> fused.name, fused_kind |-> Patterns[p].fused_kind,
                     sub_op_names |-> names]
  <2>2. records' = Append(records, rec)
    BY <2>1 DEF FuseAndJump, Window, Length
  <2>3. /\ fused \in FusedOp /\ fused.kind = "fused"
        /\ fused.attrs.sub_ops = window /\ new_ops' = Append(new_ops, fused)
    BY <2>1, FuseProperties
  <2>4. /\ n \in Nat /\ DOMAIN new_ops = 1..n /\ DOMAIN new_ops' = 1..(n + 1)
        /\ \A k \in 1..n : new_ops'[k] = new_ops[k]
        /\ new_ops'[n + 1] = fused
    <3> HIDE DEF fused, window, length
    <3> QED  BY <2>3, AppendedOps
  <2>5. Len(names) = Len(window)
    <3>1. DOMAIN names = DOMAIN window
      OBVIOUS
    <3>2. window \in Seq(Range(window))
      <4>1. fused.attrs.sub_ops \in Seq(PlainOp)
        BY <2>3 DEF FusedOp
      <4> HIDE DEF fused, window
      <4> QED  BY <2>3, <4>1, OwnRange
    <3>3. Len(window) \in Nat /\ DOMAIN window = 1..Len(window)
      BY <3>2, PositionsOfList
    <3>4. names \in [1..Len(window) -> Range(names)]
      BY <3>3 DEF Range
    <3> HIDE DEF names, window
    <3> QED  BY <3>3, <3>4, LenProperties, SeqDef
  <2>6. SubOps(fused) = window
    BY <2>3, SMTT(30) DEF SubOps
  <2>7. rec.fused_op_name = fused.name /\ Len(rec.sub_op_names) = Len(window)
    BY <2>5
  <2> HIDE DEF rec, names, fused, window, n
  <2>8. records \in Seq(Range(records))
    BY OwnRange DEF TypeOK
  <2>9. \A r \in DOMAIN records' : (r \in DOMAIN records /\ records'[r] = records[r]) \/ records'[r] = rec
    <3>1. /\ DOMAIN records' = 1..(Len(records) + 1)
          /\ \A r \in 1..Len(records) : records'[r] = records[r]
          /\ records'[Len(records) + 1] = rec
      BY <2>2, <2>8, AppendedAt
    <3>2. Len(records) \in Nat /\ DOMAIN records = 1..Len(records)
      BY <2>8, PositionsOfList
    <3> QED  BY <3>1, <3>2
  <2>10. \A k \in DOMAIN new_ops : k \in DOMAIN new_ops' /\ new_ops'[k] = new_ops[k]
    BY <2>4
  <2>11. n + 1 \in DOMAIN new_ops'
    BY <2>4
  <2> QED  BY <2>3, <2>4, <2>6, <2>7, <2>9, <2>10, <2>11 DEF RecordsName
<1>3. CASE UNCHANGED vars
  BY <1>3 DEF vars, RecordsName
<1> QED  BY <1>1, <1>2, <1>3 DEF ScanNext

LEMMA RunsKeepAddingUp ==
    ASSUME TypeOK, GraphAccepted, RunsAddUp, [ScanNext]_vars
    PROVE  RunsAddUp'
<1>1. CASE ScanNext
  <2>1. PICK op, j : /\ j \in 1..(Len(graph.ops) + 1) /\ i < j
                     /\ i \in 1..(Len(graph.ops) + 1)
                     /\ StandsFor(op, SubSeq(graph.ops, i, j - 1))
                     /\ new_ops' = Append(new_ops, op) /\ i' = j /\ graph' = graph
    BY <1>1, StepAppends
  <2> DEFINE n == Len(new_ops)
             window == SubSeq(graph.ops, i, j - 1)
  <2>2. op \in PlainOp \cup FusedOp /\ SubOps(op) = window
    BY <2>1 DEF StandsFor
  <2>3. Len(window) = j - i /\ Len(graph.ops) \in Nat /\ j \in Int /\ i \in Int /\ j - i \in Nat
    <3>1. graph.ops \in Seq(Range(graph.ops))
      BY GraphsAssumption, OwnRange DEF GraphAccepted, IsBaseGraph
    <3>2. Len(graph.ops) \in Nat
      BY <3>1, PositionsOfList
    <3>3. i <= j
      BY <2>1, <3>2
    <3>4. Len(window) = j - i
      BY <2>1, <3>1, <3>3, WindowOps
    <3> HIDE DEF window
    <3> QED  BY <2>1, <3>2, <3>4
  <2>4. op.kind # "fused" => Len(SubOps(op)) = 1
    BY OneOp
  <2> HIDE DEF window
  <2>5. /\ n \in Nat /\ DOMAIN new_ops = 1..n /\ DOMAIN new_ops' = 1..(n + 1)
        /\ \A k \in 1..n : new_ops'[k] = new_ops[k]
        /\ new_ops'[n + 1] = op
    BY <2>1, <2>2, AppendedOps
  <2>6. \A k \in DOMAIN new_ops' : (k \in DOMAIN new_ops /\ new_ops'[k] = new_ops[k]) \/ new_ops'[k] = op
    <3> HIDE DEF n
    <3> QED  BY <2>5
  <2>7. \A k \in DOMAIN new_ops' : /\ Len(SubOps(new_ops'[k])) \in Nat
                                  /\ new_ops'[k].kind # "fused" => Len(SubOps(new_ops'[k])) = 1
    BY <2>2, <2>3, <2>4, <2>6 DEF RunsAddUp
  <2>8. new_ops \in Seq(Range(new_ops)) /\ Range(new_ops) \subseteq PlainOp \cup FusedOp
    <3>1. new_ops \in Seq(PlainOp \cup FusedOp)
      BY DEF TypeOK
    <3>2. \A k \in DOMAIN new_ops : new_ops[k] \in PlainOp \cup FusedOp
      BY <3>1, LenProperties, ElementOfSeq
    <3> QED  BY <3>1, <3>2, OwnRange DEF Range
  <2>9. \A x \in Range(new_ops) \cup {op} : OpRuns[x] = Len(SubOps(x)) /\ OpRuns[x] \in Nat
    <3>1. \A x \in PlainOp \cup FusedOp : OpRuns[x] = Len(SubOps(x))
      BY DEF OpRuns
    <3>2. \A x \in Range(new_ops) \cup {op} : Len(SubOps(x)) \in Nat
      BY <2>2, <2>3 DEF RunsAddUp, Range
    <3> QED  BY <2>2, <2>8, <3>1, <3>2
  <2>10. Weighed(OpRuns, new_ops') = Weighed(OpRuns, new_ops) + OpRuns[op]
    BY <2>1, <2>8, <2>9, WeighOneMore
  <2>11. OpRuns[op] = j - i /\ Weighed(OpRuns, new_ops) = i - 1
    BY <2>2, <2>3, <2>9 DEF RunsAddUp
  <2>12. (i - 1) + (j - i) = j - 1
    BY <2>3
  <2> QED  BY <2>1, <2>7, <2>10, <2>11, <2>12 DEF RunsAddUp
<1>2. CASE UNCHANGED vars
  BY <1>2 DEF vars, RunsAddUp
<1> QED  BY <1>1, <1>2

\* How many ops the op of a name runs, by the records.
Listed == {records[n].fused_op_name : n \in DOMAIN records}
RunsOf(name) ==
    IF name \in Listed
    THEN LET n == CHOOSE n \in DOMAIN records : records[n].fused_op_name = name
         IN Len(records[n].sub_op_names)
    ELSE 1

AnyName == Name \cup (FusedKind \X Nat)
NameRuns == [name \in AnyName |-> RunsOf(name)]

LEMMA RecordsAre ==
    ASSUME TypeOK
    PROVE  /\ Listed \subseteq FusedKind \X Nat
           /\ \A name \in AnyName : NameRuns[name] = RunsOf(name) /\ RunsOf(name) \in Nat
<1>1. ASSUME NEW n \in DOMAIN records
      PROVE  records[n].fused_op_name \in FusedKind \X Nat /\ Len(records[n].sub_op_names) \in Nat
  <2>1. records \in Seq(FusionRecord)
    BY DEF TypeOK
  <2>2. records[n] \in FusionRecord
    BY <2>1, LenProperties, ElementOfSeq
  <2> QED  BY <2>2, LenProperties DEF FusionRecord
<1>2. ASSUME NEW name PROVE RunsOf(name) \in Nat
  <2>1. CASE name \in Listed
    <3> DEFINE n == CHOOSE n \in DOMAIN records : records[n].fused_op_name = name
    <3>1. n \in DOMAIN records
      BY <2>1 DEF Listed
    <3>2. RunsOf(name) = Len(records[n].sub_op_names)
      BY <2>1 DEF RunsOf
    <3> HIDE DEF n
    <3> QED  BY <1>1, <3>1, <3>2
  <2>2. CASE name \notin Listed
    BY <2>2 DEF RunsOf
  <2> QED  BY <2>1, <2>2
<1> QED  BY <1>1, <1>2 DEF Listed, NameRuns

LEMMA RunsOfOps ==
    ASSUME TypeOK, RecordsName, RunsAddUp, FusedNamesIdentify, NEW k \in DOMAIN new_ops
    PROVE  new_ops[k].name \in AnyName /\ RunsOf(new_ops[k].name) = Len(SubOps(new_ops[k]))
<1> DEFINE name == new_ops[k].name
<1>1. new_ops[k] \in PlainOp \/ new_ops[k] \in FusedOp
  BY LenProperties, ElementOfSeq DEF TypeOK
<1>2. CASE new_ops[k].kind = "fused"
  <2> DEFINE n == CHOOSE n \in DOMAIN records : records[n].fused_op_name = name
  <2>1. name \in FusedKind \X Nat
    BY <1>1, <1>2, FusedIsNoKind DEF PlainOp, FusedOp
  <2>2. \E r \in DOMAIN records : records[r].fused_op_name = name
    BY <1>2 DEF FusedNamesIdentify
  <2>3. n \in DOMAIN records /\ records[n].fused_op_name = name
    BY <2>2
  <2>4. name \in Listed
    BY <2>2 DEF Listed
  <2>5. RunsOf(name) = Len(records[n].sub_op_names)
    BY <2>4 DEF RunsOf
  <2> HIDE DEF n
  <2>6. PICK j \in DOMAIN new_ops : /\ records[n].fused_op_name = new_ops[j].name
                                   /\ Len(records[n].sub_op_names) = Len(SubOps(new_ops[j]))
    BY <2>3 DEF RecordsName
  <2>7. j = k
    BY <1>2, <2>3, <2>6 DEF FusedNamesIdentify
  <2> QED  BY <2>1, <2>5, <2>6, <2>7 DEF AnyName
<1>3. CASE new_ops[k].kind # "fused"
  <2>1. name \in Name
    BY <1>1, <1>3 DEF PlainOp, FusedOp
  <2>2. name \notin Listed
    BY <2>1, NamesAssumption, RecordsAre
  <2>3. Len(SubOps(new_ops[k])) = 1
    BY <1>3 DEF RunsAddUp
  <2> QED  BY <2>1, <2>2, <2>3 DEF AnyName, RunsOf
<1> QED  BY <1>2, <1>3

\* The names of fused ops, each of one op.
FusedNames(ops) == {ops[k].name : k \in {j \in DOMAIN ops : ops[j].kind = "fused"}}
NamesApart(ops) ==
    \A j, k \in DOMAIN ops : ops[k].kind = "fused" /\ ops[j].name = ops[k].name => j = k

NamedWell(ops) == NamesApart(ops) /\ \A k \in DOMAIN ops : ops[k].name \in AnyName

LEMMA ScanIsAccounted ==
    ASSUME TypeOK, ScanAccount, FusedNamesIdentify, Finished, NEW n, n = Len(graph.ops), n \in Nat
    PROVE  /\ NamedWell(new_ops) /\ FusedNames(new_ops) = Listed
           /\ Weighed(NameRuns, NamesOf(new_ops)) = n
<1>1. \A k \in DOMAIN new_ops :
         new_ops[k].name \in AnyName /\ RunsOf(new_ops[k].name) = Len(SubOps(new_ops[k]))
  BY RunsOfOps DEF ScanAccount
<1>2. NamedWell(new_ops)
  BY <1>1 DEF NamedWell, NamesApart, FusedNamesIdentify
<1>3. FusedNames(new_ops) = Listed
  <2>1. FusedNames(new_ops) \subseteq Listed
    <3> SUFFICES ASSUME NEW k \in DOMAIN new_ops, new_ops[k].kind = "fused"
                 PROVE  new_ops[k].name \in Listed
      BY DEF FusedNames
    <3> QED  BY DEF FusedNamesIdentify, Listed
  <2>2. Listed \subseteq FusedNames(new_ops)
    BY DEF ScanAccount, RecordsName, FusedNames, Listed
  <2> QED  BY <2>1, <2>2
<1>4. Weighed(NameRuns, NamesOf(new_ops)) = Weighed(OpRuns, new_ops)
  <2> DEFINE names == NamesOf(new_ops)
             S == DOMAIN new_ops
             f == [k \in S |-> NameRuns[names[k]]]
             g == [k \in S |-> OpRuns[new_ops[k]]]
  <2>1. DOMAIN names = S /\ \A k \in S : names[k] = new_ops[k].name
    BY DEF NamesOf
  <2>2. new_ops \in Seq(PlainOp \cup FusedOp)
    BY DEF TypeOK
  <2>3. \A k \in S : new_ops[k] \in PlainOp \cup FusedOp
    BY <2>2, LenProperties, ElementOfSeq
  <2>4. \A k \in S : OpRuns[new_ops[k]] = Len(SubOps(new_ops[k]))
    BY <2>3 DEF OpRuns
  <2>5. \A k \in S : NameRuns[names[k]] = RunsOf(new_ops[k].name)
    BY <1>1, <2>1, RecordsAre
  <2>6. IsFiniteSet(S)
    BY <2>2, LenProperties, PositionsCounted
  <2>7. Weighed(NameRuns, names) = Total(f, S) /\ Weighed(OpRuns, new_ops) = Total(g, S)
    BY <2>1 DEF Weighed
  <2> HIDE DEF S, names
  <2>8. \A k \in S : f[k] = g[k]
    BY <1>1, <2>4, <2>5 DEF S
  <2> HIDE DEF f, g
  <2> QED  BY <2>6, <2>7, <2>8, TotalSame DEF names
<1>5. Weighed(OpRuns, new_ops) = n
  <2>1. i = n + 1
    BY DEF Finished, TypeOK
  <2>2. (n + 1) - 1 = n
    OBVIOUS
  <2> QED  BY <2>1, <2>2 DEF ScanAccount, RunsAddUp
<1> QED  BY <1>2, <1>3, <1>4, <1>5

\* Dead-code elimination names what it takes out.
NamesListed(s) == s \in Seq(Range(s)) /\ Range(s) \subseteq AnyName

\* Common-subexpression elimination keeps the ops' kinds and names, and every
\* fused op.
KindAndName(a, b) == a.kind = b.kind /\ a.name = b.name

LEMMA WeighNames ==
    ASSUME TypeOK, NEW s, NamesListed(s), NEW name \in AnyName
    PROVE  /\ Weighed(NameRuns, s) \in Nat /\ NameRuns[name] \in Nat
           /\ Weighed(NameRuns, Append(s, name)) = Weighed(NameRuns, s) + NameRuns[name]
           /\ NamesListed(Append(s, name))
<1>1. \A x \in AnyName : NameRuns[x] \in Nat
  BY RecordsAre
<1>2. s \in Seq(Range(s)) /\ Range(s) \subseteq AnyName
  BY DEF NamesListed
<1>3. \A y \in Range(s) \cup {name} : NameRuns[y] \in Nat
  BY <1>1, <1>2
<1>4. NamesListed(Append(s, name))
  <2>1. s \in Seq(AnyName)
    <3>1. s \in [1..Len(s) -> AnyName] /\ Len(s) \in Nat
      BY <1>2, PositionsOfList DEF Range
    <3> QED  BY <3>1, SeqDef
  <2>2. Append(s, name) \in Seq(AnyName)
    BY <2>1, AppendProperties
  <2> DEFINE longer == Append(s, name)
  <2> HIDE DEF longer
  <2>3. longer \in Seq(Range(longer))
    BY <2>2, OwnRange DEF longer
  <2>4. Range(longer) \subseteq AnyName
    BY <2>2, LenProperties, ElementOfSeq DEF longer, Range
  <2> QED  BY <2>3, <2>4 DEF NamesListed, longer
<1> QED  BY <1>1, <1>2, <1>3, <1>4, WeighIn, WeighOneMore

LEMMA NamesAppended ==
    ASSUME NEW ops, ops \in Seq(Range(ops)), NEW op
    PROVE  /\ NamesOf(Append(ops, op)) = Append(NamesOf(ops), op.name)
           /\ NamesOf(ops) \in Seq(Range(NamesOf(ops)))
<1> DEFINE n == Len(ops)
           s == NamesOf(ops)
           left == NamesOf(Append(ops, op))
           right == Append(s, op.name)
<1>1. /\ n \in Nat /\ DOMAIN ops = 1..n /\ DOMAIN Append(ops, op) = 1..(n + 1)
      /\ \A k \in 1..n : Append(ops, op)[k] = ops[k]
      /\ Append(ops, op)[n + 1] = op
  BY AppendedAt, PositionsOfList
<1>2. s = [k \in 1..n |-> ops[k].name]
  BY <1>1 DEF NamesOf
<1>3. s \in Seq(Range(s)) /\ Len(s) = n
  <2>1. s \in [1..n -> Range(s)]
    BY <1>2 DEF Range
  <2> HIDE DEF s
  <2> QED  BY <1>1, <2>1, LenProperties, SeqDef
<1>4. left = [k \in 1..(n + 1) |-> Append(ops, op)[k].name]
  BY <1>1 DEF NamesOf
<1> HIDE DEF s, left
<1>5. /\ DOMAIN right = 1..(n + 1) /\ \A k \in 1..n : right[k] = s[k]
      /\ right[n + 1] = op.name
  BY <1>3, AppendedAt
<1>6. right = [k \in 1..(n + 1) |-> right[k]]
  <2>1. right \in Seq(Range(s) \cup {op.name})
    <3>1. s \in Seq(Range(s) \cup {op.name}) /\ op.name \in Range(s) \cup {op.name}
      <4>1. s \in [1..n -> Range(s) \cup {op.name}]
        BY <1>2 DEF Range
      <4> QED  BY <1>1, <4>1, SeqDef
    <3> QED  BY <3>1, AppendProperties
  <2>2. right \in [1..Len(right) -> Range(s) \cup {op.name}]
    BY <2>1, LenProperties
  <2> HIDE DEF right
  <2> QED  BY <1>5, <2>2
<1> HIDE DEF right, n
<1>7. \A k \in 1..(n + 1) : Append(ops, op)[k].name = right[k]
  <2>1. \A k \in 1..(n + 1) : k \in 1..n \/ k = n + 1
    BY <1>1
  <2> QED  BY <1>1, <1>2, <1>5, <2>1
<1>8. left = right
  BY <1>4, <1>6, <1>7
<1> QED  BY <1>3, <1>8 DEF left, right, s

LEMMA WeighOps ==
    ASSUME TypeOK, NEW ops, ops \in Seq(Range(ops)), NamedWell(ops)
    PROVE  NamesListed(NamesOf(ops)) /\ Weighed(NameRuns, NamesOf(ops)) \in Nat
<1>1. NamesOf(ops) \in Seq(Range(NamesOf(ops)))
  BY NamesAppended
<1>2. Range(NamesOf(ops)) \subseteq AnyName
  BY DEF NamesOf, NamedWell, Range
<1>3. \A x \in Range(NamesOf(ops)) : NameRuns[x] \in Nat
  BY <1>2, RecordsAre
<1> QED  BY <1>1, <1>2, <1>3, WeighIn DEF NamesListed

LEMMA RecordsStay == UNCHANGED vars => Listed' = Listed /\ NameRuns' = NameRuns
BY DEF vars, Listed, NameRuns, RunsOf

LEMMA NamesCounted ==
    ASSUME NEW ops, ops \in Seq(Range(ops)), NamesApart(ops)
    PROVE  Cardinality(FusedNames(ops)) = Cardinality({k \in DOMAIN ops : ops[k].kind = "fused"})
<1> DEFINE K == {k \in DOMAIN ops : ops[k].kind = "fused"}
           N == FusedNames(ops)
           f == [k \in K |-> ops[k].name]
<1>1. IsFiniteSet(K)
  <2>1. IsFiniteSet(DOMAIN ops)
    BY PositionsOfList, PositionsCounted
  <2> QED  BY <2>1, FS_Subset
<1>2. f \in [K -> N] /\ \A j, k \in K : f[j] = f[k] => j = k
  <2>1. \A k \in K : ops[k].name \in N
    BY DEF FusedNames
  <2>2. \A j, k \in K : ops[j].name = ops[k].name => j = k
    BY DEF NamesApart
  <2> HIDE DEF K, N
  <2> QED  BY <2>1, <2>2
<1>3. \A x \in N : \E k \in K : f[k] = x
  BY DEF FusedNames
<1> HIDE DEF K, N, f
<1>4. f \in Bijection(K, N)
  BY <1>2, <1>3 DEF Bijection, Injection, Surjection, IsInjective
<1>5. ExistsBijection(K, N)
  BY <1>4 DEF ExistsBijection
<1> QED  BY <1>1, <1>5, FS_Bijection DEF K, N

----------------------------------------------------------------------------
(***************************************************************************)
(* Its traffic: every fused op holds a matching window, and what is read   *)
(* from outside of the window is read by another op of the result.         *)
(***************************************************************************)

FusedWhereMatched ==
    \A n \in DOMAIN new_ops : new_ops[n].kind = "fused" =>
        \E p \in Matches(graph.ops, starts[n]) : new_ops[n].attrs.sub_ops = Window(starts[n], p)

LEMMA ScanKeepsMatches ==
    ASSUME TypeOK, FusedWhereMatched, [ScanNext]_vars
    PROVE  FusedWhereMatched'
\* A step that appends one op, which holds a matching window if it is fused.
<1>1. ASSUME NEW op \in PlainOp \cup FusedOp, NEW length \in Nat \ {0}, Scanning,
             new_ops' = Append(new_ops, op), starts' = Append(starts, i), i' = i + length,
             graph' = graph,
             op.kind = "fused" =>
                \E p \in Matches(graph.ops, i) : op.attrs.sub_ops = Window(i, p)
      PROVE  FusedWhereMatched'
  <2> DEFINE n == Len(new_ops)
  <2>1. /\ n \in Nat /\ DOMAIN new_ops = 1..n /\ DOMAIN new_ops' = 1..(n + 1)
        /\ \A k \in 1..n : new_ops'[k] = new_ops[k] /\ starts'[k] = starts[k]
        /\ \A k : k = n + 1 => new_ops'[k] = op /\ starts'[k] = i
    BY <1>1, AppendedStart
  <2> HIDE DEF n
  <2>2. \A k, p : SubSeq(graph'.ops, k, k + Length(p) - 1) = Window(k, p)
    BY <1>1 DEF Window
  <2>3. ASSUME NEW k \in 1..(n + 1), new_ops'[k].kind = "fused"
        PROVE  \E p \in Matches(graph.ops, starts'[k]) :
                  new_ops'[k].attrs.sub_ops = Window(starts'[k], p)
    <3>1. CASE k \in 1..n
      BY <2>1, <2>3, <3>1 DEF FusedWhereMatched
    <3>2. CASE k = n + 1
      BY <1>1, <2>1, <2>3, <3>2
    <3> QED  BY <2>1, <3>1, <3>2
  <2>4. \A k \in DOMAIN new_ops' : new_ops'[k].kind = "fused" =>
           \E p \in Matches(graph'.ops, starts'[k]) :
              new_ops'[k].attrs.sub_ops = SubSeq(graph'.ops, starts'[k], starts'[k] + Length(p) - 1)
    <3> SUFFICES ASSUME NEW k \in 1..(n + 1), new_ops'[k].kind = "fused"
                 PROVE  \E p \in Matches(graph'.ops, starts'[k]) :
                           new_ops'[k].attrs.sub_ops
                              = SubSeq(graph'.ops, starts'[k], starts'[k] + Length(p) - 1)
      BY <2>1
    <3>1. PICK p \in Matches(graph.ops, starts'[k]) :
                  new_ops'[k].attrs.sub_ops = Window(starts'[k], p)
      BY <2>3
    <3>2. Window(starts'[k], p) = SubSeq(graph'.ops, starts'[k], starts'[k] + Length(p) - 1)
      BY <2>2
    <3>3. p \in Matches(graph'.ops, starts'[k])
      BY <1>1, <3>1
    <3> QED  BY <3>1, <3>2, <3>3
  <2> QED  BY <2>4 DEF FusedWhereMatched, Window
<1>2. CASE KeepAndCount(fuse_idx)
  <2>1. /\ Scanning /\ new_ops' = Append(new_ops, graph.ops[i]) /\ i' = i + 1
        /\ starts' = Append(starts, i) /\ graph' = graph
    BY <1>2 DEF KeepAndCount
  <2>2. graph.ops[i] \in PlainOp /\ graph.ops[i].kind # "fused" /\ 1 \in Nat \ {0}
    <3>1. graph.ops[i] \in PlainOp
      BY <2>1, ScanProperties
    <3>2. \A op \in PlainOp : op.kind # "fused"
      BY FusedIsNoKind DEF PlainOp
    <3>3. 1 \in Nat \ {0}
      OBVIOUS
    <3> QED  BY <3>1, <3>2, <3>3
  <2> QED  BY <1>1, <2>1, <2>2
<1>3. CASE \E p \in Matches(graph.ops, i) : FuseAndJump(p, Length(p))
  <2>1. PICK p \in Matches(graph.ops, i) : FuseAndJump(p, Length(p))
    BY <1>3
  <2> DEFINE length == Len(Patterns[p].kinds)
             window == SubSeq(graph.ops, i, i + length - 1)
             fused == MakeFusedOp(window, Patterns[p].fused_kind, fuse_idx)
  <2>2. Scanning /\ starts' = Append(starts, i) /\ graph' = graph
    BY <2>1 DEF FuseAndJump, Window, Length
  <2>3. /\ length \in Nat \ {0} /\ fused \in FusedOp /\ fused.attrs.sub_ops = window
        /\ new_ops' = Append(new_ops, fused) /\ i' = i + length
    BY <2>1, FuseProperties
  <2>4. window = Window(i, p)
    BY DEF Window, Length
  <2> HIDE DEF length, window, fused
  <2>5. fused \in PlainOp \cup FusedOp /\ fused.attrs.sub_ops = Window(i, p)
    BY <2>3, <2>4
  <2> QED  BY <1>1, <2>1, <2>2, <2>3, <2>5
<1>4. CASE UNCHANGED vars
  BY <1>4 DEF vars, FusedWhereMatched, Window
<1> QED  BY <1>2, <1>3, <1>4 DEF ScanNext

\* A tensor of a graph the verifier accepts has one maker.
LEMMA OneMaker ==
    ASSUME NEW g, g.ops \in Seq(Range(g.ops)), Verified(g),
           NEW a \in DOMAIN g.ops, NEW b \in DOMAIN g.ops,
           NEW t \in Range(g.ops[a].outputs), t \in Range(g.ops[b].outputs)
    PROVE  a = b
<1>1. Len(g.ops) \in Nat /\ DOMAIN g.ops = 1..Len(g.ops)
  BY PositionsOfList
<1>2. ASSUME NEW x \in DOMAIN g.ops, NEW y \in DOMAIN g.ops, x < y,
             t \in Range(g.ops[x].outputs), t \in Range(g.ops[y].outputs)
      PROVE  FALSE
  <2>1. y \in 1..(Len(g.ops) + 1)
    BY <1>1
  <2>2. Range(g.ops[x].outputs) \subseteq WrittenBy(SubSeq(g.ops, 1, y - 1))
    BY <1>2, <2>1, WrittenByPrefix
  <2>3. MultiplyProduced(g) = {}
    BY DEF Verified, CollectGraphErrors
  <2>4. Range(g.ops[y].outputs) \cap WrittenBy(SubSeq(g.ops, 1, y - 1)) = {}
    BY <2>3, WrittenOnce
  <2> QED  BY <1>2, <2>2, <2>4
<1>3. ~ (a < b) /\ ~ (b < a)
  BY <1>2
<1> QED  BY <1>1, <1>3

\* The windows of the new ops stand side by side and cover the base graph.
LEMMA OpsTile ==
    ASSUME CutIntoWindows
    PROVE  /\ \A a, b \in DOMAIN new_ops : a < b => NextStart(a) <= starts[b]
           /\ \A m \in DOMAIN graph.ops :
                 \E n \in DOMAIN new_ops : starts[n] <= m /\ m < NextStart(n)
<1> DEFINE l == Len(new_ops)
<1>1. /\ Len(graph.ops) \in Nat /\ DOMAIN graph.ops = 1..Len(graph.ops)
      /\ l \in Nat /\ DOMAIN new_ops = 1..l
      /\ l = 0 => Len(graph.ops) = 0
      /\ l > 0 => starts[1] = 1
  <2>1. graph.ops \in Seq(PlainOp)
    BY Zenon DEF CutIntoWindows
  <2> QED  BY <2>1, LenProperties, Zenon DEF CutIntoWindows
<1>2. \A k \in 1..l : /\ starts[k] \in 1..Len(graph.ops) /\ NextStart(k) \in 1..(Len(graph.ops) + 1)
                      /\ NextStart(k) = IF k = l THEN Len(graph.ops) + 1 ELSE starts[k + 1]
                      /\ starts[k] < NextStart(k)
  BY Zenon DEF CutIntoWindows
<1> HIDE DEF l
<1>3. \A k \in 1..l : k # 1 => k - 1 \in 1..l /\ NextStart(k - 1) = starts[k]
  <2> SUFFICES ASSUME NEW k \in 1..l, k # 1 PROVE k - 1 \in 1..l /\ NextStart(k - 1) = starts[k]
    OBVIOUS
  <2>1. k - 1 \in 1..l /\ k - 1 # l /\ (k - 1) + 1 = k
    BY <1>1
  <2> QED  BY <1>2, <2>1
<1>4. \A k \in 1..l : k \in Nat /\ starts[k] \in Nat /\ NextStart(k) \in Nat
  BY <1>1, <1>2
<1>5. ASSUME NEW a \in 1..l, NEW F, F = {b \in 1..l : a < b /\ ~ (NextStart(a) <= starts[b])}, F # {}
      PROVE  FALSE
  <2>1. PICK b \in F : \A k \in F : b <= k
    <3>1. F \in SUBSET Nat
      BY <1>1, <1>5
    <3> QED  BY <1>5, <3>1, LeastNat
  <2>2. b \in 1..l /\ a < b /\ ~ (NextStart(a) <= starts[b])
    BY <1>5, <2>1
  <2>3. b # 1 /\ ~ (b <= b - 1) /\ a <= b - 1
    BY <1>4, <2>2
  <2>4. b - 1 \in 1..l /\ NextStart(b - 1) = starts[b]
    BY <1>3, <2>2, <2>3
  <2>5. a < b - 1
    <3>1. a # b - 1
      BY <1>4, <2>2, <2>4
    <3> QED  BY <1>4, <2>2, <2>3, <3>1
  <2>6. NextStart(a) <= starts[b - 1]
    BY <1>5, <2>1, <2>3, <2>4, <2>5
  <2>7. starts[b - 1] < NextStart(b - 1)
    BY <1>2, <2>4
  <2> QED  BY <1>4, <2>2, <2>4, <2>6, <2>7
<1>6. ASSUME NEW m \in 1..Len(graph.ops)
      PROVE  \E n \in 1..l : starts[n] <= m /\ m < NextStart(n)
  <2> DEFINE F == {k \in 1..l : m < NextStart(k)}
  <2>1. l \in F
    <3>1. l \in 1..l
      BY <1>1, <1>6
    <3>2. NextStart(l) = Len(graph.ops) + 1
      BY <1>2, <3>1
    <3> QED  BY <1>1, <1>6, <3>1, <3>2
  <2>2. PICK n \in F : \A k \in F : n <= k
    <3>1. F \in SUBSET Nat /\ F # {}
      BY <1>1, <2>1
    <3> HIDE DEF F
    <3> QED  BY <3>1, LeastNat
  <2>3. n \in 1..l /\ m < NextStart(n)
    BY <2>2
  <2>4. CASE n = 1
    <3>1. starts[n] = 1
      BY <1>1, <2>3, <2>4
    <3> QED  BY <1>6, <2>3, <3>1
  <2>5. CASE n # 1
    <3>1. n - 1 \in 1..l /\ NextStart(n - 1) = starts[n] /\ ~ (n <= n - 1)
      BY <1>3, <1>4, <2>3, <2>5
    <3>2. ~ (m < starts[n])
      BY <2>2, <3>1
    <3> QED  BY <1>4, <2>3, <3>2
  <2> QED  BY <2>4, <2>5
<1>7. \A a, b \in 1..l : a < b => NextStart(a) <= starts[b]
  BY <1>5
<1> QED  BY <1>1, <1>6, <1>7

\* What the finished scan is known to have made.
LEMMA MadeByScan ==
    ASSUME ScanInv, Finished
    PROVE  /\ CutIntoWindows
           /\ new_ops \in Seq(Range(new_ops)) /\ DOMAIN new_ops = 1..Len(new_ops)
           /\ \A a, b \in DOMAIN new_ops : \A t \in Range(new_ops[a].outputs) :
                 /\ t \in Range(new_ops[b].outputs) => a = b
                 /\ t \notin Range(new_ops[a].inputs)
<1>1. CutIntoWindows
  BY FinishedWindows DEF ScanInv
<1>2. FusedGraph.ops = new_ops /\ IsGraph(FusedGraph) /\ Verified(FusedGraph)
  BY FusedGraphServes
<1>3. new_ops \in Seq(Range(new_ops)) /\ FusedGraph.ops \in Seq(Range(FusedGraph.ops))
  BY <1>2 DEF IsGraph
<1>4. DOMAIN new_ops = 1..Len(new_ops) /\ Len(new_ops) \in Nat
  BY <1>3, PositionsOfList
<1>5. ASSUME NEW a \in DOMAIN new_ops, NEW b \in DOMAIN new_ops, NEW t \in Range(new_ops[a].outputs),
             t \in Range(new_ops[b].outputs)
      PROVE  a = b
  <2> DEFINE g == FusedGraph
  <2>1. /\ g.ops \in Seq(Range(g.ops)) /\ Verified(g) /\ a \in DOMAIN g.ops /\ b \in DOMAIN g.ops
        /\ t \in Range(g.ops[a].outputs) /\ t \in Range(g.ops[b].outputs)
    BY <1>2, <1>3, <1>5
  <2> HIDE DEF g
  <2> QED  BY <2>1, OneMaker
<1>6. ASSUME NEW a \in DOMAIN new_ops, NEW t \in Range(new_ops[a].outputs)
      PROVE  t \notin Range(new_ops[a].inputs)
  <2> DEFINE g == FusedGraph
  <2>1. /\ g.ops \in Seq(Range(g.ops)) /\ Verified(g) /\ a \in DOMAIN g.ops /\ g.ops = new_ops /\ a <= a
    BY <1>2, <1>3, <1>4
  <2> HIDE DEF g
  <2>2. Range(g.ops[a].outputs) \cap Range(g.ops[a].inputs) = {}
    BY <2>1, ReadersComeLater
  <2> QED  BY <2>1, <2>2
<1> QED  BY <1>1, <1>3, <1>4, <1>5, <1>6

\* Reading a tensor from outside the window of the op that makes it is reading
\* it as another op of the result.
LEMMA ReadersOfNew ==
    ASSUME ScanInv, Finished, NEW n \in DOMAIN new_ops, NEW t \in Range(new_ops[n].outputs)
    PROVE  (\E m \in DOMAIN graph.ops :
               ~ (starts[n] <= m /\ m < NextStart(n)) /\ t \in Range(graph.ops[m].inputs))
               <=> t \in ReadBy(new_ops)
<1>1. /\ CutIntoWindows /\ DOMAIN new_ops = 1..Len(new_ops)
      /\ \A b \in DOMAIN new_ops : t \in Range(new_ops[b].outputs) => b = n
      /\ t \notin Range(new_ops[n].inputs)
  BY MadeByScan
<1>2. /\ \A a, b \in DOMAIN new_ops : a < b => NextStart(a) <= starts[b]
      /\ \A m \in DOMAIN graph.ops : \E b \in DOMAIN new_ops : starts[b] <= m /\ m < NextStart(b)
  BY <1>1, OpsTile
<1>3. Len(graph.ops) \in Nat /\ DOMAIN graph.ops = 1..Len(graph.ops) /\ Len(new_ops) \in Nat
  <2>1. graph.ops \in Seq(PlainOp)
    BY <1>1, Zenon DEF CutIntoWindows
  <2> QED  BY <1>1, <2>1, LenProperties, Zenon DEF CutIntoWindows
<1>4. ASSUME NEW b \in DOMAIN new_ops
      PROVE  /\ starts[b] \in 1..Len(graph.ops) /\ NextStart(b) \in 1..(Len(graph.ops) + 1)
             /\ starts[b] < NextStart(b)
             /\ DOMAIN SubOps(new_ops[b]) = 1..(NextStart(b) - starts[b])
             /\ \A x \in 1..(NextStart(b) - starts[b]) :
                   SubOps(new_ops[b])[x] = graph.ops[starts[b] + x - 1]
             /\ Range(new_ops[b].outputs) = WrittenBy(SubOps(new_ops[b]))
             /\ \A x \in DOMAIN SubOps(new_ops[b]) :
                   Range(SubOps(new_ops[b])[x].inputs)
                      \subseteq Range(new_ops[b].inputs) \cup EarlierIn(SubOps(new_ops[b]), x)
             /\ Range(new_ops[b].inputs) \subseteq ReadBy(SubOps(new_ops[b]))
  <2>1. Fits(new_ops[b], {})
    BY FusedOpsFit DEF AllFit
  <2>2. /\ starts[b] \in 1..Len(graph.ops) /\ NextStart(b) \in 1..(Len(graph.ops) + 1)
        /\ starts[b] < NextStart(b)
        /\ Len(SubOps(new_ops[b])) = NextStart(b) - starts[b]
        /\ \A x \in 1..(NextStart(b) - starts[b]) :
              SubOps(new_ops[b])[x] = graph.ops[starts[b] + x - 1]
    BY <1>1 DEF CutIntoWindows
  <2>3. DOMAIN SubOps(new_ops[b]) = 1..(NextStart(b) - starts[b])
    BY <2>1, <2>2, PositionsOfList DEF Fits
  <2>4. Range(new_ops[b].inputs) \subseteq ReadBy(SubOps(new_ops[b]))
    BY DEF ScanInv, InterfaceExact, NeedsFromOutside, ReadBy
  <2>5. /\ Range(new_ops[b].outputs) = WrittenBy(SubOps(new_ops[b]))
        /\ \A x \in DOMAIN SubOps(new_ops[b]) :
              Range(SubOps(new_ops[b])[x].inputs)
                 \subseteq Range(new_ops[b].inputs) \cup EarlierIn(SubOps(new_ops[b]), x)
    BY <2>1 DEF Fits
  <2> QED  BY <2>2, <2>3, <2>4, <2>5
<1>5. ASSUME NEW m \in DOMAIN graph.ops, ~ (starts[n] <= m /\ m < NextStart(n)),
             t \in Range(graph.ops[m].inputs)
      PROVE  t \in ReadBy(new_ops)
  <2>1. PICK b \in DOMAIN new_ops : starts[b] <= m /\ m < NextStart(b)
    BY <1>2
  <2> DEFINE x == (m - starts[b]) + 1
  <2>2. x \in 1..(NextStart(b) - starts[b]) /\ starts[b] + x - 1 = m
    BY <1>3, <1>4, <2>1
  <2> HIDE DEF x
  <2>3. x \in DOMAIN SubOps(new_ops[b]) /\ t \in Range(SubOps(new_ops[b])[x].inputs)
    BY <1>4, <1>5, <2>2
  <2>4. t \notin EarlierIn(SubOps(new_ops[b]), x)
    <3>1. b # n
      BY <1>5, <2>1
    <3>2. t \notin WrittenBy(SubOps(new_ops[b]))
      BY <1>1, <1>4, <3>1
    <3> QED  BY <3>2 DEF EarlierIn, WrittenBy
  <2>5. t \in Range(new_ops[b].inputs)
    BY <1>4, <2>3, <2>4
  <2> QED  BY <2>5 DEF ReadBy
<1>6. ASSUME t \in ReadBy(new_ops)
      PROVE  \E m \in DOMAIN graph.ops :
                ~ (starts[n] <= m /\ m < NextStart(n)) /\ t \in Range(graph.ops[m].inputs)
  <2>1. PICK b \in DOMAIN new_ops : t \in Range(new_ops[b].inputs)
    BY <1>6 DEF ReadBy
  <2>2. PICK x \in DOMAIN SubOps(new_ops[b]) : t \in Range(SubOps(new_ops[b])[x].inputs)
    <3>1. t \in ReadBy(SubOps(new_ops[b]))
      BY <1>4, <2>1
    <3> QED  BY <3>1 DEF ReadBy
  <2> DEFINE m == starts[b] + x - 1
  <2>3. /\ x \in 1..(NextStart(b) - starts[b]) /\ t \in Range(graph.ops[m].inputs)
        /\ starts[b] \in 1..Len(graph.ops) /\ NextStart(b) \in 1..(Len(graph.ops) + 1)
    BY <1>4, <2>2
  <2>4. m \in 1..Len(graph.ops) /\ starts[b] <= m /\ m < NextStart(b)
    BY <1>3, <2>3
  <2> HIDE DEF m
  <2>5. b < n \/ n < b
    <3>1. b # n
      BY <1>1, <2>1
    <3> QED  BY <1>1, <1>3, <3>1
  <2>6. b < n => NextStart(b) <= starts[n]
    BY <1>2
  <2>7. n < b => NextStart(n) <= starts[b]
    BY <1>2
  <2>8. ~ (starts[n] <= m /\ m < NextStart(n))
    <3>1. /\ starts[n] \in 1..Len(graph.ops) /\ NextStart(n) \in 1..(Len(graph.ops) + 1)
      BY <1>4
    <3> QED  BY <1>3, <2>3, <2>4, <2>5, <2>6, <2>7, <3>1
  <2> QED  BY <1>3, <2>3, <2>4, <2>8
<1> QED  BY <1>5, <1>6

\* So what a window saves can be told from the result's ops.
LEMMA FusedWindow ==
    ASSUME ScanInv, Finished, FusedWhereMatched, NEW n \in DOMAIN new_ops, new_ops[n].kind = "fused"
    PROVE  /\ starts[n] \in DOMAIN graph.ops
           /\ \E p \in Matches(graph.ops, starts[n]) :
                 /\ new_ops[n].attrs.sub_ops = Window(starts[n], p)
                 /\ Range(new_ops[n].outputs) = WrittenBy(Window(starts[n], p))
                 /\ \A t \in Range(new_ops[n].outputs) :
                       NeededOutside(starts[n], p, t)
                          <=> t \in Range(graph.graph_outputs) \/ t \in ReadBy(new_ops)
<1>1. PICK p \in Matches(graph.ops, starts[n]) : new_ops[n].attrs.sub_ops = Window(starts[n], p)
  BY DEF FusedWhereMatched
<1> DEFINE k == starts[n]
           next == NextStart(n)
<1>2. CutIntoWindows /\ DOMAIN new_ops = 1..Len(new_ops)
  BY MadeByScan
<1>3. Len(graph.ops) \in Nat /\ DOMAIN graph.ops = 1..Len(graph.ops)
  <2>1. graph.ops \in Seq(PlainOp)
    BY <1>2, Zenon DEF CutIntoWindows
  <2> QED  BY <1>2, <2>1, LenProperties
<1>4. k \in 1..Len(graph.ops) /\ next \in 1..(Len(graph.ops) + 1) /\ Len(SubOps(new_ops[n])) = next - k
  BY <1>2, Zenon DEF CutIntoWindows
<1>5. SubOps(new_ops[n]) = Window(k, p)
  BY <1>1 DEF SubOps
<1>6. Len(Window(k, p)) = Length(p) /\ Length(p) \in Nat
  BY <1>1, <1>3, <1>4, WindowAt DEF ScanInv
<1>7. next = k + Length(p)
  <2> HIDE DEF k, next
  <2> QED  BY <1>3, <1>4, <1>5, <1>6
<1>8. Range(new_ops[n].outputs) = WrittenBy(Window(k, p))
  <2>1. Fits(new_ops[n], {})
    BY FusedOpsFit DEF AllFit
  <2> QED  BY <1>5, <2>1 DEF Fits
<1>9. \A m \in DOMAIN graph.ops : m \notin k..(k + Length(p) - 1) <=> ~ (k <= m /\ m < next)
  <2> HIDE DEF k, next
  <2> QED  BY <1>3, <1>4, <1>6, <1>7
<1>10. ASSUME NEW t \in Range(new_ops[n].outputs)
       PROVE  NeededOutside(k, p, t) <=> t \in Range(graph.graph_outputs) \/ t \in ReadBy(new_ops)
  <2>1. (\E m \in DOMAIN graph.ops : ~ (k <= m /\ m < next) /\ t \in Range(graph.ops[m].inputs))
           <=> t \in ReadBy(new_ops)
    BY ReadersOfNew
  <2> HIDE DEF k, next
  <2> QED  BY <1>9, <2>1 DEF NeededOutside
<1> QED  BY <1>1, <1>3, <1>4, <1>8, <1>10

\* The tensors that the fused ops make, and ops that do the work of new ones,
\* whatever they read.
FusedMade == UNION {Range(new_ops[n].outputs) : n \in {m \in DOMAIN new_ops : new_ops[m].kind = "fused"}}

SameWork(a, b) == a.kind = b.kind /\ a.outputs = b.outputs /\ a.attrs = b.attrs
MadeByNew(ops) == \A k \in DOMAIN ops : \E n \in DOMAIN new_ops : SameWork(ops[k], new_ops[n])

\* No op but a fused one makes what fused ops make.
LEMMA OthersMakeOthers ==
    ASSUME ScanInv, Finished, NEW op, NEW n \in DOMAIN new_ops, SameWork(op, new_ops[n]),
           op.kind # "fused"
    PROVE  Range(op.outputs) \cap FusedMade = {}
<1> SUFFICES ASSUME NEW t \in Range(op.outputs), t \in FusedMade PROVE FALSE
  OBVIOUS
<1>1. PICK m \in DOMAIN new_ops : new_ops[m].kind = "fused" /\ t \in Range(new_ops[m].outputs)
  BY DEF FusedMade
<1>2. t \in Range(new_ops[n].outputs) /\ new_ops[n].kind # "fused"
  BY DEF SameWork
<1> QED  BY <1>1, <1>2, MadeByScan

\* What an output of the k-th executed op really saves, and their list.
HandedOnIn(window, at) ==
    \E j \in (at[1] + 1)..Len(window) : window[at[1]].outputs[at[2]] \in Range(window[j].inputs)

----------------------------------------------------------------------------
\* What is proved of every execution holds of the one stood for.
BaseRun == INSTANCE ExecuteGraphProofs WITH pos <- BasePos, sub <- 1

LEMMA BaseAssumptions == "fused" \notin Kind /\ \A g \in Graphs : BaseRun!IsBaseGraph(g)
BY GraphsAssumption, FusedIsNoKind
   DEF IsBaseGraph, MkGraph, PlainOp, BaseRun!IsBaseGraph, BaseRun!MkGraph, BaseRun!PlainOp

LEMMA BaseNeverRaises == BaseRun!Steps => []BaseRun!VerifiedNeverRaises
BY BaseAssumptions, BaseRun!StepsNeverRaise

LEMMA BaseSolvesEquations == BaseRun!Steps => []BaseRun!TensorsSolveEquations
BY BaseAssumptions, BaseRun!StepsSolveEquations

\* The operators of that instance are those of Unfused.
LEMMA SameOperatorsInBase ==
    ASSUME NEW op, NEW e
    PROVE  /\ BaseRun!HasImplementation(op) = Unfused!HasImplementation(op)
           /\ BaseRun!Arguments(op) = Unfused!Arguments(op)
           /\ BaseRun!Results(op) = Unfused!Results(op)
           /\ BaseRun!Range(op) = Unfused!Range(op)
           /\ BaseRun!Assign(e, op) = Unfused!Assign(e, op)
           /\ BaseRun!WrittenBy(op) = Unfused!WrittenBy(op)
           /\ BaseRun!InitialTensors(op) = Unfused!InitialTensors(op)
<1>1. /\ BaseRun!NumInputs = Unfused!NumInputs
      /\ BaseRun!NumOutputs = Unfused!NumOutputs
      /\ BaseRun!StepDims = Unfused!StepDims
  BY DEF BaseRun!NumInputs, Unfused!NumInputs, BaseRun!NumOutputs, Unfused!NumOutputs,
         BaseRun!StepDims, Unfused!StepDims
<1>2. /\ BaseRun!Arguments(op) = Unfused!Arguments(op)
      /\ BaseRun!Results(op) = Unfused!Results(op)
  BY <1>1 DEF BaseRun!Arguments, Unfused!Arguments, BaseRun!Results, Unfused!Results
<1>3. \A f : BaseRun!Range(f) = Unfused!Range(f)
  BY DEF BaseRun!Range, Unfused!Range
<1>4. BaseRun!HasImplementation(op) = Unfused!HasImplementation(op)
  BY <1>1 DEF BaseRun!HasImplementation, Unfused!HasImplementation
<1>5. BaseRun!Assign(e, op) = Unfused!Assign(e, op)
  BY <1>2, <1>3 DEF BaseRun!Assign, Unfused!Assign
<1>6. \A ops : BaseRun!WrittenBy(ops) = Unfused!WrittenBy(ops)
  BY <1>3 DEF BaseRun!WrittenBy, Unfused!WrittenBy
<1>7. BaseRun!InitialTensors(op) = Unfused!InitialTensors(op)
  <2>1. BaseRun!External(op) = Unfused!External(op)
    BY <1>6 DEF BaseRun!External, Unfused!External
  <2> QED  BY <1>3, <2>1 DEF BaseRun!InitialTensors, Unfused!InitialTensors
<1> QED  BY <1>2, <1>3, <1>4, <1>5, <1>6, <1>7

LEMMA SameSteps ==
    /\ Unfused!Init <=> BaseRun!Init
    /\ [Unfused!Next]_(Unfused!vars) <=> [BaseRun!Next]_(BaseRun!vars)
<1>1. Unfused!Init <=> BaseRun!Init
  BY SameOperatorsInBase DEF Unfused!Init, BaseRun!Init
<1>2. Unfused!CurrentOp = BaseRun!CurrentOp
  BY DEF Unfused!CurrentOp, BaseRun!CurrentOp
<1>3. \A op : Unfused!CanRun(op) <=> BaseRun!CanRun(op)
  BY SameOperatorsInBase DEF Unfused!CanRun, BaseRun!CanRun
<1>4. (Unfused!AtOp <=> BaseRun!AtOp) /\ (Unfused!Advance <=> BaseRun!Advance)
  BY DEF Unfused!AtOp, BaseRun!AtOp, Unfused!Advance, BaseRun!Advance
<1>5. Unfused!RunOp <=> BaseRun!RunOp
  BY <1>2, <1>3, <1>4, SameOperatorsInBase DEF Unfused!RunOp, BaseRun!RunOp
<1>6. Unfused!Raise <=> BaseRun!Raise
  BY <1>2, <1>3, <1>4 DEF Unfused!Raise, BaseRun!Raise
<1>7. (Unfused!Return <=> BaseRun!Return) /\ (Unfused!Terminated <=> BaseRun!Terminated)
  BY DEF Unfused!Return, BaseRun!Return, Unfused!Terminated, BaseRun!Terminated,
         Unfused!Halted, BaseRun!Halted, Unfused!vars, BaseRun!vars
<1>8. Unfused!vars = BaseRun!vars /\ (UNCHANGED Unfused!vars <=> UNCHANGED BaseRun!vars)
  BY DEF Unfused!vars, BaseRun!vars
<1> QED  BY <1>1, <1>5, <1>6, <1>7, <1>8 DEF Unfused!Next, BaseRun!Next

\* What Verified, Implemented and Solves say in the two instances.
LEMMA SameProperties ==
    ASSUME NEW g, NEW e, NEW t
    PROVE  /\ Verified(g) => BaseRun!Verified(g)
           /\ Unfused!Implemented(g) => BaseRun!Implemented(g)
           /\ BaseRun!Solves(e, g, t) => Unfused!Solves(e, g, t)
<1>1. \A f : BaseRun!Range(f) = Unfused!Range(f) /\ BaseRun!Range(f) = Range(f)
  BY DEF BaseRun!Range, Unfused!Range, Range
<1>2. \A ops : BaseRun!WrittenBy(ops) = WrittenBy(ops) /\ BaseRun!WrittenBy(ops) = Unfused!WrittenBy(ops)
  BY <1>1 DEF BaseRun!WrittenBy, WrittenBy, Unfused!WrittenBy
<1>3. BaseRun!External(g) = External(g)
  BY <1>2 DEF BaseRun!External, External
<1>4. \A k : BaseRun!ProducedBefore(g, k) = ProducedBefore(g, k)
  BY <1>1, <1>2, <1>3 DEF BaseRun!ProducedBefore, ProducedBefore
<1>5. /\ BaseRun!MultiplyProduced(g) = MultiplyProduced(g)
      /\ BaseRun!RedefinedInputs(g) = RedefinedInputs(g)
      /\ BaseRun!UsedBeforeDef(g) = UsedBeforeDef(g)
      /\ BaseRun!UnproducedOutputs(g) = UnproducedOutputs(g)
      /\ BaseRun!UndeclaredShapes(g) = UndeclaredShapes(g)
  BY <1>1, <1>2, <1>4
     DEF BaseRun!MultiplyProduced, MultiplyProduced, BaseRun!RedefinedInputs, RedefinedInputs,
         BaseRun!UsedBeforeDef, UsedBeforeDef, BaseRun!UnproducedOutputs, UnproducedOutputs,
         BaseRun!UndeclaredShapes, UndeclaredShapes
<1>6. Verified(g) => BaseRun!Verified(g)
  BY <1>5 DEF Verified, BaseRun!Verified, CollectGraphErrors, BaseRun!CollectGraphErrors
<1>7. Unfused!Implemented(g) => BaseRun!Implemented(g)
  <2>1. \A op : BaseRun!SubOps(op) = Unfused!SubOps(op)
    BY DEF BaseRun!SubOps, Unfused!SubOps
  <2> QED  BY <2>1, SameOperatorsInBase DEF Unfused!Implemented, BaseRun!Implemented
<1>8. BaseRun!Solves(e, g, t) => Unfused!Solves(e, g, t)
  <2>1. BaseRun!Producer(g, t) = Unfused!Producer(g, t)
    BY <1>1 DEF BaseRun!Producer, Unfused!Producer
  <2> QED  BY <1>1, <1>2, <2>1 DEF BaseRun!Solves, Unfused!Solves
<1> QED  BY <1>6, <1>7, <1>8

\* What the engine's users see of the verifier and the greedy pass together:
\* executing the fused graph of any accepted base graph of implemented ops
\* never fails, and each tensor present has the value the base graph's
\* equations give it, which mention neither fusion nor an order of execution.
THEOREM FusedExecutionIsSound ==
    RunSpec => [](Unfused!Implemented(graph) =>
                      /\ status # "raised"
                      /\ \A t \in DOMAIN env : Unfused!Solves(env, graph, t))
<1>1. RunSpec => BaseRun!Steps
  BY FusionImplementsUnfused, SameSteps, PTL DEF BaseRun!Steps
<1>2. GraphAccepted /\ BaseRun!VerifiedNeverRaises /\ BaseRun!TensorsSolveEquations =>
         (Unfused!Implemented(graph) =>
             /\ status # "raised"
             /\ \A t \in DOMAIN env : Unfused!Solves(env, graph, t))
  BY SameProperties DEF GraphAccepted, BaseRun!VerifiedNeverRaises, BaseRun!TensorsSolveEquations
<1> QED  BY <1>1, <1>2, BaseNeverRaises, BaseSolvesEquations, RunsTheScan, GreedyScans,
            GraphStaysAccepted, PTL
=============================================================================

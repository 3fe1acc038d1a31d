----------------------------- MODULE PassProofs -----------------------------
(***************************************************************************)
(* What dead-code elimination guarantees for every graph the verifier      *)
(* accepts, and what the constant-folding analysis finds, for every graph  *)
(* and every set of constants.                                             *)
(***************************************************************************)
EXTENDS DCE, ConstantFold, GraphLemmas

\* The scan stays inside the graph, keeps only ops it has passed, and marks
\* exactly the inputs of the ops it keeps and the graph's outputs.
LEMMA StartTyped ==
    ASSUME IsGraph(graph), Verified(graph), StartsOn(graph)
    PROVE  TypeOK
<1>1. Len(graph.ops) \in Nat
  BY PositionsOfList DEF IsGraph
<1> QED  BY <1>1 DEF StartsOn, TypeOK

LEMMA StepTyped ==
    ASSUME IsGraph(graph), TypeOK, [Next]_vars
    PROVE  IsGraph(graph)' /\ TypeOK'
<1>1. Len(graph.ops) \in Nat /\ i \in 0..Len(graph.ops)
  BY PositionsOfList DEF TypeOK, IsGraph
<1>2. graph' = graph
  BY DEF Next, KeepLive, SkipDead, Terminated, vars
<1>3. CASE KeepLive
  <2>1. i - 1 \in 0..Len(graph.ops)
    BY <1>1, <1>3 DEF KeepLive, Visiting
  <2>2. keep \cup {i} \subseteq ((i - 1) + 1)..Len(graph.ops)
    BY <1>1, <1>3 DEF KeepLive, Visiting, TypeOK
  <2>3. live \cup Range(graph.ops[i].inputs)
           = Range(graph.graph_outputs)
               \cup UNION {Range(graph.ops[k].inputs) : k \in keep \cup {i}}
    BY DEF TypeOK
  <2> QED  BY <1>2, <1>3, <2>1, <2>2, <2>3 DEF KeepLive, TypeOK
<1>4. CASE SkipDead
  <2>1. i - 1 \in 0..Len(graph.ops) /\ keep \subseteq ((i - 1) + 1)..Len(graph.ops)
    BY <1>1, <1>4 DEF SkipDead, Visiting, TypeOK
  <2> QED  BY <1>2, <1>4, <2>1 DEF SkipDead, TypeOK
<1>5. CASE UNCHANGED vars
  BY <1>5 DEF vars, TypeOK
<1> QED  BY <1>2, <1>3, <1>4, <1>5 DEF Next, Terminated

\* For every set of graphs, in every state of the scan.
THEOREM TypeCorrect == Spec => []TypeOK
<1>1. Init => IsGraph(graph) /\ TypeOK
  BY StartTyped, GraphsAssumption DEF Init
<1>2. IsGraph(graph) /\ TypeOK /\ [Next]_vars => (IsGraph(graph) /\ TypeOK)'
  BY StepTyped
<1> QED  BY <1>1, <1>2, PTL DEF Spec

\* The strengthening of KeepsExactlyNeeded.  The ops the scan has passed are
\* settled: what it marks from now on is read by earlier ops, and those read
\* nothing that a later op writes.
PassedAreSettled ==
    \A k \in (i + 1)..Len(graph.ops) : Range(graph.ops[k].outputs) \cap live # {} => k \in keep

NothingKeptInVain ==
    \A K \in SUBSET DOMAIN graph.ops : SelfContained(K) => keep \subseteq K

IInv == IsGraph(graph) /\ TypeOK /\ PassedAreSettled /\ NothingKeptInVain

\* What an unfinished scan knows of the op it visits.
LEMMA VisitProperties ==
    ASSUME IInv, Visiting
    PROVE  /\ Len(graph.ops) \in Nat /\ DOMAIN graph.ops = 1..Len(graph.ops)
           /\ i \in DOMAIN graph.ops
           /\ \A k \in i..Len(graph.ops) :
                 Range(graph.ops[k].outputs) \cap Range(graph.ops[i].inputs) = {}
<1>1. graph.ops \in Seq(Range(graph.ops)) /\ Verified(graph) /\ i \in 0..Len(graph.ops)
  BY DEF IInv, TypeOK, IsGraph
<1>2. Len(graph.ops) \in Nat /\ DOMAIN graph.ops = 1..Len(graph.ops)
  BY <1>1, PositionsOfList
<1>3. i \in DOMAIN graph.ops
  BY <1>1, <1>2 DEF Visiting
<1>4. ASSUME NEW k \in i..Len(graph.ops)
      PROVE  Range(graph.ops[k].outputs) \cap Range(graph.ops[i].inputs) = {}
  <2>1. k \in DOMAIN graph.ops /\ i <= k
    BY <1>2, <1>3
  <2> QED  BY <1>1, <1>3, <2>1, ReadersComeLater
<1> QED  BY <1>2, <1>3, <1>4

\* The strengthening holds where the scan begins, and every step keeps it.
LEMMA StartsInInv ==
    ASSUME IsGraph(graph), Verified(graph), StartsOn(graph)
    PROVE  IInv
<1>1. Len(graph.ops) \in Nat
  BY PositionsOfList DEF IsGraph
<1>2. PassedAreSettled /\ NothingKeptInVain
  BY <1>1 DEF StartsOn, PassedAreSettled, NothingKeptInVain
<1> QED  BY <1>2, StartTyped DEF IInv

LEMMA StepKeepsInv ==
    ASSUME IInv, [Next]_vars
    PROVE  IInv'
<1>0. IsGraph(graph)' /\ TypeOK'
  BY StepTyped DEF IInv
<1>1. CASE KeepLive
  <2>1. /\ Visiting /\ IsLive(graph.ops[i])
        /\ keep' = keep \cup {i} /\ i' = i - 1 /\ graph' = graph
        /\ live' = live \cup Range(graph.ops[i].inputs)
    BY <1>1 DEF KeepLive
  <2>2. PassedAreSettled'
    <3> SUFFICES ASSUME NEW k \in (i' + 1)..Len(graph.ops),
                        Range(graph.ops[k].outputs) \cap live' # {}
                 PROVE  k \in keep'
      BY <2>1 DEF PassedAreSettled
    <3>1. k = i \/ k \in (i + 1)..Len(graph.ops)
      BY <2>1, VisitProperties
    <3>2. k \in i..Len(graph.ops)
      BY <2>1, VisitProperties
    <3>3. Range(graph.ops[k].outputs) \cap live # {}
      BY <2>1, <3>2, VisitProperties
    <3> QED  BY <2>1, <3>1, <3>3 DEF IInv, PassedAreSettled
  <2>3. NothingKeptInVain'
    <3> SUFFICES ASSUME NEW K \in SUBSET DOMAIN graph.ops, SelfContained(K)
                 PROVE  keep \cup {i} \subseteq K
      BY <2>1 DEF NothingKeptInVain, SelfContained
    <3>1. keep \subseteq K
      BY DEF IInv, NothingKeptInVain
    <3>2. live \subseteq Range(graph.graph_outputs)
                      \cup UNION {Range(graph.ops[j].inputs) : j \in K}
      BY <3>1 DEF IInv, TypeOK
    <3>3. i \in K
      BY <2>1, <3>2, VisitProperties DEF IsLive, SelfContained
    <3> QED  BY <3>1, <3>3
  <2> QED  BY <1>0, <2>2, <2>3 DEF IInv
<1>2. CASE SkipDead
  <2>1. /\ Visiting /\ ~ IsLive(graph.ops[i])
        /\ keep' = keep /\ i' = i - 1 /\ graph' = graph /\ live' = live
    BY <1>2 DEF SkipDead
  <2>2. PassedAreSettled'
    <3> SUFFICES ASSUME NEW k \in (i' + 1)..Len(graph.ops),
                        Range(graph.ops[k].outputs) \cap live # {}
                 PROVE  k \in keep
      BY <2>1 DEF PassedAreSettled
    <3>1. k = i \/ k \in (i + 1)..Len(graph.ops)
      BY <2>1, VisitProperties
    <3> QED  BY <2>1, <3>1 DEF IInv, PassedAreSettled, IsLive
  <2>3. NothingKeptInVain'
    BY <2>1 DEF IInv, NothingKeptInVain, SelfContained
  <2> QED  BY <1>0, <2>2, <2>3 DEF IInv
<1>3. CASE UNCHANGED vars
  <2>1. graph' = graph /\ i' = i /\ live' = live /\ keep' = keep
    BY <1>3 DEF vars
  <2>2. PassedAreSettled'
    BY <2>1 DEF IInv, PassedAreSettled
  <2>3. NothingKeptInVain'
    BY <2>1 DEF IInv, NothingKeptInVain, SelfContained
  <2> QED  BY <1>0, <2>2, <2>3 DEF IInv
<1> QED  BY <1>1, <1>2, <1>3 DEF Next, Terminated

\* It holds in every state of a scan that begins on one of the graphs.
LEMMA Invariance == Spec => []IInv
<1>1. Init => IInv
  BY StartsInInv, GraphsAssumption DEF Init
<1>2. IInv /\ [Next]_vars => IInv'
  BY StepKeepsInv
<1> QED  BY <1>1, <1>2, PTL DEF Spec

\* Once the scan has passed every op, all it found needed is kept.
LEMMA KeptIsSelfContained ==
    ASSUME IInv, Finished
    PROVE  SelfContained(keep)
<1>1. DOMAIN graph.ops = (i + 1)..Len(graph.ops)
  BY PositionsOfList DEF IInv, Finished, IsGraph
<1> QED  BY <1>1 DEF IInv, TypeOK, PassedAreSettled, SelfContained

\* The pass keeps the smallest set of ops that can run without the others.
THEOREM LeastSetIsKept == Spec => []KeepsExactlyNeeded
<1>1. IInv => KeepsExactlyNeeded
  BY KeptIsSelfContained DEF IInv, NothingKeptInVain, KeepsExactlyNeeded
<1> QED  BY <1>1, Invariance, PTL
----------------------------------------------------------------------------
\* The ops at a set of positions: NthOf numbers the positions from 1 in their
\* order, and leaves none out.
LEMMA PickedOps ==
    ASSUME NEW ops, ops \in Seq(Range(ops)), NEW P \in SUBSET DOMAIN ops
    PROVE  /\ Cardinality(P) \in Nat
           /\ OpsAmong(ops, P) \in Seq(Range(OpsAmong(ops, P)))
           /\ DOMAIN OpsAmong(ops, P) = 1..Cardinality(P)
           /\ \A k \in 1..Cardinality(P) :
                 NthOf(P, k) \in P /\ OpsAmong(ops, P)[k] = ops[NthOf(P, k)]
           /\ \A j, k \in 1..Cardinality(P) : j < k <=> NthOf(P, j) < NthOf(P, k)
           /\ \A p \in P : \E k \in 1..Cardinality(P) : NthOf(P, k) = p
<1> DEFINE n == Cardinality(P)
           below == [p \in P |-> {q \in P : q < p}]
           picked == OpsAmong(ops, P)
<1>1. /\ P \subseteq 1..Len(ops) /\ Len(ops) \in Nat
      /\ \A p \in P : p \in Int
  BY PositionsOfList
<1>2. IsFiniteSet(P)
  <2>1. IsFiniteSet(1..Len(ops))
    BY <1>1, FS_Interval
  <2> QED  BY <1>1, <2>1, FS_Subset
<1>3. below \in [P -> SUBSET P]
  OBVIOUS
<1>4. \A p, q \in P : p \in below[q] <=> p < q
  OBVIOUS
<1>5. /\ \A p \in P : p \notin below[p]
      /\ \A p, q \in P : p \in below[q] => below[p] \subseteq below[q]
      /\ \A p, q \in P : p = q \/ p \in below[q] \/ q \in below[p]
  <2>1. \A p \in P : ~ (p < p)
    BY <1>1
  <2>2. \A p, q, r \in P : r < p /\ p < q => r < q
    BY <1>1
  <2>3. \A p, q \in P : p = q \/ p < q \/ q < p
    BY <1>1
  <2> QED  BY <2>1, <2>2, <2>3
<1> HIDE DEF below
<1>6. /\ n \in Nat
      /\ \A p \in P : Cardinality(below[p]) \in 0..(n - 1)
      /\ \A p, q \in P : p \in below[q] => Cardinality(below[p]) < Cardinality(below[q])
      /\ \A p, q \in P : Cardinality(below[p]) = Cardinality(below[q]) => p = q
      /\ \A m \in 0..(n - 1) : \E p \in P : Cardinality(below[p]) = m
  BY <1>2, <1>3, <1>5, RanksEnumerate
<1>7. ASSUME NEW k \in 1..n
      PROVE  NthOf(P, k) \in P /\ Cardinality(below[NthOf(P, k)]) = k - 1
  <2> HIDE DEF n
  <2>1. k - 1 \in 0..(n - 1)
    BY <1>6
  <2>2. \E p \in P : Cardinality(below[p]) = k - 1
    BY <1>6, <2>1
  <2>3. \A p \in P : below[p] = {q \in P : q < p}
    BY DEF below
  <2>4. \E p \in P : Cardinality({q \in P : q < p}) = k - 1
    BY <2>2, <2>3
  <2>5. NthOf(P, k) \in P /\ Cardinality({q \in P : q < NthOf(P, k)}) = k - 1
    BY <2>4 DEF NthOf
  <2> QED  BY <2>3, <2>5
<1>8. ASSUME NEW j \in 1..n, NEW k \in 1..n
      PROVE  j < k <=> NthOf(P, j) < NthOf(P, k)
  <2> DEFINE p == NthOf(P, j)
             q == NthOf(P, k)
  <2>1. /\ p \in P /\ q \in P /\ p \in Int /\ q \in Int
        /\ Cardinality(below[p]) = j - 1 /\ Cardinality(below[q]) = k - 1
    BY <1>1, <1>7
  <2> HIDE DEF p, q
  <2>2. p < q => j - 1 < k - 1
    BY <1>4, <1>6, <2>1, SMTT(30)
  <2>3. q < p => k - 1 < j - 1
    BY <1>4, <1>6, <2>1
  <2>4. p = q => j - 1 = k - 1
    BY <2>1
  <2>5. j \in Int /\ k \in Int
    OBVIOUS
  <2>6. j < k <=> p < q
    BY <2>1, <2>2, <2>3, <2>4, <2>5
  <2> QED  BY <2>6 DEF p, q
<1>9. ASSUME NEW p \in P
      PROVE  \E k \in 1..n : NthOf(P, k) = p
  <2> DEFINE k == Cardinality(below[p]) + 1
  <2>1. Cardinality(below[p]) \in 0..(n - 1)
    BY <1>6
  <2>2. k \in 1..n /\ k - 1 = Cardinality(below[p])
    <3> HIDE DEF n
    <3> QED  BY <1>6, <2>1
  <2> HIDE DEF k
  <2>3. NthOf(P, k) = p
    BY <1>6, <1>7, <2>2
  <2> QED  BY <2>2, <2>3
<1>10. picked = [k \in 1..n |-> ops[NthOf(P, k)]]
  BY DEF OpsAmong
<1> HIDE DEF picked, n
<1>11. picked \in Seq(Range(picked))
  <2>1. picked \in [1..n -> Range(picked)]
    BY <1>10 DEF Range
  <2> QED  BY <1>6, <2>1, SeqDef
<1> QED  BY <1>6, <1>7, <1>8, <1>9, <1>10, <1>11 DEF picked, n

\* What the picked ops write, all of them or those before the k-th.
LEMMA PickedTensors ==
    ASSUME NEW ops, ops \in Seq(Range(ops)), NEW P \in SUBSET DOMAIN ops, NEW t
    PROVE  /\ t \in WrittenBy(OpsAmong(ops, P)) <=> \E p \in P : t \in Range(ops[p].outputs)
           /\ t \in ReadBy(OpsAmong(ops, P)) <=> \E p \in P : t \in Range(ops[p].inputs)
           /\ \A k \in 1..Cardinality(P) :
                 t \in WrittenBy(SubSeq(OpsAmong(ops, P), 1, k - 1))
                     <=> \E p \in P : p < NthOf(P, k) /\ t \in Range(ops[p].outputs)
<1> DEFINE n == Cardinality(P)
           picked == OpsAmong(ops, P)
<1>1. /\ n \in Nat /\ picked \in Seq(Range(picked)) /\ DOMAIN picked = 1..n
      /\ \A k \in 1..n : NthOf(P, k) \in P /\ picked[k] = ops[NthOf(P, k)]
      /\ \A j, k \in 1..n : j < k <=> NthOf(P, j) < NthOf(P, k)
      /\ \A p \in P : \E k \in 1..n : NthOf(P, k) = p
  BY PickedOps
<1>2. Len(picked) = n
  BY <1>1, LenProperties
<1> HIDE DEF picked, n
<1>3. t \in WrittenBy(picked) <=> \E p \in P : t \in Range(ops[p].outputs)
  BY <1>1 DEF WrittenBy
<1>4. t \in ReadBy(picked) <=> \E p \in P : t \in Range(ops[p].inputs)
  BY <1>1 DEF ReadBy
<1>5. ASSUME NEW k \in 1..n
      PROVE  t \in WrittenBy(SubSeq(picked, 1, k - 1))
                 <=> \E p \in P : p < NthOf(P, k) /\ t \in Range(ops[p].outputs)
  <2>1. k \in 1..(Len(picked) + 1)
    BY <1>1, <1>2
  <2>2. ASSUME t \in WrittenBy(SubSeq(picked, 1, k - 1))
        PROVE  \E p \in P : p < NthOf(P, k) /\ t \in Range(ops[p].outputs)
    <3>1. PICK j \in DOMAIN picked : j < k /\ t \in Range(picked[j].outputs)
      BY <1>1, <2>1, <2>2, PrefixWriters
    <3> QED  BY <1>1, <3>1
  <2>3. ASSUME NEW p \in P, p < NthOf(P, k), t \in Range(ops[p].outputs)
        PROVE  t \in WrittenBy(SubSeq(picked, 1, k - 1))
    <3>1. PICK j \in 1..n : NthOf(P, j) = p
      BY <1>1
    <3>2. j \in DOMAIN picked /\ j < k /\ t \in Range(picked[j].outputs)
      BY <1>1, <2>3, <3>1
    <3> QED  BY <1>1, <2>1, <3>2, WrittenByPrefix
  <2> QED  BY <2>2, <2>3
<1> QED  BY <1>3, <1>4, <1>5 DEF picked, n

\* The rebuilt graph, field by field.
LEMMA PrunedFields ==
    ASSUME IsGraph(graph)
    PROVE  LET kept == OpsAmong(graph.ops, keep) IN
           /\ Pruned.ops = kept
           /\ Pruned.graph_inputs = graph.graph_inputs
           /\ Pruned.graph_outputs = graph.graph_outputs
           /\ DOMAIN Pruned.shapes
                 = (DOMAIN graph.shapes)
                     \cap (ReadBy(kept) \cup WrittenBy(kept)
                             \cup Range(graph.graph_inputs) \cup Range(graph.graph_outputs))
<1>1. graph = MkGraph(graph.ops, graph.shapes, graph.graph_inputs, graph.graph_outputs)
  BY DEF IsGraph
<1> DEFINE kept == OpsAmong(graph.ops, keep)
<1>2. \A g, ops :
         g = MkGraph(g.ops, g.shapes, g.graph_inputs, g.graph_outputs)
         => /\ Rebuild(g, ops).ops = ops
            /\ Rebuild(g, ops).graph_inputs = g.graph_inputs
            /\ Rebuild(g, ops).graph_outputs = g.graph_outputs
            /\ DOMAIN Rebuild(g, ops).shapes
                  = (DOMAIN g.shapes)
                      \cap (ReadBy(ops) \cup WrittenBy(ops)
                              \cup Range(g.graph_inputs) \cup Range(g.graph_outputs))
  BY DEF Rebuild, MkGraph
<1>3. Pruned = Rebuild(graph, kept)
  BY DEF Pruned
<1> HIDE DEF kept
<1>4. /\ Rebuild(graph, kept).ops = kept
      /\ Rebuild(graph, kept).graph_inputs = graph.graph_inputs
      /\ Rebuild(graph, kept).graph_outputs = graph.graph_outputs
      /\ DOMAIN Rebuild(graph, kept).shapes
            = (DOMAIN graph.shapes)
                \cap (ReadBy(kept) \cup WrittenBy(kept)
                        \cup Range(graph.graph_inputs) \cup Range(graph.graph_outputs))
  BY <1>1, <1>2
<1> QED  BY <1>3, <1>4 DEF kept

\* The verifier accepts what the pass returns, and whatever the smaller graph
\* expects its caller to provide, the graph did before.
LEMMA PrunedIsRight ==
    ASSUME IInv, Finished
    PROVE  Verified(Pruned) /\ External(Pruned) \subseteq External(graph)
<1> DEFINE ops == graph.ops
           kept == OpsAmong(graph.ops, keep)
           n == Cardinality(keep)
           g == Pruned
<1>1. /\ IsGraph(graph) /\ ops \in Seq(Range(ops)) /\ Verified(graph)
      /\ Len(ops) \in Nat /\ DOMAIN ops = 1..Len(ops)
      /\ keep \in SUBSET DOMAIN ops
  <2>1. IsGraph(graph) /\ ops \in Seq(Range(ops)) /\ Verified(graph)
    BY DEF IInv, TypeOK, IsGraph
  <2>2. Len(ops) \in Nat /\ DOMAIN ops = 1..Len(ops)
    BY <2>1, PositionsOfList
  <2>3. keep \in SUBSET DOMAIN ops
    BY <2>2 DEF IInv, TypeOK, Finished
  <2> QED  BY <2>1, <2>2, <2>3
<1>2. SelfContained(keep)
  BY KeptIsSelfContained
<1>3. /\ n \in Nat /\ kept \in Seq(Range(kept)) /\ DOMAIN kept = 1..n
      /\ \A k \in 1..n : NthOf(keep, k) \in keep /\ kept[k] = ops[NthOf(keep, k)]
  BY <1>1, PickedOps
<1>4. /\ \A t : t \in WrittenBy(kept) <=> \E p \in keep : t \in Range(ops[p].outputs)
      /\ \A t : t \in ReadBy(kept) <=> \E p \in keep : t \in Range(ops[p].inputs)
  BY <1>1, PickedTensors
<1>5. \A t : \A k \in 1..n :
         t \in WrittenBy(SubSeq(kept, 1, k - 1))
             <=> \E p \in keep : p < NthOf(keep, k) /\ t \in Range(ops[p].outputs)
  BY <1>1, PickedTensors
<1>6. /\ g.ops = kept /\ g.graph_inputs = graph.graph_inputs
      /\ g.graph_outputs = graph.graph_outputs
      /\ DOMAIN g.shapes
            = (DOMAIN graph.shapes)
                \cap (ReadBy(kept) \cup WrittenBy(kept)
                        \cup Range(graph.graph_inputs) \cup Range(graph.graph_outputs))
  BY <1>1, PrunedFields
<1> HIDE DEF kept, n, g
\* What the kept ops read and the outputs the graph promises keep their
\* producers.
<1>7. ASSUME NEW t \in ReadBy(kept) \cup Range(graph.graph_outputs),
             NEW p \in DOMAIN ops, t \in Range(ops[p].outputs)
      PROVE  p \in keep
  <2>1. t \in Range(graph.graph_outputs) \cup UNION {Range(ops[j].inputs) : j \in keep}
    BY <1>4, <1>7
  <2> QED  BY <1>2, <1>7, <2>1 DEF SelfContained
<1>8. External(g) \subseteq External(graph)
  <2> SUFFICES ASSUME NEW t \in External(g), t \in WrittenBy(graph.ops)
               PROVE  FALSE
    BY <1>6 DEF External
  <2>1. t \in DOMAIN g.shapes /\ t \notin WrittenBy(kept)
    BY <1>6 DEF External
  <2>2. PICK p \in DOMAIN ops : t \in Range(ops[p].outputs)
    BY DEF WrittenBy
  <2>3. CASE t \in Range(graph.graph_inputs)
    BY <1>1, <2>2, <2>3, VerifiedGives
  <2>4. CASE t \in ReadBy(kept) \cup Range(graph.graph_outputs)
    <3>1. p \in keep
      BY <1>7, <2>2, <2>4
    <3> QED  BY <1>4, <2>1, <2>2, <3>1
  <2> QED  BY <1>6, <2>1, <2>3, <2>4
<1>9. ASSUME NEW k \in DOMAIN g.ops
      PROVE  Acceptable(g, k)
  <2> DEFINE p == NthOf(keep, k)
  <2>1. k \in 1..n /\ p \in keep /\ p \in DOMAIN ops /\ g.ops[k] = ops[p]
    BY <1>1, <1>3, <1>6, <1>9
  <2> HIDE DEF p
  <2>2. ops[p].outputs \in Seq(Range(ops[p].outputs))
    BY <1>1, <2>1 DEF IsGraph, IsOp
  <2>3. \A o, q \in DOMAIN ops[p].outputs :
           ops[p].outputs[o] = ops[p].outputs[q] => o = q
    BY <1>1, <2>1, <2>2, OutputsDiffer
  <2>4. /\ Range(ops[p].inputs) \subseteq ProducedBefore(graph, p)
        /\ Range(ops[p].outputs) \cap Range(graph.graph_inputs) = {}
        /\ Range(ops[p].inputs) \subseteq DOMAIN graph.shapes
        /\ Range(ops[p].outputs) \subseteq DOMAIN graph.shapes
    BY <1>1, <2>1, VerifiedGives
  <2>5. p \in 1..(Len(ops) + 1)
    BY <1>1, <2>1
  <2>6. ASSUME NEW t \in Range(ops[p].outputs), t \in WrittenBy(SubSeq(g.ops, 1, k - 1))
        PROVE  FALSE
    <3>1. PICK m \in keep : m < p /\ t \in Range(ops[m].outputs)
      BY <1>5, <1>6, <2>1, <2>6 DEF p
    <3>2. t \in WrittenBy(SubSeq(ops, 1, p - 1))
      BY <1>1, <2>5, <3>1, WrittenByPrefix
    <3>3. MultiplyProduced(graph) = {}
      BY <1>1 DEF Verified, CollectGraphErrors
    <3> QED  BY <1>1, <2>1, <2>6, <3>2, <3>3, WrittenOnce
  <2>7. ASSUME NEW t \in Range(ops[p].inputs) \cup Range(ops[p].outputs)
        PROVE  t \in DOMAIN g.shapes
    <3>1. t \in ReadBy(kept) \cup WrittenBy(kept)
      BY <1>4, <2>1, <2>7
    <3> QED  BY <1>6, <2>4, <3>1
  <2>8. ASSUME NEW t \in Range(ops[p].inputs)
        PROVE  t \in ProducedBefore(g, k)
    <3>1. t \in ProducedBefore(graph, p) /\ t \in ReadBy(kept) /\ t \in DOMAIN g.shapes
      BY <1>4, <2>1, <2>4, <2>7, <2>8
    <3>2. CASE t \in WrittenBy(SubSeq(ops, 1, p - 1))
      <4>1. PICK m \in DOMAIN ops : m < p /\ t \in Range(ops[m].outputs)
        BY <1>1, <2>5, <3>2, PrefixWriters
      <4>2. m \in keep
        BY <1>7, <3>1, <4>1
      <4>3. t \in WrittenBy(SubSeq(g.ops, 1, k - 1))
        BY <1>5, <1>6, <2>1, <4>1, <4>2 DEF p
      <4> QED  BY <4>3 DEF ProducedBefore
    <3>3. CASE t \in External(graph)
      <4>1. t \notin WrittenBy(kept)
        BY <1>1, <1>4, <3>3 DEF External, WrittenBy
      <4> QED  BY <1>6, <3>1, <4>1 DEF ProducedBefore, External
    <3>4. CASE t \in Range(graph.graph_inputs)
      BY <1>6, <3>4 DEF ProducedBefore
    <3> QED  BY <3>1, <3>2, <3>3, <3>4 DEF ProducedBefore
  <2> QED  BY <1>6, <2>1, <2>2, <2>3, <2>4, <2>6, <2>7, <2>8 DEF Acceptable
<1>10. Range(g.graph_outputs) \subseteq WrittenBy(g.ops) \cup Range(g.graph_inputs)
  <2> SUFFICES ASSUME NEW t \in Range(graph.graph_outputs), t \notin Range(graph.graph_inputs)
               PROVE  t \in WrittenBy(kept)
    BY <1>6
  <2>1. UnproducedOutputs(graph) = {}
    BY <1>1 DEF Verified, CollectGraphErrors
  <2>2. t \in WrittenBy(ops)
    BY <2>1 DEF UnproducedOutputs
  <2>3. PICK p \in DOMAIN ops : t \in Range(ops[p].outputs)
    BY <2>2 DEF WrittenBy
  <2> QED  BY <1>4, <1>7, <2>3
<1>11. Verified(g)
  BY <1>9, <1>10, VerifiedWhen
<1> QED  BY <1>8, <1>11 DEF g

\* It is a graph whose ops are ops of the graph it was made from.
LEMMA PrunedIsGraph ==
    ASSUME IInv, Finished
    PROVE  /\ IsGraph(Pruned)
           /\ Range(Pruned.ops) \subseteq Range(graph.ops)
           /\ Pruned.graph_inputs = graph.graph_inputs
           /\ Pruned.graph_outputs = graph.graph_outputs
<1> DEFINE ops == graph.ops
           kept == OpsAmong(graph.ops, keep)
<1>1. /\ IsGraph(graph) /\ ops \in Seq(Range(ops)) /\ keep \in SUBSET DOMAIN ops
  <2>1. IsGraph(graph) /\ ops \in Seq(Range(ops))
    BY DEF IInv, IsGraph
  <2>2. Len(ops) \in Nat /\ DOMAIN ops = 1..Len(ops)
    BY <2>1, PositionsOfList
  <2> QED  BY <2>1, <2>2 DEF IInv, TypeOK, Finished
<1>2. /\ kept \in Seq(Range(kept)) /\ DOMAIN kept = 1..Cardinality(keep)
      /\ \A k \in 1..Cardinality(keep) : NthOf(keep, k) \in keep /\ kept[k] = ops[NthOf(keep, k)]
  BY <1>1, PickedOps
<1>3. /\ Pruned.ops = kept /\ Pruned.graph_inputs = graph.graph_inputs
      /\ Pruned.graph_outputs = graph.graph_outputs
  BY <1>1, PrunedFields
<1>4. Pruned = MkGraph(Pruned.ops, Pruned.shapes, Pruned.graph_inputs, Pruned.graph_outputs)
  <2>1. graph = MkGraph(graph.ops, graph.shapes, graph.graph_inputs, graph.graph_outputs)
    BY <1>1 DEF IsGraph
  <2> DEFINE referenced == ReadBy(kept) \cup WrittenBy(kept)
                \cup Range(graph.graph_inputs) \cup Range(graph.graph_outputs)
             shapes == [t \in (DOMAIN graph.shapes) \cap referenced |-> graph.shapes[t]]
  <2>2. Pruned = [graph EXCEPT !.ops = kept, !.shapes = shapes]
    BY DEF Pruned, Rebuild
  <2> HIDE DEF shapes
  <2>3. [graph EXCEPT !.ops = kept, !.shapes = shapes]
           = [[graph EXCEPT !.ops = kept] EXCEPT !.shapes = shapes]
    OBVIOUS
  <2>4. [graph EXCEPT !.ops = kept]
           = MkGraph(kept, graph.shapes, graph.graph_inputs, graph.graph_outputs)
    BY <2>1 DEF MkGraph
  <2>5. [MkGraph(kept, graph.shapes, graph.graph_inputs, graph.graph_outputs)
            EXCEPT !.shapes = shapes]
           = MkGraph(kept, shapes, graph.graph_inputs, graph.graph_outputs)
    BY DEF MkGraph
  <2>6. Pruned = MkGraph(kept, shapes, graph.graph_inputs, graph.graph_outputs)
    BY <2>2, <2>3, <2>4, <2>5
  <2> QED  BY <2>6 DEF MkGraph
<1> HIDE DEF kept
<1>5. Range(kept) \subseteq Range(ops) /\ \A k \in DOMAIN kept : IsOp(kept[k])
  BY <1>1, <1>2 DEF Range, IsGraph
<1>6. /\ graph.graph_inputs \in Seq(Range(graph.graph_inputs))
      /\ graph.graph_outputs \in Seq(Range(graph.graph_outputs))
  BY <1>1 DEF IsGraph
<1>7. IsGraph(Pruned)
  BY <1>2, <1>3, <1>4, <1>5, <1>6 DEF IsGraph
<1> QED  BY <1>3, <1>5, <1>7

\* For every set of graphs, whenever the pass has come to an end.
THEOREM PrunedIsAccepted == Spec => []PrunedVerifies
<1>1. IInv => PrunedVerifies
  BY PrunedIsRight DEF PrunedVerifies
<1> QED  BY <1>1, Invariance, PTL
----------------------------------------------------------------------------
(***************************************************************************)
(* The constant-folding analysis.                                          *)
(***************************************************************************)

\* The parts of CanFold.
MadeBy(S) == UNION {Range(graph.ops[k].outputs) : k \in S}
Closed(S) ==
    \A k \in DOMAIN graph.ops : Range(graph.ops[k].inputs) \subseteq constants \cup MadeBy(S)
                                   => k \in S

\* The positions F are what the scan has found: they are passed, account for
\* all it knows and has listed, and belong to every closed set.
FoundSoFar(F) ==
    /\ F \subseteq {k \in DOMAIN graph.ops : k < i}
    /\ known_constants = constants \cup MadeBy(F)
    /\ Range(foldable) = {graph.ops[k].name : k \in F}
    /\ \A S \in SUBSET DOMAIN graph.ops : Closed(S) => F \subseteq S

\* In an accepted graph no op passed has become foldable since: an op reads
\* nothing that a later one makes.
NoneMissed(F) ==
    Verified(graph) =>
        \A k \in DOMAIN graph.ops :
            k < i /\ Range(graph.ops[k].inputs) \subseteq known_constants => k \in F

FoldInv ==
    /\ graph \in Graphs
    /\ i \in Nat \ {0}
    /\ foldable \in Seq(Range(foldable))
    /\ \E F \in SUBSET DOMAIN graph.ops : FoundSoFar(F) /\ NoneMissed(F)

\* What appending does to the members of a list.
LEMMA RangeOfAppend ==
    ASSUME NEW s, s \in Seq(Range(s)), NEW e
    PROVE  /\ Append(s, e) \in Seq(Range(Append(s, e)))
           /\ Range(Append(s, e)) = Range(s) \cup {e}
<1> DEFINE T == Range(s) \cup {e}
<1>1. s \in Seq(T) /\ e \in T
  <2>1. Len(s) \in Nat /\ DOMAIN s = 1..Len(s) /\ s \in [1..Len(s) -> Range(s)]
    BY LenProperties
  <2>2. s \in [1..Len(s) -> T]
    BY <2>1
  <2> QED  BY <2>1, <2>2, SeqDef
<1> HIDE DEF T
<1>2. /\ Append(s, e) \in Seq(T) /\ Len(Append(s, e)) = Len(s) + 1
      /\ \A k \in 1..Len(s) : Append(s, e)[k] = s[k]
      /\ Append(s, e)[Len(s) + 1] = e
  BY <1>1, AppendProperties
<1>3. /\ Len(s) \in Nat /\ DOMAIN s = 1..Len(s)
      /\ DOMAIN Append(s, e) = 1..(Len(s) + 1)
  BY <1>1, <1>2, LenProperties
<1>4. Range(Append(s, e)) = Range(s) \cup {e}
  <2>1. \A k \in 1..(Len(s) + 1) : k \in 1..Len(s) \/ k = Len(s) + 1
    BY <1>3
  <2>2. 1..Len(s) \subseteq 1..(Len(s) + 1) /\ Len(s) + 1 \in 1..(Len(s) + 1)
    BY <1>3
  <2>3. Range(Append(s, e)) \subseteq Range(s) \cup {e}
    BY <1>2, <1>3, <2>1 DEF Range
  <2>4. Range(s) \cup {e} \subseteq Range(Append(s, e))
    BY <1>2, <1>3, <2>2 DEF Range
  <2> QED  BY <2>3, <2>4
<1> QED  BY <1>2, <1>4 DEF T

\* The op the scan visits is one of the graph, and none before it reads what
\* it makes, if the verifier accepts the graph.
LEMMA ScanProperties ==
    ASSUME graph \in Graphs, i \in Nat \ {0}, Scanning
    PROVE  /\ i \in DOMAIN graph.ops
           /\ Verified(graph) =>
                 \A k \in DOMAIN graph.ops : k <= i =>
                    Range(graph.ops[i].outputs) \cap Range(graph.ops[k].inputs) = {}
<1>1. graph.ops \in Seq(Range(graph.ops))
  BY GraphsAssumption DEF IsGraph
<1>2. i \in DOMAIN graph.ops
  <2>1. Len(graph.ops) \in Nat /\ DOMAIN graph.ops = 1..Len(graph.ops)
    BY <1>1, PositionsOfList
  <2> QED  BY <2>1 DEF Scanning
<1>3. ASSUME Verified(graph), NEW k \in DOMAIN graph.ops, k <= i
      PROVE  Range(graph.ops[i].outputs) \cap Range(graph.ops[k].inputs) = {}
  BY <1>1, <1>2, <1>3, ReadersComeLater
<1> QED  BY <1>2, <1>3

\* One forward scan finds every op that can be folded in any order, and only
\* those: fold_constants of constant_fold.py, for every graph the verifier
\* accepts, and for the second half for every graph.
THEOREM OneScanFolds == FoldSpec => []FoldsExactlyConstantOps
<1>1. FoldInit => FoldInv
  <2> SUFFICES ASSUME FoldInit PROVE FoldInv
    OBVIOUS
  <2>1. graph.ops \in Seq(Range(graph.ops))
    BY GraphsAssumption DEF FoldInit, IsGraph
  <2>2. DOMAIN graph.ops \subseteq Nat \ {0}
    BY <2>1, PositionsOfList
  <2>3. FoundSoFar({})
    BY DEF FoldInit, FoundSoFar, MadeBy, Range
  <2>4. NoneMissed({})
    BY <2>2 DEF FoldInit, NoneMissed
  <2>5. foldable \in Seq(Range(foldable))
    BY DEF FoldInit
  <2> QED  BY <2>3, <2>4, <2>5 DEF FoldInit, FoldInv
<1>2. FoldInv /\ [FoldNext]_foldVars => FoldInv'
  <2> SUFFICES ASSUME FoldInv, [FoldNext]_foldVars PROVE FoldInv'
    OBVIOUS
  <2>1. PICK F \in SUBSET DOMAIN graph.ops : FoundSoFar(F) /\ NoneMissed(F)
    BY DEF FoldInv
  <2>2. graph \in Graphs /\ i \in Nat \ {0} /\ foldable \in Seq(Range(foldable))
    BY DEF FoldInv
  <2>3. graph' = graph /\ constants' = constants
    BY DEF FoldNext, Fold, Pass, FoldTerminated, foldVars
  <2>4. CASE Fold
    <3> DEFINE op == graph.ops[i]
    <3>1. /\ Scanning /\ AllKnown(op) /\ i' = i + 1
          /\ known_constants' = known_constants \cup Range(op.outputs)
          /\ foldable' = Append(foldable, op.name)
      BY <2>4 DEF Fold
    <3>2. /\ i \in DOMAIN graph.ops
          /\ Verified(graph) =>
                 \A k \in DOMAIN graph.ops : k <= i =>
                    Range(op.outputs) \cap Range(graph.ops[k].inputs) = {}
      BY <2>2, <3>1, ScanProperties
    <3>3. DOMAIN graph.ops \subseteq Nat
      <4>1. graph.ops \in Seq(Range(graph.ops))
        BY <2>2, GraphsAssumption DEF IsGraph
      <4> QED  BY <4>1, PositionsOfList
    <3>4. \A k \in DOMAIN graph.ops : k < i' <=> k < i \/ k = i
      BY <2>2, <3>1, <3>3
    <3>5. PICK G \in SUBSET DOMAIN graph.ops : G = F \cup {i}
      BY <3>2
    <3>6. FoundSoFar(G)'
      <4>1. G \subseteq {k \in DOMAIN graph.ops : k < i'}
        BY <2>1, <3>2, <3>4, <3>5 DEF FoundSoFar
      <4>2. known_constants' = constants \cup MadeBy(G)
        BY <2>1, <3>1, <3>5 DEF FoundSoFar, MadeBy
      <4>3. foldable' \in Seq(Range(foldable')) /\ Range(foldable') = Range(foldable) \cup {op.name}
        BY <2>2, <3>1, RangeOfAppend
      <4>4. Range(foldable') = {graph.ops[k].name : k \in G}
        BY <2>1, <3>5, <4>3 DEF FoundSoFar
      <4>5. ASSUME NEW S \in SUBSET DOMAIN graph.ops, Closed(S)
            PROVE  G \subseteq S
        <5>1. F \subseteq S
          BY <2>1, <4>5 DEF FoundSoFar
        <5>2. Range(op.inputs) \subseteq constants \cup MadeBy(S)
          BY <2>1, <3>1, <5>1 DEF FoundSoFar, AllKnown, MadeBy
        <5>3. i \in S
          BY <3>2, <4>5, <5>2 DEF Closed
        <5> QED  BY <3>5, <5>1, <5>3
      <4>6. MadeBy(G)' = MadeBy(G) /\ \A S : Closed(S)' <=> Closed(S)
        BY <2>3 DEF MadeBy, Closed
      <4> QED  BY <2>3, <4>1, <4>2, <4>4, <4>5, <4>6 DEF FoundSoFar
    <3>7. NoneMissed(G)'
      <4> SUFFICES ASSUME Verified(graph), NEW k \in DOMAIN graph.ops, k < i',
                          Range(graph.ops[k].inputs) \subseteq known_constants'
                   PROVE  k \in G
        BY <2>3 DEF NoneMissed
      <4>1. CASE k = i
        BY <3>5, <4>1
      <4>2. CASE k < i
        <5>1. Range(op.outputs) \cap Range(graph.ops[k].inputs) = {}
          BY <2>2, <3>2, <3>3, <4>2
        <5>2. Range(graph.ops[k].inputs) \subseteq known_constants
          BY <3>1, <5>1
        <5>3. k \in F
          BY <2>1, <4>2, <5>2 DEF NoneMissed
        <5> QED  BY <3>5, <5>3
      <4> QED  BY <3>4, <4>1, <4>2
    <3>8. foldable' \in Seq(Range(foldable'))
      BY <2>2, <3>1, RangeOfAppend
    <3>9. i' \in Nat \ {0}
      BY <2>2, <3>1
    <3> QED  BY <2>2, <2>3, <3>5, <3>6, <3>7, <3>8, <3>9 DEF FoldInv
  <2>5. CASE Pass
    <3>1. /\ Scanning /\ ~ AllKnown(graph.ops[i]) /\ i' = i + 1
          /\ known_constants' = known_constants /\ foldable' = foldable
      BY <2>5 DEF Pass
    <3>2. DOMAIN graph.ops \subseteq Nat
      <4>1. graph.ops \in Seq(Range(graph.ops))
        BY <2>2, GraphsAssumption DEF IsGraph
      <4> QED  BY <4>1, PositionsOfList
    <3>3. \A k \in DOMAIN graph.ops : k < i' <=> k < i \/ k = i
      BY <2>2, <3>1, <3>2
    <3>4. FoundSoFar(F)'
      <4>1. MadeBy(F)' = MadeBy(F) /\ \A S : Closed(S)' <=> Closed(S)
        BY <2>3 DEF MadeBy, Closed
      <4> QED  BY <2>1, <2>3, <3>1, <3>3, <4>1 DEF FoundSoFar
    <3>5. NoneMissed(F)'
      BY <2>1, <2>3, <3>1, <3>3 DEF NoneMissed, AllKnown
    <3>6. i' \in Nat \ {0}
      BY <2>2, <3>1
    <3> QED  BY <2>1, <2>2, <2>3, <3>1, <3>4, <3>5, <3>6 DEF FoldInv
  <2>6. CASE UNCHANGED foldVars
    <3>1. i' = i /\ known_constants' = known_constants /\ foldable' = foldable
      BY <2>6 DEF foldVars
    <3>2. FoundSoFar(F)' /\ NoneMissed(F)'
      <4>1. MadeBy(F)' = MadeBy(F) /\ \A S : Closed(S)' <=> Closed(S)
        BY <2>3 DEF MadeBy, Closed
      <4> QED  BY <2>1, <2>3, <3>1, <4>1 DEF FoundSoFar, NoneMissed
    <3> QED  BY <2>1, <2>2, <2>3, <3>1, <3>2 DEF FoldInv
  <2> QED  BY <2>4, <2>5, <2>6 DEF FoldNext, FoldTerminated
<1>3. FoldInv => FoldsExactlyConstantOps
  <2> SUFFICES ASSUME FoldInv, FoldFinished PROVE FoldsExactlyConstantOps
    BY DEF FoldsExactlyConstantOps
  <2>1. PICK F \in SUBSET DOMAIN graph.ops : FoundSoFar(F) /\ NoneMissed(F)
    BY DEF FoldInv
  <2>2. CanFold = {k \in DOMAIN graph.ops : \A S \in SUBSET DOMAIN graph.ops : Closed(S) => k \in S}
    BY DEF CanFold, Closed, MadeBy
  <2>3. F \subseteq CanFold
    BY <2>1, <2>2 DEF FoundSoFar
  <2>4. ASSUME Verified(graph) PROVE CanFold \subseteq F
    <3>1. \A k \in DOMAIN graph.ops : k < i
      <4>1. graph.ops \in Seq(Range(graph.ops))
        BY GraphsAssumption DEF FoldInv, IsGraph
      <4> QED  BY <4>1, PositionsOfList DEF FoldFinished, FoldInv
    <3>2. Closed(F)
      BY <2>1, <2>4, <3>1 DEF FoundSoFar, NoneMissed, Closed
    <3> QED  BY <2>1, <2>2, <3>2
  <2>5. Range(foldable) = {graph.ops[k].name : k \in F}
    BY <2>1 DEF FoundSoFar
  <2> QED  BY <2>3, <2>4, <2>5 DEF FoldsExactlyConstantOps
<1> QED  BY <1>1, <1>2, <1>3, PTL DEF FoldSpec
=============================================================================

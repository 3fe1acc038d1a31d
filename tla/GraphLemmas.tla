---------------------------- MODULE GraphLemmas ----------------------------
(***************************************************************************)
(* What the verifier's invariants say of the ops of a graph and of the     *)
(* part of it before a position.                                           *)
(***************************************************************************)
EXTENDS Verify, FiniteSetsExt, FiniteSetTheorems, SequenceTheorems, WellFoundedInduction, TLAPS

\* The positions 1..n are n in number.
LEMMA PositionsCounted ==
    ASSUME NEW n \in Nat
    PROVE  IsFiniteSet(1..n) /\ Cardinality(1..n) = n
<1>1. 1 \in Int /\ n \in Int
  OBVIOUS
<1>2. IsFiniteSet(1..n) /\ Cardinality(1..n) = IF 1 > n THEN 0 ELSE n - 1 + 1
  BY <1>1, FS_Interval
<1> QED  BY <1>2

\* The ops of a list are at the positions from 1 to its length.
LEMMA PositionsOfList ==
    ASSUME NEW s, s \in Seq(Range(s))
    PROVE  Len(s) \in Nat /\ DOMAIN s = 1..Len(s)
BY LenProperties

\* A list is a list of its own elements.
LEMMA OwnRange ==
    ASSUME NEW S, NEW s \in Seq(S)
    PROVE  s \in Seq(Range(s))
<1>1. Len(s) \in Nat /\ s \in [1..Len(s) -> S] /\ DOMAIN s = 1..Len(s)
  BY LenProperties
<1>2. s \in [1..Len(s) -> Range(s)]
  BY <1>1 DEF Range
<1> QED  BY <1>1, <1>2, SeqDef

\* An op before position k has written its outputs before position k.
LEMMA WrittenByPrefix ==
    ASSUME NEW ops, ops \in Seq(Range(ops)), NEW m \in DOMAIN ops, NEW k \in 1..(Len(ops) + 1), m < k
    PROVE  Range(ops[m].outputs) \subseteq WrittenBy(SubSeq(ops, 1, k - 1))
<1> DEFINE prefix == SubSeq(ops, 1, k - 1)
<1>1. Len(ops) \in Nat /\ m \in 1..Len(ops) /\ k \in 1..(Len(ops) + 1)
  BY PositionsOfList
<1>2. prefix \in Seq(Range(ops)) /\ Len(prefix) = k - 1 /\ prefix[m] = ops[m]
  BY <1>1, SubSeqProperties
<1>3. m \in DOMAIN prefix
  BY <1>1, <1>2, LenProperties
<1> HIDE DEF prefix
<1>4. Range(ops[m].outputs) \subseteq WrittenBy(prefix)
  BY <1>2, <1>3 DEF WrittenBy
<1> QED  BY <1>4 DEF prefix

\* What is written before position k is written by an op before it.
LEMMA PrefixWriters ==
    ASSUME NEW ops, ops \in Seq(Range(ops)), NEW k \in 1..(Len(ops) + 1),
           NEW t \in WrittenBy(SubSeq(ops, 1, k - 1))
    PROVE  \E m \in DOMAIN ops : m < k /\ t \in Range(ops[m].outputs)
<1> DEFINE prefix == SubSeq(ops, 1, k - 1)
<1>1. Len(ops) \in Nat /\ DOMAIN ops = 1..Len(ops) /\ k \in 1..(Len(ops) + 1)
  BY PositionsOfList
<1>2. /\ prefix \in Seq(Range(ops)) /\ Len(prefix) = k - 1
      /\ \A m \in 1..(k - 1) : prefix[m] = ops[m]
  BY <1>1, SubSeqProperties
<1>3. DOMAIN prefix = 1..(k - 1)
  BY <1>1, <1>2, LenProperties
<1> HIDE DEF prefix
<1>4. PICK m \in DOMAIN prefix : t \in Range(prefix[m].outputs)
  <2>1. t \in WrittenBy(prefix)
    BY DEF prefix
  <2> QED  BY <2>1 DEF WrittenBy
<1> QED  BY <1>1, <1>2, <1>3, <1>4

\* The part of a graph before the next position ends with the op at this one.
LEMMA NextPrefix ==
    ASSUME NEW ops, ops \in Seq(Range(ops)), NEW k \in DOMAIN ops
    PROVE  WrittenBy(SubSeq(ops, 1, (k + 1) - 1))
               = WrittenBy(SubSeq(ops, 1, k - 1)) \cup Range(ops[k].outputs)
<1> DEFINE Written(n) == WrittenBy(SubSeq(ops, 1, n - 1))
<1>1. Len(ops) \in Nat /\ DOMAIN ops = 1..Len(ops)
  BY PositionsOfList
<1>2. k \in 1..(Len(ops) + 1) /\ k + 1 \in 1..(Len(ops) + 1) /\ k < k + 1
  BY <1>1
<1>3. Written(k + 1) \subseteq Written(k) \cup Range(ops[k].outputs)
  <2> SUFFICES ASSUME NEW t \in Written(k + 1), t \notin Range(ops[k].outputs)
               PROVE  t \in Written(k)
    OBVIOUS
  <2>1. PICK m \in DOMAIN ops : m < k + 1 /\ t \in Range(ops[m].outputs)
    BY <1>1, <1>2, PrefixWriters
  <2>2. m < k
    BY <1>1, <2>1
  <2>3. Range(ops[m].outputs) \subseteq Written(k)
    BY <1>1, <1>2, <2>2, WrittenByPrefix
  <2> QED  BY <2>1, <2>3
<1>4. Written(k) \subseteq Written(k + 1)
  <2> SUFFICES ASSUME NEW t \in Written(k)
               PROVE  t \in Written(k + 1)
    OBVIOUS
  <2>1. PICK m \in DOMAIN ops : m < k /\ t \in Range(ops[m].outputs)
    BY <1>1, <1>2, PrefixWriters
  <2>2. m < k + 1
    BY <1>1, <2>1
  <2>3. Range(ops[m].outputs) \subseteq Written(k + 1)
    BY <1>1, <1>2, <2>2, WrittenByPrefix
  <2> QED  BY <2>1, <2>3
<1>5. Range(ops[k].outputs) \subseteq Written(k + 1)
  BY <1>1, <1>2, WrittenByPrefix
<1> QED  BY <1>3, <1>4, <1>5

\* What is written before a position is written by the graph.
LEMMA PrefixIsPart ==
    ASSUME NEW ops, ops \in Seq(Range(ops)), NEW k \in 1..(Len(ops) + 1)
    PROVE  WrittenBy(SubSeq(ops, 1, k - 1)) \subseteq WrittenBy(ops)
<1> SUFFICES ASSUME NEW t \in WrittenBy(SubSeq(ops, 1, k - 1))
             PROVE  t \in WrittenBy(ops)
  OBVIOUS
<1>1. PICK m \in DOMAIN ops : m < k /\ t \in Range(ops[m].outputs)
  BY PrefixWriters
<1> QED  BY <1>1 DEF WrittenBy

\* In an accepted graph no op writes what an earlier op has written.
LEMMA WrittenOnce ==
    ASSUME NEW g, g.ops \in Seq(Range(g.ops)), MultiplyProduced(g) = {},
           NEW k \in DOMAIN g.ops
    PROVE  Range(g.ops[k].outputs) \cap WrittenBy(SubSeq(g.ops, 1, k - 1)) = {}
<1> SUFFICES ASSUME NEW t \in Range(g.ops[k].outputs), t \in WrittenBy(SubSeq(g.ops, 1, k - 1))
             PROVE  FALSE
  OBVIOUS
<1>1. PICK o \in DOMAIN g.ops[k].outputs : g.ops[k].outputs[o] = t
  BY DEF Range
<1>2. <<k, o>> \in MultiplyProduced(g)
  BY <1>1 DEF MultiplyProduced
<1> QED  BY <1>2

\* In an accepted graph an op writes each of its outputs once.
LEMMA OutputsDiffer ==
    ASSUME NEW g, Verified(g), NEW k \in DOMAIN g.ops,
           g.ops[k].outputs \in Seq(Range(g.ops[k].outputs)),
           NEW o \in DOMAIN g.ops[k].outputs, NEW p \in DOMAIN g.ops[k].outputs,
           g.ops[k].outputs[o] = g.ops[k].outputs[p]
    PROVE  o = p
<1>1. MultiplyProduced(g) = {}
  BY DEF Verified, CollectGraphErrors
<1>2. DOMAIN g.ops[k].outputs = 1..Len(g.ops[k].outputs) /\ Len(g.ops[k].outputs) \in Nat
  BY PositionsOfList
<1>3. ASSUME NEW a \in DOMAIN g.ops[k].outputs, NEW b \in DOMAIN g.ops[k].outputs,
             a < b, g.ops[k].outputs[a] = g.ops[k].outputs[b]
      PROVE  FALSE
  <2>1. a \in 1..(b - 1)
    BY <1>2, <1>3
  <2>2. <<k, b>> \in MultiplyProduced(g)
    BY <1>3, <2>1 DEF MultiplyProduced
  <2> QED  BY <1>1, <2>2
<1>4. o < p \/ p < o \/ o = p
  BY <1>2
<1> QED  BY <1>3, <1>4

\* In an accepted graph no op reads what itself or a later op writes.
LEMMA ReadersComeLater ==
    ASSUME NEW g, g.ops \in Seq(Range(g.ops)), Verified(g),
           NEW j \in DOMAIN g.ops, NEW k \in DOMAIN g.ops, j <= k
    PROVE  Range(g.ops[k].outputs) \cap Range(g.ops[j].inputs) = {}
<1> SUFFICES ASSUME NEW t \in Range(g.ops[k].outputs), t \in Range(g.ops[j].inputs)
             PROVE  FALSE
  OBVIOUS
<1>1. MultiplyProduced(g) = {} /\ RedefinedInputs(g) = {} /\ UsedBeforeDef(g) = {}
  BY DEF Verified, CollectGraphErrors
<1>2. t \in WrittenBy(g.ops)
  BY DEF WrittenBy
<1>3. t \notin Range(g.graph_inputs)
  <2>1. t \in Range(g.graph_inputs) => <<k, t>> \in RedefinedInputs(g)
    BY DEF RedefinedInputs
  <2> QED  BY <1>1, <2>1
<1>4. t \in WrittenBy(SubSeq(g.ops, 1, j - 1))
  <2>1. t \notin ProducedBefore(g, j) => <<j, t>> \in UsedBeforeDef(g)
    BY <1>2 DEF UsedBeforeDef
  <2> QED  BY <1>1, <1>2, <1>3, <2>1 DEF ProducedBefore, External
<1>5. PICK m \in DOMAIN g.ops : m < j /\ t \in Range(g.ops[m].outputs)
  <2>1. j \in 1..(Len(g.ops) + 1)
    BY PositionsOfList
  <2> QED  BY <1>4, <2>1, PrefixWriters
<1>6. t \in WrittenBy(SubSeq(g.ops, 1, k - 1))
  <2>1. m < k /\ k \in 1..(Len(g.ops) + 1)
    BY <1>5, PositionsOfList
  <2> QED  BY <1>5, <2>1, WrittenByPrefix
<1> QED  BY <1>1, <1>6, WrittenOnce

\* What the five invariants say of an accepted graph, op by op.
LEMMA VerifiedGives ==
    ASSUME NEW g, Verified(g), NEW k \in DOMAIN g.ops
    PROVE  /\ Range(g.ops[k].inputs) \subseteq ProducedBefore(g, k)
           /\ Range(g.ops[k].outputs) \cap Range(g.graph_inputs) = {}
           /\ Range(g.ops[k].inputs) \subseteq DOMAIN g.shapes
           /\ Range(g.ops[k].outputs) \subseteq DOMAIN g.shapes
           /\ Range(g.graph_outputs) \subseteq WrittenBy(g.ops) \cup Range(g.graph_inputs)
<1>1. /\ RedefinedInputs(g) = {} /\ UsedBeforeDef(g) = {}
      /\ UnproducedOutputs(g) = {} /\ UndeclaredShapes(g) = {}
  BY DEF Verified, CollectGraphErrors
<1>2. ASSUME NEW t \in Range(g.ops[k].inputs) \cup Range(g.ops[k].outputs)
      PROVE  t \in DOMAIN g.shapes
  <2>1. t \notin DOMAIN g.shapes => <<k, t>> \in UndeclaredShapes(g)
    BY DEF UndeclaredShapes
  <2> QED  BY <1>1, <2>1
<1>3. ASSUME NEW t \in Range(g.ops[k].inputs)
      PROVE  t \in ProducedBefore(g, k)
  <2>1. CASE t \in WrittenBy(g.ops)
    <3>1. t \notin ProducedBefore(g, k) => <<k, t>> \in UsedBeforeDef(g)
      BY <2>1 DEF UsedBeforeDef
    <3> QED  BY <1>1, <3>1
  <2>2. CASE t \notin WrittenBy(g.ops)
    BY <1>2, <2>2 DEF ProducedBefore, External
  <2> QED  BY <2>1, <2>2
<1>4. ASSUME NEW t \in Range(g.ops[k].outputs), t \in Range(g.graph_inputs)
      PROVE  FALSE
  <2>1. <<k, t>> \in RedefinedInputs(g)
    BY <1>4 DEF RedefinedInputs
  <2> QED  BY <1>1, <2>1
<1>5. Range(g.graph_outputs) \subseteq WrittenBy(g.ops) \cup Range(g.graph_inputs)
  BY <1>1 DEF UnproducedOutputs
<1> QED  BY <1>2, <1>3, <1>4, <1>5

\* Conversely, what a graph must guarantee, op by op, to be accepted.
Acceptable(g, k) ==
    /\ g.ops[k].outputs \in Seq(Range(g.ops[k].outputs))
    /\ \A o, p \in DOMAIN g.ops[k].outputs :
          g.ops[k].outputs[o] = g.ops[k].outputs[p] => o = p
    /\ Range(g.ops[k].outputs) \cap WrittenBy(SubSeq(g.ops, 1, k - 1)) = {}
    /\ Range(g.ops[k].outputs) \cap Range(g.graph_inputs) = {}
    /\ Range(g.ops[k].inputs) \subseteq ProducedBefore(g, k)
    /\ Range(g.ops[k].inputs) \cup Range(g.ops[k].outputs) \subseteq DOMAIN g.shapes

LEMMA VerifiedWhen ==
    ASSUME NEW g, \A k \in DOMAIN g.ops : Acceptable(g, k),
           Range(g.graph_outputs) \subseteq WrittenBy(g.ops) \cup Range(g.graph_inputs)
    PROVE  Verified(g)
<1>1. MultiplyProduced(g) = {}
  <2> SUFFICES ASSUME NEW x \in MultiplyProduced(g) PROVE FALSE
    OBVIOUS
  <2>1. PICK k \in DOMAIN g.ops : \E o \in DOMAIN g.ops[k].outputs :
           \/ g.ops[k].outputs[o] \in WrittenBy(SubSeq(g.ops, 1, k - 1))
           \/ \E p \in 1..(o - 1) : g.ops[k].outputs[p] = g.ops[k].outputs[o]
    BY DEF MultiplyProduced
  <2>2. PICK o \in DOMAIN g.ops[k].outputs :
           \/ g.ops[k].outputs[o] \in WrittenBy(SubSeq(g.ops, 1, k - 1))
           \/ \E p \in 1..(o - 1) : g.ops[k].outputs[p] = g.ops[k].outputs[o]
    BY <2>1
  <2>3. Acceptable(g, k)
    OBVIOUS
  <2>4. g.ops[k].outputs[o] \notin WrittenBy(SubSeq(g.ops, 1, k - 1))
    <3>1. g.ops[k].outputs[o] \in Range(g.ops[k].outputs)
      BY DEF Range
    <3> QED  BY <2>3, <3>1 DEF Acceptable
  <2>5. PICK p \in 1..(o - 1) : g.ops[k].outputs[p] = g.ops[k].outputs[o]
    BY <2>2, <2>4
  <2>6. DOMAIN g.ops[k].outputs = 1..Len(g.ops[k].outputs) /\ Len(g.ops[k].outputs) \in Nat
    BY <2>3, PositionsOfList DEF Acceptable
  <2>7. p \in DOMAIN g.ops[k].outputs /\ p # o
    BY <2>6
  <2> QED  BY <2>3, <2>5, <2>7 DEF Acceptable
<1>2. RedefinedInputs(g) = {} /\ UsedBeforeDef(g) = {} /\ UndeclaredShapes(g) = {}
  <2>1. \A k \in DOMAIN g.ops :
           /\ Range(g.ops[k].outputs) \cap Range(g.graph_inputs) = {}
           /\ Range(g.ops[k].inputs) \subseteq ProducedBefore(g, k)
           /\ Range(g.ops[k].inputs) \cup Range(g.ops[k].outputs) \subseteq DOMAIN g.shapes
    BY DEF Acceptable
  <2>2. RedefinedInputs(g) = {}
    BY <2>1 DEF RedefinedInputs
  <2>3. UsedBeforeDef(g) = {}
    BY <2>1 DEF UsedBeforeDef
  <2>4. UndeclaredShapes(g) = {}
    BY <2>1 DEF UndeclaredShapes
  <2> QED  BY <2>2, <2>3, <2>4
<1>3. UnproducedOutputs(g) = {}
  BY DEF UnproducedOutputs
<1> QED  BY <1>1, <1>2, <1>3 DEF Verified, CollectGraphErrors

\* Appending an op adds its outputs to those written.
LEMMA WrittenByAppend ==
    ASSUME NEW ops, ops \in Seq(Range(ops)), NEW op
    PROVE  /\ Append(ops, op) \in Seq(Range(Append(ops, op)))
           /\ Len(Append(ops, op)) = Len(ops) + 1
           /\ Range(Append(ops, op)) = Range(ops) \cup {op}
           /\ WrittenBy(Append(ops, op)) = WrittenBy(ops) \cup Range(op.outputs)
<1> DEFINE S == Range(ops) \cup {op}
           longer == Append(ops, op)
<1>1. ops \in Seq(S) /\ op \in S
  <2>1. Len(ops) \in Nat /\ DOMAIN ops = 1..Len(ops)
    BY PositionsOfList
  <2>2. \A k \in 1..Len(ops) : ops[k] \in S
    BY <2>1 DEF Range
  <2>3. ops \in [1..Len(ops) -> S]
    BY <2>1, <2>2, LenProperties
  <2> QED  BY <2>1, <2>3, SeqDef
<1>2. /\ longer \in Seq(S) /\ Len(longer) = Len(ops) + 1
      /\ \A k \in 1..Len(ops) : longer[k] = ops[k]
      /\ longer[Len(ops) + 1] = op
  BY <1>1, AppendProperties
<1>3. /\ Len(ops) \in Nat /\ DOMAIN ops = 1..Len(ops)
      /\ DOMAIN longer = 1..(Len(ops) + 1)
  BY <1>2, PositionsOfList, LenProperties
<1> HIDE DEF longer
<1>4. Range(longer) = S
  <2>1. ASSUME NEW k \in DOMAIN longer
        PROVE  longer[k] \in S
    BY <1>2, <1>3 DEF Range
  <2>2. ASSUME NEW k \in DOMAIN ops
        PROVE  ops[k] \in Range(longer)
    <3>1. k \in DOMAIN longer /\ longer[k] = ops[k]
      BY <1>2, <1>3
    <3> QED  BY <3>1 DEF Range
  <2>3. op \in Range(longer)
    BY <1>2, <1>3 DEF Range
  <2> QED  BY <2>1, <2>2, <2>3 DEF Range
<1>5. WrittenBy(longer) = WrittenBy(ops) \cup Range(op.outputs)
  <2>1. ASSUME NEW k \in DOMAIN longer
        PROVE  Range(longer[k].outputs) \subseteq WrittenBy(ops) \cup Range(op.outputs)
    <3>1. CASE k = Len(ops) + 1
      BY <1>2, <3>1
    <3>2. CASE k # Len(ops) + 1
      <4>1. k \in DOMAIN ops /\ longer[k] = ops[k]
        BY <1>2, <1>3, <3>2
      <4> QED  BY <4>1 DEF WrittenBy
    <3> QED  BY <3>1, <3>2
  <2>2. ASSUME NEW k \in DOMAIN ops
        PROVE  Range(ops[k].outputs) \subseteq WrittenBy(longer)
    <3>1. k \in DOMAIN longer /\ longer[k] = ops[k]
      BY <1>2, <1>3
    <3> QED  BY <3>1 DEF WrittenBy
  <2>3. Range(op.outputs) \subseteq WrittenBy(longer)
    <3>1. Len(ops) + 1 \in DOMAIN longer
      BY <1>3
    <3> QED  BY <1>2, <3>1 DEF WrittenBy
  <2> QED  BY <2>1, <2>2, <2>3 DEF WrittenBy
<1> QED  BY <1>2, <1>4, <1>5 DEF longer

\* The ops of the longer list, position by position.
LEMMA AppendedAt ==
    ASSUME NEW ops, ops \in Seq(Range(ops)), NEW op
    PROVE  /\ DOMAIN Append(ops, op) = 1..(Len(ops) + 1)
           /\ \A k \in 1..Len(ops) : Append(ops, op)[k] = ops[k]
           /\ Append(ops, op)[Len(ops) + 1] = op
<1> DEFINE S == Range(ops) \cup {op}
<1>1. Len(ops) \in Nat /\ DOMAIN ops = 1..Len(ops)
  BY PositionsOfList
<1>2. ops \in Seq(S) /\ op \in S
  <2>1. ops \in [1..Len(ops) -> S]
    BY <1>1, LenProperties
  <2> QED  BY <1>1, <2>1, SeqDef
<1> QED  BY <1>2, AppendProperties, LenProperties

\* Up to an op that was there before, the longer list is the shorter one.
LEMMA PrefixOfAppend ==
    ASSUME NEW ops, ops \in Seq(Range(ops)), NEW op, NEW k \in 1..(Len(ops) + 1)
    PROVE  /\ SubSeq(Append(ops, op), 1, k - 1) = SubSeq(ops, 1, k - 1)
           /\ k = Len(ops) + 1 => SubSeq(ops, 1, k - 1) = ops
<1> DEFINE S == Range(ops) \cup {op}
           longer == Append(ops, op)
           long == SubSeq(longer, 1, k - 1)
           short == SubSeq(ops, 1, k - 1)
<1>1. Len(ops) \in Nat /\ DOMAIN ops = 1..Len(ops)
  BY PositionsOfList
<1>2. ops \in Seq(S)
  <2>1. ops \in [1..Len(ops) -> S]
    BY <1>1, LenProperties
  <2> QED  BY <1>1, <2>1, SeqDef
<1>3. /\ longer \in Seq(S) /\ Len(longer) = Len(ops) + 1
      /\ \A m \in 1..Len(ops) : longer[m] = ops[m]
  BY <1>2, AppendProperties
<1> HIDE DEF longer
<1>4. /\ long \in Seq(S) /\ Len(long) = k - 1 /\ \A m \in 1..(k - 1) : long[m] = longer[m]
  <2>1. \A m \in 1..(k - 1) : longer[m] \in S
    BY <1>1, <1>2, <1>3, ElementOfSeq
  <2> QED  BY <1>1, <1>3, <2>1, SubSeqProperties
<1>5. /\ short \in Seq(S) /\ Len(short) = k - 1 /\ \A m \in 1..(k - 1) : short[m] = ops[m]
  <2>1. \A m \in 1..(k - 1) : ops[m] \in S
    BY <1>1, <1>2, ElementOfSeq
  <2> QED  BY <1>1, <1>2, <2>1, SubSeqProperties
<1> HIDE DEF S, long, short
<1>6. long = short
  <2>1. \A m \in 1..(k - 1) : long[m] = short[m]
    BY <1>1, <1>3, <1>4, <1>5
  <2> QED  BY <1>4, <1>5, <2>1, SeqEqual
<1>7. ASSUME k = Len(ops) + 1 PROVE short = ops
  BY <1>1, <1>2, <1>5, <1>7, SeqEqual
<1> QED  BY <1>6, <1>7 DEF longer, long, short
----------------------------------------------------------------------------
\* The ops from position i to the one before j, as a list of their own.
LEMMA WindowOps ==
    ASSUME NEW ops, ops \in Seq(Range(ops)),
           NEW i \in 1..(Len(ops) + 1), NEW j \in 1..(Len(ops) + 1), i <= j
    PROVE  LET window == SubSeq(ops, i, j - 1) IN
           /\ window \in Seq(Range(window)) /\ Len(window) = j - i /\ DOMAIN window = 1..(j - i)
           /\ \A m \in 1..(j - i) : i + m - 1 \in DOMAIN ops /\ window[m] = ops[i + m - 1]
<1> DEFINE window == SubSeq(ops, i, j - 1)
<1>1. Len(ops) \in Nat /\ DOMAIN ops = 1..Len(ops)
  BY PositionsOfList
<1>2. \A m \in i..(j - 1) : ops[m] \in Range(ops)
  BY <1>1 DEF Range
<1>3. i \in Int /\ j - 1 \in Int /\ (j - 1) - i + 1 = j - i
  BY <1>1
<1>4. /\ window \in Seq(Range(ops)) /\ Len(window) = j - i
      /\ \A m \in 1..(j - i) : window[m] = ops[i + m - 1]
  <2>1. Len(window) = IF i <= j - 1 THEN (j - 1) - i + 1 ELSE 0
    BY <1>2, <1>3, SubSeqProperties
  <2>2. Len(window) = j - i
    BY <1>1, <2>1
  <2> QED  BY <1>2, <1>3, <2>2, SubSeqProperties
<1> HIDE DEF window
<1>5. DOMAIN window = 1..(j - i) /\ Len(window) \in Nat
  BY <1>4, LenProperties
<1>6. window \in Seq(Range(window))
  <2>1. window \in [1..Len(window) -> Range(window)]
    BY <1>4, <1>5, LenProperties DEF Range
  <2> QED  BY <1>5, <2>1, SeqDef
<1>7. \A m \in 1..(j - i) : i + m - 1 \in DOMAIN ops
  BY <1>1
<1> QED  BY <1>4, <1>5, <1>6, <1>7 DEF window

\* A window writes what the ops at its positions write, and reads what they
\* read.
LEMMA WindowTensors ==
    ASSUME NEW ops, ops \in Seq(Range(ops)),
           NEW i \in 1..(Len(ops) + 1), NEW j \in 1..(Len(ops) + 1), i <= j, NEW t
    PROVE  /\ t \in WrittenBy(SubSeq(ops, i, j - 1))
                 <=> \E m \in DOMAIN ops : i <= m /\ m < j /\ t \in Range(ops[m].outputs)
           /\ t \in ReadBy(SubSeq(ops, i, j - 1))
                 <=> \E m \in DOMAIN ops : i <= m /\ m < j /\ t \in Range(ops[m].inputs)
<1> DEFINE window == SubSeq(ops, i, j - 1)
<1>1. Len(ops) \in Nat /\ DOMAIN ops = 1..Len(ops)
  BY PositionsOfList
<1>2. /\ DOMAIN window = 1..(j - i)
      /\ \A m \in 1..(j - i) : i + m - 1 \in DOMAIN ops /\ window[m] = ops[i + m - 1]
  BY WindowOps
<1> HIDE DEF window
<1>3. ASSUME NEW m \in DOMAIN ops, i <= m, m < j
      PROVE  m - i + 1 \in DOMAIN window /\ window[m - i + 1] = ops[m]
  <2>1. m - i + 1 \in 1..(j - i) /\ i + (m - i + 1) - 1 = m
    BY <1>1, <1>3
  <2> QED  BY <1>2, <2>1
<1>4. ASSUME NEW k \in DOMAIN window
      PROVE  \E m \in DOMAIN ops : i <= m /\ m < j /\ window[k] = ops[m]
  <2>1. i + k - 1 \in DOMAIN ops /\ window[k] = ops[i + k - 1]
    BY <1>2
  <2>2. i <= i + k - 1 /\ i + k - 1 < j
    BY <1>1, <1>2
  <2> QED  BY <2>1, <2>2
<1>5. t \in WrittenBy(window)
         <=> \E m \in DOMAIN ops : i <= m /\ m < j /\ t \in Range(ops[m].outputs)
  BY <1>3, <1>4 DEF WrittenBy
<1>6. t \in ReadBy(window)
         <=> \E m \in DOMAIN ops : i <= m /\ m < j /\ t \in Range(ops[m].inputs)
  BY <1>3, <1>4 DEF ReadBy
<1> QED  BY <1>5, <1>6 DEF window

\* What is written before position j is written before i or from i on.
LEMMA PrefixAndWindow ==
    ASSUME NEW ops, ops \in Seq(Range(ops)),
           NEW i \in 1..(Len(ops) + 1), NEW j \in 1..(Len(ops) + 1), i <= j
    PROVE  WrittenBy(SubSeq(ops, 1, j - 1))
               = WrittenBy(SubSeq(ops, 1, i - 1)) \cup WrittenBy(SubSeq(ops, i, j - 1))
<1>1. Len(ops) \in Nat /\ DOMAIN ops = 1..Len(ops)
  BY PositionsOfList
<1>2. ASSUME NEW t \in WrittenBy(SubSeq(ops, 1, j - 1))
      PROVE  t \in WrittenBy(SubSeq(ops, 1, i - 1)) \cup WrittenBy(SubSeq(ops, i, j - 1))
  <2>1. PICK m \in DOMAIN ops : m < j /\ t \in Range(ops[m].outputs)
    BY PrefixWriters
  <2>2. CASE m < i
    BY <2>1, <2>2, WrittenByPrefix
  <2>3. CASE i <= m
    BY <2>1, <2>3, WindowTensors
  <2> QED  BY <1>1, <2>2, <2>3
<1>3. ASSUME NEW t \in WrittenBy(SubSeq(ops, 1, i - 1))
      PROVE  t \in WrittenBy(SubSeq(ops, 1, j - 1))
  <2>1. PICK m \in DOMAIN ops : m < i /\ t \in Range(ops[m].outputs)
    BY PrefixWriters
  <2>2. m < j
    BY <1>1, <2>1
  <2> QED  BY <2>1, <2>2, WrittenByPrefix
<1>4. ASSUME NEW t \in WrittenBy(SubSeq(ops, i, j - 1))
      PROVE  t \in WrittenBy(SubSeq(ops, 1, j - 1))
  <2>1. PICK m \in DOMAIN ops : i <= m /\ m < j /\ t \in Range(ops[m].outputs)
    BY WindowTensors
  <2> QED  BY <2>1, WrittenByPrefix
<1> QED  BY <1>2, <1>3, <1>4

\* A window of an accepted graph writes only new tensors, and what it reads
\* without writing it was there before its first op.
LEMMA AcceptedWindow ==
    ASSUME NEW g, g.ops \in Seq(Range(g.ops)), Verified(g),
           NEW i \in 1..(Len(g.ops) + 1), NEW j \in 1..(Len(g.ops) + 1), i <= j
    PROVE  LET window == SubSeq(g.ops, i, j - 1) IN
           /\ WrittenBy(window) \cap WrittenBy(SubSeq(g.ops, 1, i - 1)) = {}
           /\ WrittenBy(window) \subseteq WrittenBy(g.ops)
           /\ ReadBy(window) \subseteq ReadBy(g.ops)
           /\ ReadBy(window) \ WrittenBy(window) \subseteq ProducedBefore(g, i)
<1> DEFINE ops == g.ops
           window == SubSeq(g.ops, i, j - 1)
<1>1. Len(ops) \in Nat /\ DOMAIN ops = 1..Len(ops) /\ MultiplyProduced(g) = {}
  BY PositionsOfList DEF Verified, CollectGraphErrors
<1>2. ASSUME NEW t \in WrittenBy(window)
      PROVE  t \in WrittenBy(ops) /\ t \notin WrittenBy(SubSeq(ops, 1, i - 1))
  <2>1. PICK m \in DOMAIN ops : i <= m /\ m < j /\ t \in Range(ops[m].outputs)
    BY WindowTensors
  <2>2. t \in WrittenBy(ops)
    BY <2>1 DEF WrittenBy
  <2>3. ASSUME t \in WrittenBy(SubSeq(ops, 1, i - 1)) PROVE FALSE
    <3>1. PICK l \in DOMAIN ops : l < i /\ t \in Range(ops[l].outputs)
      BY <2>3, PrefixWriters
    <3>2. l < m /\ m \in 1..(Len(ops) + 1)
      BY <1>1, <2>1, <3>1
    <3>3. t \in WrittenBy(SubSeq(ops, 1, m - 1))
      BY <3>1, <3>2, WrittenByPrefix
    <3> QED  BY <1>1, <2>1, <3>3, WrittenOnce
  <2> QED  BY <2>2, <2>3
<1>3. ReadBy(window) \subseteq ReadBy(ops)
  <2> SUFFICES ASSUME NEW t \in ReadBy(window) PROVE t \in ReadBy(ops)
    OBVIOUS
  <2>1. PICK m \in DOMAIN ops : i <= m /\ m < j /\ t \in Range(ops[m].inputs)
    BY WindowTensors
  <2> QED  BY <2>1 DEF ReadBy
<1>4. ASSUME NEW t \in ReadBy(window), t \notin WrittenBy(window)
      PROVE  t \in ProducedBefore(g, i)
  <2>1. PICK m \in DOMAIN ops : i <= m /\ m < j /\ t \in Range(ops[m].inputs)
    BY WindowTensors
  <2>2. t \in ProducedBefore(g, m)
    BY <2>1, VerifiedGives
  <2>3. CASE t \in WrittenBy(SubSeq(ops, 1, m - 1))
    <3>1. m \in 1..(Len(ops) + 1)
      BY <1>1
    <3>2. PICK l \in DOMAIN ops : l < m /\ t \in Range(ops[l].outputs)
      BY <2>3, <3>1, PrefixWriters
    <3>3. ~ (i <= l /\ l < j)
      BY <1>4, <3>2, WindowTensors
    <3>4. l < i
      BY <1>1, <2>1, <3>2, <3>3
    <3>5. t \in WrittenBy(SubSeq(ops, 1, i - 1))
      BY <3>2, <3>4, WrittenByPrefix
    <3> QED  BY <3>5 DEF ProducedBefore
  <2> QED  BY <2>2, <2>3 DEF ProducedBefore
<1> QED  BY <1>2, <1>3, <1>4
----------------------------------------------------------------------------
\* A strict order numbers a finite set: how many elements are below one tells
\* it from all others, grows with the order, and takes every value there is.
LEMMA RanksEnumerate ==
    ASSUME NEW P, IsFiniteSet(P), NEW below \in [P -> SUBSET P],
           \A p \in P : p \notin below[p],
           \A p, q \in P : p \in below[q] => below[p] \subseteq below[q],
           \A p, q \in P : p = q \/ p \in below[q] \/ q \in below[p]
    PROVE  /\ Cardinality(P) \in Nat
           /\ \A p \in P : Cardinality(below[p]) \in 0..(Cardinality(P) - 1)
           /\ \A p, q \in P : p \in below[q] => Cardinality(below[p]) < Cardinality(below[q])
           /\ \A p, q \in P : Cardinality(below[p]) = Cardinality(below[q]) => p = q
           /\ \A m \in 0..(Cardinality(P) - 1) : \E p \in P : Cardinality(below[p]) = m
<1> DEFINE n == Cardinality(P)
           rank == [p \in P |-> Cardinality(below[p])]
           T == 0..(n - 1)
<1>1. n \in Nat
  BY FS_CardinalityType
<1>2. ASSUME NEW p \in P
      PROVE  IsFiniteSet(below[p]) /\ rank[p] \in Nat /\ rank[p] < n
  <2>1. below[p] \in SUBSET P /\ below[p] # P
    OBVIOUS
  <2>2. /\ IsFiniteSet(below[p]) /\ Cardinality(below[p]) <= Cardinality(P)
        /\ Cardinality(below[p]) # Cardinality(P)
    BY <2>1, FS_Subset
  <2>3. Cardinality(below[p]) \in Nat
    BY <2>2, FS_CardinalityType
  <2> QED  BY <1>1, <2>2, <2>3
<1>3. ASSUME NEW p \in P, NEW q \in P, p \in below[q]
      PROVE  rank[p] < rank[q]
  <2>1. below[p] \in SUBSET below[q] /\ below[p] # below[q] /\ IsFiniteSet(below[q])
    BY <1>2, <1>3
  <2>2. /\ Cardinality(below[p]) <= Cardinality(below[q])
        /\ Cardinality(below[p]) # Cardinality(below[q])
    BY <2>1, FS_Subset
  <2>3. Cardinality(below[p]) \in Nat /\ Cardinality(below[q]) \in Nat
    BY <1>2
  <2> QED  BY <2>2, <2>3
<1>4. ASSUME NEW p \in P, NEW q \in P, rank[p] = rank[q]
      PROVE  p = q
  <2>1. rank[p] \in Int /\ rank[q] \in Int
    BY <1>2
  <2>2. ~ (rank[p] < rank[q]) /\ ~ (rank[q] < rank[p])
    BY <1>4, <2>1
  <2> QED  BY <1>3, <2>2
<1>5. ASSUME NEW p \in P
      PROVE  rank[p] \in T
  <2>1. rank[p] \in Nat /\ rank[p] < n
    BY <1>2
  <2> HIDE DEF rank, n
  <2> QED  BY <1>1, <2>1
<1>6. rank \in Injection(P, T)
  <2>1. rank \in [P -> T]
    BY <1>5
  <2> HIDE DEF T
  <2> QED  BY <1>4, <2>1 DEF Injection, IsInjective
<1>7. IsFiniteSet(T) /\ Cardinality(T) = n
  <2> HIDE DEF n
  <2>1. 0 \in Int /\ n - 1 \in Int
    BY <1>1
  <2>2. IsFiniteSet(0..(n - 1)) /\ Cardinality(0..(n - 1)) = IF 0 > n - 1 THEN 0 ELSE n - 1 - 0 + 1
    BY <2>1, FS_Interval
  <2> QED  BY <1>1, <2>2
<1>8. rank \in Surjection(P, T)
  BY <1>6, <1>7, FS_Injection
<1>9. \A m \in T : \E p \in P : rank[p] = m
  BY <1>8 DEF Surjection
<1> QED  BY <1>1, <1>3, <1>4, <1>5, <1>9
----------------------------------------------------------------------------
(***************************************************************************)
(* Sums over finite sets.                                                  *)
(***************************************************************************)

\* Among some subsets of a finite set one includes no other.  This is what
\* stands for induction below: the property proved is a set of subsets.
LEMMA LeastSet ==
    ASSUME NEW S, IsFiniteSet(S), NEW F \in SUBSET SUBSET S, F # {}
    PROVE  \E m \in F : \A k \in F : k \subseteq m => k = m
<1>1. IsWellFoundedOn(StrictSubsetOrdering(S), FiniteSubsetsOf(S))
  BY FS_StrictSubsetOrderingWellFounded
<1>2. F \subseteq FiniteSubsetsOf(S)
  BY FS_FiniteSubsetsOfFinite
<1>3. PICK m \in F : \A k \in F : ~ (<<k, m>> \in StrictSubsetOrdering(S))
  BY <1>1, <1>2, WFMin
<1>4. ASSUME NEW k \in F, k \subseteq m
      PROVE  k = m
  <2>1. k # m => <<k, m>> \in StrictSubsetOrdering(S)
    BY <1>4 DEF StrictSubsetOrdering
  <2> QED  BY <1>3, <2>1
<1> QED  BY <1>4

\* MapThenSumSet, unrolled: the tally of a set adds the value of an element
\* to the tally of the others.
One(s) == CHOOSE x \in s : TRUE

IsTally(iter, f, S) ==
    iter = [s \in SUBSET S |-> IF s = {} THEN 0 ELSE f[One(s)] + iter[s \ {One(s)}]]

Total(f, S) == MapThenSumSet(LAMBDA x : f[x], S)

\* What a tally says of each subset.
LEMMA TallyStep ==
    ASSUME NEW S, NEW f, NEW iter, IsTally(iter, f, S), NEW s \in SUBSET S
    PROVE  /\ s = {} => iter[s] = 0
           /\ s # {} => One(s) \in s /\ iter[s] = f[One(s)] + iter[s \ {One(s)}]
<1>1. s # {} => One(s) \in s
  BY DEF One
<1> QED  BY <1>1 DEF IsTally

\* Two tallies agree where they are both defined.
LEMMA TalliesAgree ==
    ASSUME NEW A, NEW B, IsFiniteSet(A), NEW f, NEW g, NEW h, IsTally(g, f, A), IsTally(h, f, B),
           NEW s \in SUBSET A, s \subseteq B
    PROVE  g[s] = h[s]
<1> DEFINE F == {k \in SUBSET A : k \subseteq B /\ g[k] # h[k]}
<1> SUFFICES ASSUME F # {} PROVE FALSE
  OBVIOUS
<1>1. PICK m \in F : \A k \in F : k \subseteq m => k = m
  <2>1. F \in SUBSET SUBSET A
    OBVIOUS
  <2> HIDE DEF F
  <2> QED  BY <2>1, LeastSet
<1>2. m \in SUBSET A /\ m \in SUBSET B /\ g[m] # h[m]
  OBVIOUS
<1>3. m # {}
  BY <1>2, TallyStep
<1>4. One(m) \in m /\ g[m] = f[One(m)] + g[m \ {One(m)}] /\ h[m] = f[One(m)] + h[m \ {One(m)}]
  BY <1>2, <1>3, TallyStep
<1>5. g[m \ {One(m)}] = h[m \ {One(m)}]
  BY <1>1, <1>4
<1> QED  BY <1>2, <1>4, <1>5

\* Every finite set has one.
LEMMA TallyExists ==
    ASSUME NEW S, IsFiniteSet(S), NEW f
    PROVE  \E iter : IsTally(iter, f, S)
<1> DEFINE F == {k \in SUBSET S : ~ \E iter : IsTally(iter, f, k)}
<1> SUFFICES ASSUME F # {} PROVE FALSE
  OBVIOUS
<1>1. PICK m \in F : \A k \in F : k \subseteq m => k = m
  <2>1. F \in SUBSET SUBSET S
    OBVIOUS
  <2> HIDE DEF F
  <2> QED  BY <2>1, LeastSet
<1>2. ASSUME NEW k \in SUBSET m, k # m
      PROVE  IsTally(CHOOSE iter : IsTally(iter, f, k), f, k)
  BY <1>1, <1>2
<1> DEFINE tally(k) == CHOOSE iter : IsTally(iter, f, k)
           whole == [k \in SUBSET m |->
                       IF k = m THEN IF m = {} THEN 0 ELSE f[One(m)] + tally(m \ {One(m)})[m \ {One(m)}]
                       ELSE tally(k)[k]]
<1>3. ASSUME NEW k \in SUBSET m
      PROVE  whole[k] = IF k = {} THEN 0 ELSE f[One(k)] + whole[k \ {One(k)}]
  <2>0. k # {} => One(k) \in k
    BY DEF One
  <2>1. CASE k = m
    <3>1. k # {} => k \ {One(k)} # m /\ k \ {One(k)} \in SUBSET m
      BY <2>0, <2>1
    <3> HIDE DEF tally
    <3> QED  BY <2>1, <3>1
  <2>2. CASE k # m
    <3>1. whole[k] = tally(k)[k]
      BY <2>2
    <3>2. IsTally(tally(k), f, k)
      BY <1>2, <2>2
    <3>3. CASE k = {}
      <4> HIDE DEF tally, whole
      <4> QED BY <3>1, <3>2, <3>3, TallyStep
    <3>4. CASE k # {}
      <4> DEFINE j == k \ {One(k)}
      <4>1. j \in SUBSET m /\ j # m /\ j \in SUBSET k
        BY <2>0, <2>2, <3>4
      <4>2. whole[j] = tally(j)[j]
        BY <4>1
      <4>3. IsTally(tally(j), f, j)
        BY <1>2, <4>1
      <4>4. IsFiniteSet(k)
        BY FS_Subset
      <4> HIDE DEF tally, whole
      <4>5. tally(k)[k] = f[One(k)] + tally(k)[j]
        <5>1. k \in SUBSET k
          OBVIOUS
        <5> QED  BY <3>2, <3>4, <5>1, TallyStep
      <4>6. tally(k)[j] = tally(j)[j]
        <5> HIDE DEF j
        <5>1. j \subseteq j
          OBVIOUS
        <5> QED  BY <3>2, <4>1, <4>3, <4>4, <5>1, TalliesAgree
      <4> QED  BY <3>1, <3>4, <4>2, <4>5, <4>6
    <3> QED  BY <3>3, <3>4
  <2> QED  BY <2>1, <2>2
<1>4. whole = [k \in SUBSET m |-> whole[k]]
  OBVIOUS
<1>5. IsTally(whole, f, m)
  <2> HIDE DEF whole
  <2> QED  BY <1>3, <1>4 DEF IsTally
<1> QED  BY <1>5

\* So the sum of the community modules is what its definition says.
LEMMA TotalByTally ==
    ASSUME NEW S, NEW f, IsFiniteSet(S)
    PROVE  \E iter : IsTally(iter, f, S) /\ Total(f, S) = iter[S]
<1> DEFINE iter == CHOOSE it : it = [s \in SUBSET S |-> IF s = {} THEN 0 ELSE f[One(s)] + it[s \ {One(s)}]]
<1>1. IsTally(iter, f, S)
  <2>1. PICK some : IsTally(some, f, S)
    BY TallyExists
  <2> QED  BY <2>1 DEF IsTally
<1>2. Total(f, S) = iter[S]
  BY DEF Total, MapThenSumSet, MapThenFoldSet, One
<1> QED  BY <1>1, <1>2

LEMMA TallyTotals ==
    ASSUME NEW S, NEW f, IsFiniteSet(S), NEW iter, IsTally(iter, f, S)
    PROVE  Total(f, S) = iter[S]
<1>1. PICK g : IsTally(g, f, S) /\ Total(f, S) = g[S]
  BY TotalByTally
<1>2. S \in SUBSET S /\ S \subseteq S
  OBVIOUS
<1> QED  BY <1>1, <1>2, TalliesAgree

\* Induction on finite sets.
LEMMA FiniteInduction ==
    ASSUME NEW S, IsFiniteSet(S), NEW P \in SUBSET SUBSET S, {} \in P,
           \A k \in P : \A x \in S \ k : k \cup {x} \in P
    PROVE  S \in P
<1> DEFINE F == (SUBSET S) \ P
<1> SUFFICES ASSUME F # {} PROVE FALSE
  OBVIOUS
<1>1. PICK m \in F : \A k \in F : k \subseteq m => k = m
  <2>1. F \in SUBSET SUBSET S
    OBVIOUS
  <2> HIDE DEF F
  <2> QED  BY <2>1, LeastSet
<1>2. m \in SUBSET S /\ m \notin P /\ m # {}
  <2>1. m \in SUBSET S /\ m \notin P
    BY <1>1
  <2> QED  BY <2>1
<1>3. \A k \in SUBSET S : k \subseteq m /\ k # m => k \in P
  BY <1>1
<1> HIDE DEF F
<1>4. PICK x : x \in m
  BY <1>2
<1>5. m \ {x} \in SUBSET S /\ m \ {x} \subseteq m /\ m \ {x} # m
  BY <1>2, <1>4
<1>6. m \ {x} \in P /\ x \in S \ (m \ {x})
  BY <1>2, <1>3, <1>4, <1>5
<1>7. (m \ {x}) \cup {x} = m
  BY <1>4
<1> QED  BY <1>2, <1>6, <1>7

\* The total adds the value of one element to the total of the others.
LEMMA TotalPick ==
    ASSUME NEW S, NEW f, IsFiniteSet(S)
    PROVE  /\ S = {} => Total(f, S) = 0
           /\ S # {} => One(S) \in S /\ Total(f, S) = f[One(S)] + Total(f, S \ {One(S)})
<1>1. PICK g : IsTally(g, f, S) /\ Total(f, S) = g[S]
  BY TotalByTally
<1>2. S \in SUBSET S
  OBVIOUS
<1>3. CASE S = {}
  BY <1>1, <1>2, <1>3, TallyStep
<1>4. CASE S # {}
  <2>1. One(S) \in S /\ g[S] = f[One(S)] + g[S \ {One(S)}]
    BY <1>1, <1>2, <1>4, TallyStep
  <2> DEFINE T == S \ {One(S)}
  <2>2. IsFiniteSet(T) /\ T \subseteq S
    BY FS_Subset
  <2> HIDE DEF T
  <2>3. PICK h : IsTally(h, f, T) /\ Total(f, T) = h[T]
    BY <2>2, TotalByTally
  <2>4. T \in SUBSET S /\ T \subseteq T
    BY <2>2
  <2>5. g[T] = h[T]
    BY <1>1, <2>3, <2>4, TalliesAgree
  <2> QED  BY <1>1, <1>4, <2>1, <2>3, <2>5 DEF T
<1> QED  BY <1>3, <1>4

\* The total of integers is an integer, and any element can be counted last.
LEMMA TotalSplit ==
    ASSUME NEW S, IsFiniteSet(S), NEW f, \A x \in S : f[x] \in Int
    PROVE  /\ Total(f, S) \in Int
           /\ \A y \in S : Total(f, S) = f[y] + Total(f, S \ {y})
<1> DEFINE Good(k) == Total(f, k) \in Int /\ \A y \in k : Total(f, k) = f[y] + Total(f, k \ {y})
           F == {k \in SUBSET S : ~ Good(k)}
<1> SUFFICES ASSUME F # {} PROVE FALSE
  OBVIOUS
<1>1. PICK m \in F : \A k \in F : k \subseteq m => k = m
  <2>1. F \in SUBSET SUBSET S
    OBVIOUS
  <2> HIDE DEF F
  <2> QED  BY <2>1, LeastSet
<1>2. m \in SUBSET S /\ ~ Good(m) /\ IsFiniteSet(m)
  BY FS_Subset
<1>3. ASSUME NEW k \in SUBSET m, k # m PROVE Good(k)
  BY <1>1, <1>3
<1> HIDE DEF F
<1>4. m # {}
  BY <1>2, TotalPick
<1> DEFINE x == One(m)
<1>5. x \in m /\ Total(f, m) = f[x] + Total(f, m \ {x})
  BY <1>2, <1>4, TotalPick
<1> HIDE DEF x
<1>6. Total(f, m \ {x}) \in Int
  BY <1>3, <1>5
<1>7. Total(f, m) \in Int
  BY <1>2, <1>5, <1>6
<1>8. ASSUME NEW y \in m, y # x PROVE Total(f, m) = f[y] + Total(f, m \ {y})
  <2> DEFINE rest == (m \ {x}) \ {y}
  <2>1. y \in m \ {x} /\ x \in m \ {y} /\ rest = (m \ {y}) \ {x} /\ rest \in SUBSET m /\ rest # m
    BY <1>5, <1>8
  <2>2. Total(f, m \ {x}) = f[y] + Total(f, rest)
    BY <1>3, <1>5, <2>1
  <2>3. Total(f, m \ {y}) = f[x] + Total(f, rest)
    BY <1>3, <1>8, <2>1
  <2>4. Total(f, rest) \in Int /\ f[x] \in Int /\ f[y] \in Int
    BY <1>2, <1>3, <1>5, <2>1
  <2> HIDE DEF rest
  <2> QED  BY <1>5, <2>2, <2>3, <2>4
<1>9. Good(m)
  BY <1>5, <1>7, <1>8
<1> QED  BY <1>2, <1>9

\* Nothing totals nothing.
LEMMA TotalEmpty == ASSUME NEW f PROVE Total(f, {}) = 0
BY TotalPick, FS_EmptySet

\* One more element adds its value.
LEMMA TotalAdd ==
    ASSUME NEW S, IsFiniteSet(S), NEW f, \A x \in S : f[x] \in Int, NEW y, y \notin S, f[y] \in Int
    PROVE  Total(f, S \cup {y}) = f[y] + Total(f, S)
<1>1. IsFiniteSet(S \cup {y})
  BY FS_AddElement
<1>2. (S \cup {y}) \ {y} = S /\ y \in S \cup {y}
  OBVIOUS
<1> QED  BY <1>1, <1>2, TotalSplit

\* Parts that share nothing add up.
LEMMA TotalUnion ==
    ASSUME NEW A, NEW B, IsFiniteSet(A), IsFiniteSet(B), A \cap B = {}, NEW f,
           \A x \in A \cup B : f[x] \in Int
    PROVE  Total(f, A \cup B) = Total(f, A) + Total(f, B)
<1> DEFINE P == {k \in SUBSET A : Total(f, k \cup B) = Total(f, k) + Total(f, B)}
<1>1. Total(f, B) \in Int
  BY TotalSplit
<1>2. {} \in P
  <2>1. {} \cup B = B
    OBVIOUS
  <2> QED  BY <1>1, <2>1, TotalEmpty
<1>3. ASSUME NEW k \in P, NEW x \in A \ k PROVE k \cup {x} \in P
  <2>1. IsFiniteSet(k) /\ IsFiniteSet(k \cup B)
    BY FS_Subset, FS_Union
  <2>2. Total(f, k \cup {x}) = f[x] + Total(f, k)
    BY <2>1, TotalAdd
  <2>3. Total(f, (k \cup B) \cup {x}) = f[x] + Total(f, k \cup B)
    BY <2>1, TotalAdd
  <2>4. (k \cup B) \cup {x} = (k \cup {x}) \cup B
    OBVIOUS
  <2>5. Total(f, k) \in Int /\ f[x] \in Int
    BY <2>1, TotalSplit
  <2>6. Total(f, k \cup B) = Total(f, k) + Total(f, B)
    OBVIOUS
  <2>7. Total(f, (k \cup {x}) \cup B) = Total(f, k \cup {x}) + Total(f, B)
    <3>1. Total(f, (k \cup {x}) \cup B) = f[x] + Total(f, k \cup B)
      BY <2>3, <2>4
    <3> HIDE DEF P
    <3> QED  BY <1>1, <2>2, <2>5, <2>6, <3>1
  <2>8. k \cup {x} \in SUBSET A
    OBVIOUS
  <2> QED  BY <2>7, <2>8
<1>4. P \in SUBSET SUBSET A
  OBVIOUS
<1>5. A \in P
  <2> HIDE DEF P
  <2> QED  BY <1>2, <1>3, <1>4, FiniteInduction
<1> QED  BY <1>5

\* What is no larger anywhere is no larger in total.
LEMMA TotalCompare ==
    ASSUME NEW S, IsFiniteSet(S), NEW f, NEW g,
           \A x \in S : f[x] \in Int /\ g[x] \in Int /\ f[x] <= g[x]
    PROVE  Total(f, S) <= Total(g, S)
<1> DEFINE P == {k \in SUBSET S : Total(f, k) <= Total(g, k)}
<1>1. {} \in P
  BY TotalEmpty
<1>2. ASSUME NEW k \in P, NEW x \in S \ k PROVE k \cup {x} \in P
  <2>1. IsFiniteSet(k)
    BY FS_Subset
  <2>2. Total(f, k \cup {x}) = f[x] + Total(f, k)
    BY <2>1, TotalAdd
  <2>3. Total(g, k \cup {x}) = g[x] + Total(g, k)
    BY <2>1, TotalAdd
  <2>4. Total(f, k) \in Int /\ Total(g, k) \in Int
    BY <2>1, TotalSplit
  <2>5. Total(f, k) <= Total(g, k) /\ f[x] <= g[x] /\ f[x] \in Int /\ g[x] \in Int
    OBVIOUS
  <2>6. Total(f, k \cup {x}) <= Total(g, k \cup {x})
    BY <2>2, <2>3, <2>4, <2>5
  <2> QED  BY <2>6
<1>3. P \in SUBSET SUBSET S
  OBVIOUS
<1>4. S \in P
  <2> HIDE DEF P
  <2> QED  BY <1>1, <1>2, <1>3, FiniteInduction
<1> QED  BY <1>4

\* The total is decided by the values at the elements.
LEMMA TotalSame ==
    ASSUME NEW S, IsFiniteSet(S), NEW f, NEW g, \A x \in S : f[x] = g[x]
    PROVE  Total(f, S) = Total(g, S)
<1>1. PICK d : IsTally(d, f, S) /\ Total(f, S) = d[S]
  BY TotalByTally
<1>2. PICK h : IsTally(h, g, S) /\ Total(g, S) = h[S]
  BY TotalByTally
<1>3. IsTally(d, g, S)
  <2>1. \A s \in SUBSET S : s # {} => f[One(s)] = g[One(s)]
    BY DEF One
  <2>2. d = [s \in SUBSET S |-> d[s]]
    BY <1>1 DEF IsTally
  <2>3. \A s \in SUBSET S : d[s] = IF s = {} THEN 0 ELSE g[One(s)] + d[s \ {One(s)}]
    BY <1>1, <2>1, TallyStep
  <2> QED  BY <2>2, <2>3 DEF IsTally
<1>4. d[S] = h[S]
  <2>1. S \in SUBSET S /\ S \subseteq S
    OBVIOUS
  <2> QED  BY <1>2, <1>3, <2>1, TalliesAgree
<1> QED  BY <1>1, <1>2, <1>4

\* The total of natural numbers is one.
LEMMA TotalIsNat ==
    ASSUME NEW S, IsFiniteSet(S), NEW f, \A x \in S : f[x] \in Nat
    PROVE  Total(f, S) \in Nat
<1> DEFINE zero == [x \in S |-> 0]
           P == {k \in SUBSET S : Total(f, k) \in Nat}
<1>1. {} \in P
  BY TotalEmpty
<1>2. ASSUME NEW k \in P, NEW x \in S \ k PROVE k \cup {x} \in P
  <2>1. IsFiniteSet(k)
    BY FS_Subset
  <2>2. Total(f, k \cup {x}) = f[x] + Total(f, k)
    BY <2>1, TotalAdd
  <2> QED  BY <2>2
<1>3. P \in SUBSET SUBSET S
  OBVIOUS
<1>4. S \in P
  <2> HIDE DEF P
  <2> QED  BY <1>1, <1>2, <1>3, FiniteInduction
<1> QED  BY <1>4

\* Elements worth nothing may be left out.
LEMMA TotalOfPart ==
    ASSUME NEW S, IsFiniteSet(S), NEW f, NEW T \in SUBSET S,
           \A x \in T : f[x] \in Int, \A x \in S \ T : f[x] = 0
    PROVE  Total(f, S) = Total(f, T)
<1> DEFINE R == S \ T
           P == {k \in SUBSET R : Total(f, k) = 0}
<1>0. IsFiniteSet(T) /\ IsFiniteSet(R) /\ T \cup R = S /\ T \cap R = {}
  BY FS_Subset
<1>1. {} \in P
  BY TotalEmpty
<1>2. ASSUME NEW k \in P, NEW x \in R \ k PROVE k \cup {x} \in P
  <2>1. IsFiniteSet(k) /\ f[x] = 0 /\ \A y \in k : f[y] = 0
    BY <1>0, FS_Subset
  <2>2. Total(f, k \cup {x}) = f[x] + Total(f, k)
    BY <2>1, TotalAdd
  <2> QED  BY <2>1, <2>2
<1>3. P \in SUBSET SUBSET R
  OBVIOUS
<1>4. R \in P
  <2> HIDE DEF P, R
  <2> QED  BY <1>0, <1>1, <1>2, <1>3, FiniteInduction
<1>5. Total(f, R) = 0
  BY <1>4
<1>6. Total(f, T) \in Int
  BY <1>0, TotalSplit
<1>7. \A x \in T \cup R : f[x] \in Int
  OBVIOUS
<1>8. Total(f, T \cup R) = Total(f, T) + Total(f, R)
  <2> HIDE DEF R
  <2> QED  BY <1>0, <1>7, TotalUnion
<1> HIDE DEF R
<1>9. Total(f, S) = Total(f, T) + 0
  BY <1>0, <1>5, <1>8
<1> QED  BY <1>6, <1>9

\* Renaming the elements one to one changes no total.
LEMMA TotalRenamed ==
    ASSUME NEW S, IsFiniteSet(S), NEW f, NEW g, NEW h,
           \A x \in S : f[x] \in Int /\ f[x] = g[h[x]],
           \A x, y \in S : h[x] = h[y] => x = y
    PROVE  Total(g, {h[x] : x \in S}) = Total(f, S)
<1> DEFINE P == {k \in SUBSET S : IsFiniteSet({h[x] : x \in k}) /\ Total(g, {h[x] : x \in k}) = Total(f, k)}
<1>1. {} \in P
  <2>1. {h[x] : x \in {}} = {}
    OBVIOUS
  <2> QED  BY <2>1, TotalEmpty, FS_EmptySet
<1>2. ASSUME NEW k \in P, NEW x \in S \ k PROVE k \cup {x} \in P
  <2> DEFINE image == {h[y] : y \in k}
  <2>1. IsFiniteSet(k) /\ IsFiniteSet(image) /\ Total(g, image) = Total(f, k)
    BY FS_Subset
  <2>2. Total(f, k \cup {x}) = f[x] + Total(f, k)
    BY <2>1, TotalAdd
  <2>3. h[x] \notin image /\ g[h[x]] \in Int /\ \A t \in image : g[t] \in Int
    OBVIOUS
  <2>4. {h[y] : y \in k \cup {x}} = image \cup {h[x]}
    OBVIOUS
  <2> HIDE DEF image
  <2>5. Total(g, image \cup {h[x]}) = g[h[x]] + Total(g, image)
    BY <2>1, <2>3, TotalAdd
  <2>6. IsFiniteSet(image \cup {h[x]})
    BY <2>1, FS_AddElement
  <2>7. f[x] = g[h[x]]
    OBVIOUS
  <2> QED  BY <2>1, <2>2, <2>4, <2>5, <2>6, <2>7
<1>3. P \in SUBSET SUBSET S
  OBVIOUS
<1>4. S \in P
  <2> HIDE DEF P
  <2> QED  BY <1>1, <1>2, <1>3, FiniteInduction
<1> QED  BY <1>4
----------------------------------------------------------------------------
\* A set of natural numbers has a least element.
LEMMA LeastNat ==
    ASSUME NEW T \in SUBSET Nat, T # {}
    PROVE  \E m \in T : \A k \in T : m <= k
<1> DEFINE R == OpToRel(<, Nat)
<1>1. IsWellFoundedOn(R, Nat)
  BY NatLessThanWellFounded
<1>2. \A x, y \in Nat : x < y => <<x, y>> \in R
  BY DEF OpToRel
<1> HIDE DEF R
<1>3. PICK m \in T : \A k \in T : ~ (<<k, m>> \in R)
  BY <1>1, WFMin
<1>4. ASSUME NEW k \in T PROVE m <= k
  <2>1. k \in Nat /\ m \in Nat
    OBVIOUS
  <2>2. ~ (k < m)
    BY <1>2, <1>3, <2>1
  <2> QED  BY <2>1, <2>2
<1> QED  BY <1>4

\* Finite sets of positions, each with a last one.
FinitePositions == {S \in SUBSET Int : IsFiniteSet(S)}

\* A part of one is one.
LEMMA PartOfPositions ==
    ASSUME NEW S \in FinitePositions
    PROVE  IsFiniteSet(S) /\ \A s \in SUBSET S : s \in FinitePositions
BY FS_Subset DEF FinitePositions

\* The greatest element the community modules choose exists in such a set.
LEMMA LastPosition ==
    ASSUME NEW S \in FinitePositions, S # {}
    PROVE  Max(S) \in S /\ \A x \in S : x <= Max(S)
<1>0. IsFiniteSet(S) /\ S \subseteq Int
  BY DEF FinitePositions
<1> DEFINE P == {k \in SUBSET S : k = {} \/ \E x \in k : \A y \in k : y <= x}
<1>1. {} \in P
  OBVIOUS
<1>2. ASSUME NEW k \in P, NEW x \in S \ k PROVE k \cup {x} \in P
  <2>0. x \in Int /\ k \subseteq Int
    BY <1>0
  <2>1. CASE k = {}
    BY <2>0, <2>1
  <2>2. CASE k # {}
    <3>1. PICK z \in k : \A y \in k : y <= z
      BY <2>2
    <3>2. CASE x <= z
      BY <2>0, <3>1, <3>2
    <3>3. CASE ~ (x <= z)
      <4>1. \A y \in k : y <= x
        BY <2>0, <3>1, <3>3
      <4> QED  BY <2>0, <4>1
    <3> QED  BY <3>2, <3>3
  <2> QED  BY <2>1, <2>2
<1>3. P \in SUBSET SUBSET S
  OBVIOUS
<1>4. S \in P
  <2> HIDE DEF P
  <2> QED  BY <1>0, <1>1, <1>2, <1>3, FiniteInduction
<1>5. \E x \in S : \A y \in S : x >= y
  BY <1>0, <1>4
<1>6. Max(S) \in S /\ \A y \in S : Max(S) >= y
  BY <1>5 DEF Max
<1> QED  BY <1>0, <1>6
=============================================================================

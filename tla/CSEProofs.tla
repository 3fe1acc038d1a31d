----------------------------- MODULE CSEProofs -----------------------------
(***************************************************************************)
(* What common-subexpression elimination guarantees for every graph the    *)
(* verifier accepts.                                                       *)
(***************************************************************************)
EXTENDS CSE, GraphLemmas

-----------------------------------------------------------------------------
(***************************************************************************)
(* The inductive invariant.  RemapIsCanonical alone says too little: that  *)
(* a dropped tensor is not written again needs the order of the scan, and  *)
(* that its replacement exists needs canonical ops with enough outputs.    *)
(***************************************************************************)
ListsAreLists == new_ops \in Seq(Range(new_ops)) /\ removed \in Seq(Range(removed))

KeptWerePassed == WrittenBy(new_ops) \subseteq WrittenBy(SubSeq(graph.ops, 1, i - 1))

SeenHaveArity ==
    \A key \in DOMAIN seen :
        /\ seen[key].outputs \in Seq(Range(seen[key].outputs))
        /\ Len(seen[key].outputs) = key[4]

OutputsStay == DOMAIN remap \cap Range(graph.graph_outputs) = {}

IInv ==
    /\ IsGraph(graph)
    /\ TypeOK
    /\ ListsAreLists
    /\ KeptWerePassed
    /\ SeenHaveArity
    /\ RemapIsCanonical
    /\ OutputsStay

LEMMA InvInitially ==
    ASSUME IsGraph(graph), Verified(graph), Starts
    PROVE  IInv
<1>1. Len(graph.ops) \in Nat
  BY PositionsOfList DEF IsGraph
<1>2. i = 1 /\ remap = <<>> /\ seen = <<>> /\ new_ops = <<>> /\ removed = <<>>
  BY DEF Starts
<1>3. DOMAIN <<>> = {} /\ Len(<<>>) = 0
  BY EmptySeq
<1>4. /\ Range(new_ops) = {} /\ Range(removed) = {} /\ Range(seen) = {} /\ WrittenBy(new_ops) = {}
  BY <1>2, <1>3 DEF Range, WrittenBy
<1>5. TypeOK
  BY <1>1, <1>2, <1>3, <1>4 DEF TypeOK
<1>6. ListsAreLists
  BY <1>2, EmptySeq DEF ListsAreLists
<1> QED
  BY <1>1, <1>2, <1>3, <1>4, <1>5, <1>6
     DEF IInv, KeptWerePassed, SeenHaveArity, RemapIsCanonical, OutputsStay

\* What a scanning state tells about the op it has reached.
LEMMA ScanProperties ==
    ASSUME IInv, Scanning
    PROVE  LET op == graph.ops[i]
               before == WrittenBy(SubSeq(graph.ops, 1, i - 1))
           IN /\ i \in DOMAIN graph.ops
              /\ i \in Nat /\ i + 1 \in 1..(Len(graph.ops) + 1)
              /\ IsOp(op)
              /\ Range(op.outputs) \cap before = {}
              /\ WrittenBy(SubSeq(graph.ops, 1, i)) = before \cup Range(op.outputs)
<1> DEFINE ops == graph.ops
<1>1. ops \in Seq(Range(ops)) /\ MultiplyProduced(graph) = {} /\ i \in 1..(Len(ops) + 1)
  BY DEF IInv, TypeOK, IsGraph, Verified, CollectGraphErrors
<1>2. Len(ops) \in Nat /\ DOMAIN ops = 1..Len(ops)
  BY <1>1, PositionsOfList
<1>3. /\ i \in DOMAIN ops /\ i \in Nat
      /\ i + 1 \in 1..(Len(ops) + 1) /\ i < i + 1 /\ (i + 1) - 1 = i
  BY <1>1, <1>2 DEF Scanning
<1>4. IsOp(ops[i])
  BY <1>3 DEF IInv, IsGraph
<1>5. Range(ops[i].outputs) \cap WrittenBy(SubSeq(ops, 1, i - 1)) = {}
  BY <1>1, <1>3, WrittenOnce
<1>6. WrittenBy(SubSeq(ops, 1, i)) = WrittenBy(SubSeq(ops, 1, i - 1)) \cup Range(ops[i].outputs)
  BY <1>1, <1>3, NextPrefix
<1> QED  BY <1>3, <1>4, <1>5, <1>6

\* A dropped op leaves its outputs to those of its canonical op.
LEMMA DropKeepsInv ==
    ASSUME IInv, DropDuplicate
    PROVE  IInv'
<1> DEFINE op == graph.ops[i]
           canonical == seen[Key(op)]
           before == WrittenBy(SubSeq(graph.ops, 1, i - 1))
           At(t) == CHOOSE k \in DOMAIN op.outputs : op.outputs[k] = t
<1>1. /\ Scanning /\ IsRedundant(op)
      /\ remap' = [t \in DOMAIN remap \cup Range(op.outputs) |->
                      IF t \in Range(op.outputs) THEN canonical.outputs[At(t)] ELSE remap[t]]
      /\ seen' = [seen EXCEPT ![Key(op)] = canonical]
      /\ removed' = Append(removed, op.name)
      /\ i' = i + 1 /\ graph' = graph /\ new_ops' = new_ops
  BY SMTT(30) DEF DropDuplicate, DropFor
<1>2. /\ i \in Nat /\ i + 1 \in 1..(Len(graph.ops) + 1) /\ IsOp(op)
      /\ Range(op.outputs) \cap before = {}
      /\ WrittenBy(SubSeq(graph.ops, 1, i)) = before \cup Range(op.outputs)
  BY <1>1, ScanProperties
<1>3. SubSeq(graph'.ops, 1, i' - 1) = SubSeq(graph.ops, 1, i)
  <2>1. i' - 1 = i
    BY <1>1, <1>2
  <2> QED  BY <1>1, <2>1
<1>4. DOMAIN seen' = DOMAIN seen /\ \A key \in DOMAIN seen : seen'[key] = seen[key]
  BY <1>1
<1>5. canonical \in Range(new_ops) /\ Len(canonical.outputs) = Len(op.outputs)
      /\ canonical.outputs \in Seq(Range(canonical.outputs))
  <2>1. Key(op) \in DOMAIN seen
    BY <1>1 DEF IsRedundant
  <2>2. Key(op)[4] = Len(op.outputs)
    BY DEF Key
  <2>3. canonical \in Range(seen)
    BY <2>1 DEF Range
  <2> QED  BY <2>1, <2>2, <2>3 DEF IInv, TypeOK, SeenHaveArity
<1>6. ASSUME NEW t \in Range(op.outputs)
      PROVE  canonical.outputs[At(t)] \in WrittenBy(new_ops)
  <2>1. At(t) \in DOMAIN op.outputs
    BY DEF Range
  <2>2. DOMAIN op.outputs = DOMAIN canonical.outputs
    BY <1>2, <1>5, LenProperties, SMTT(30) DEF IsOp
  <2> HIDE DEF At, canonical
  <2>3. canonical.outputs[At(t)] \in Range(canonical.outputs)
    BY <2>1, <2>2 DEF Range
  <2> QED  BY <1>5, <2>3 DEF WrittenBy, Range
<1> HIDE DEF At
<1>7. /\ DOMAIN remap' = DOMAIN remap \cup Range(op.outputs)
      /\ \A t \in DOMAIN remap' :
            t \notin WrittenBy(new_ops) /\ remap'[t] \in WrittenBy(new_ops)
  <2>1. ASSUME NEW t \in Range(op.outputs)
        PROVE  t \notin WrittenBy(new_ops)
    BY <1>2 DEF IInv, KeptWerePassed
  <2> HIDE DEF canonical, op
  <2> QED  BY <1>1, <1>6, <2>1 DEF IInv, RemapIsCanonical
<1>8. RemapIsCanonical'
  BY <1>1, <1>7 DEF RemapIsCanonical
<1>9. TypeOK'
  <2>1. removed \in Seq(Range(removed))
    BY DEF IInv, ListsAreLists
  <2>2. /\ Len(removed') = Len(removed) + 1 /\ Len(removed) \in Nat /\ Len(new_ops) \in Nat
    BY <1>1, <2>1, AppendProperties, PositionsOfList DEF IInv, ListsAreLists
  <2>3. Len(new_ops') + Len(removed') = i' - 1
    <3>1. Len(new_ops) + Len(removed) = i - 1
      BY DEF IInv, TypeOK
    <3>2. new_ops' = new_ops /\ i' = i + 1 /\ i \in Nat
      BY <1>1, <1>2
    <3>3. Len(new_ops') + Len(removed') = Len(new_ops) + (Len(removed) + 1)
      BY <2>2, <3>2
    <3> QED  BY <2>2, <3>1, <3>2, <3>3
  <2>4. Range(seen') \subseteq Range(new_ops')
    <3>1. ASSUME NEW key \in DOMAIN seen'
          PROVE  seen'[key] \in Range(new_ops')
      <4>1. key \in DOMAIN seen /\ seen'[key] = seen[key] /\ new_ops' = new_ops
        BY <1>1, <1>4
      <4>2. seen[key] \in Range(seen)
        BY <4>1 DEF Range
      <4> QED  BY <4>1, <4>2 DEF IInv, TypeOK
    <3> QED  BY <3>1 DEF Range
  <2>5. DOMAIN remap' \subseteq WrittenBy(SubSeq(graph.ops, 1, i))
    BY <1>2, <1>7 DEF IInv, TypeOK
  <2> QED  BY <1>1, <1>2, <1>3, <2>3, <2>4, <2>5 DEF IInv, TypeOK
<1>10. ListsAreLists'
  <2>1. removed' \in Seq(Range(removed'))
    <3>1. removed \in Seq(Range(removed))
      BY DEF IInv, ListsAreLists
    <3> QED  BY <1>1, <3>1, WrittenByAppend
  <2> QED  BY <1>1, <2>1 DEF IInv, ListsAreLists
<1>11. KeptWerePassed' /\ SeenHaveArity'
  BY <1>1, <1>2, <1>3, <1>4 DEF IInv, KeptWerePassed, SeenHaveArity
<1>12. OutputsStay'
  BY <1>1, <1>7 DEF IInv, OutputsStay, IsRedundant, ProducesGraphOutput
<1> QED  BY <1>1, <1>8, <1>9, <1>10, <1>11, <1>12 DEF IInv

\* A kept op's outputs are new, and it may become the canonical op of its key.
LEMMA KeepKeepsInv ==
    ASSUME IInv, KeepCanonical
    PROVE  IInv'
<1> DEFINE op == graph.ops[i]
           kept == Rewired(op)
           before == WrittenBy(SubSeq(graph.ops, 1, i - 1))
<1>1. /\ Scanning /\ graph' = graph /\ i' = i + 1 /\ remap' = remap /\ removed' = removed
      /\ new_ops' = Append(new_ops, kept)
      /\ seen' = [key \in DOMAIN seen \cup {Key(op)} |->
                     IF key \in DOMAIN seen THEN seen[key] ELSE kept]
  BY DEF KeepCanonical, KeepAs
<1>2. /\ i \in Nat /\ i + 1 \in 1..(Len(graph.ops) + 1) /\ IsOp(op)
      /\ Range(op.outputs) \cap before = {}
      /\ WrittenBy(SubSeq(graph.ops, 1, i)) = before \cup Range(op.outputs)
  BY <1>1, ScanProperties
<1>3. SubSeq(graph'.ops, 1, i' - 1) = SubSeq(graph.ops, 1, i)
  <2>1. i' - 1 = i
    BY <1>1, <1>2
  <2> QED  BY <1>1, <2>1
<1>4. kept.outputs = op.outputs
  BY <1>2 DEF Rewired, IsOp, MkOp
<1>5. kept.outputs \in Seq(Range(kept.outputs)) /\ Len(kept.outputs) = Key(op)[4]
  BY <1>2, <1>4 DEF IsOp, Key
<1> HIDE DEF kept
<1>6. /\ new_ops' \in Seq(Range(new_ops')) /\ Len(new_ops') = Len(new_ops) + 1
      /\ Range(new_ops') = Range(new_ops) \cup {kept}
      /\ WrittenBy(new_ops') = WrittenBy(new_ops) \cup Range(op.outputs)
  BY <1>1, <1>4, WrittenByAppend DEF IInv, ListsAreLists
<1> HIDE DEF op
<1>7. RemapIsCanonical'
  <2> SUFFICES ASSUME NEW t \in DOMAIN remap
               PROVE  /\ t \notin WrittenBy(new_ops')
                      /\ remap[t] \notin DOMAIN remap
                      /\ remap[t] \in WrittenBy(new_ops')
    BY <1>1 DEF RemapIsCanonical
  <2>1. t \notin Range(op.outputs)
    BY <1>2 DEF IInv, TypeOK
  <2> QED  BY <1>6, <2>1 DEF IInv, RemapIsCanonical
<1>8. TypeOK'
  <2>1. Len(new_ops') + Len(removed') = i' - 1
    <3>1. Len(new_ops) + Len(removed) = i - 1
      BY DEF IInv, TypeOK
    <3>2. Len(new_ops) \in Nat /\ Len(removed) \in Nat
      BY PositionsOfList DEF IInv, ListsAreLists
    <3>3. Len(new_ops') + Len(removed') = (Len(new_ops) + 1) + Len(removed)
      BY <1>1, <1>6
    <3> QED  BY <1>1, <1>2, <3>1, <3>2, <3>3
  <2>2. Range(seen') \subseteq Range(new_ops')
    <3>1. ASSUME NEW key \in DOMAIN seen'
          PROVE  seen'[key] \in Range(new_ops')
      BY <1>1, <1>6 DEF IInv, TypeOK, Range
    <3> QED  BY <3>1 DEF Range
  <2>3. DOMAIN remap' \subseteq WrittenBy(SubSeq(graph.ops, 1, i))
    BY <1>1, <1>2 DEF IInv, TypeOK
  <2> QED  BY <1>1, <1>2, <1>3, <2>1, <2>2, <2>3 DEF IInv, TypeOK
<1>9. ListsAreLists'
  BY <1>1, <1>6 DEF IInv, ListsAreLists
<1>10. KeptWerePassed'
  BY <1>2, <1>3, <1>6 DEF IInv, KeptWerePassed
<1>11. SeenHaveArity'
  BY <1>1, <1>5 DEF IInv, SeenHaveArity
<1>12. OutputsStay'
  BY <1>1 DEF IInv, OutputsStay
<1> QED  BY <1>1, <1>7, <1>8, <1>9, <1>10, <1>11, <1>12 DEF IInv

\* The invariant holds of every state of the scan.
LEMMA InvStays ==
    ASSUME IInv, [Next]_vars
    PROVE  IInv'
<1>1. CASE UNCHANGED vars
  <2>1. graph' = graph /\ i' = i /\ remap' = remap /\ seen' = seen
        /\ new_ops' = new_ops /\ removed' = removed
    BY <1>1 DEF vars
  <2>2. TypeOK'
    BY <2>1 DEF IInv, TypeOK
  <2>3. RemapIsCanonical' /\ OutputsStay'
    BY <2>1 DEF IInv, RemapIsCanonical, OutputsStay
  <2>4. ListsAreLists' /\ KeptWerePassed' /\ SeenHaveArity'
    BY <2>1 DEF IInv, ListsAreLists, KeptWerePassed, SeenHaveArity
  <2> QED  BY <2>1, <2>2, <2>3, <2>4 DEF IInv
<1> QED  BY <1>1, DropKeepsInv, KeepKeepsInv DEF Next, Terminated

LEMMA Invariance == Spec => []IInv
<1>1. Init => IInv
  BY InvInitially, GraphsAssumption DEF Init
<1>2. IInv /\ [Next]_vars => IInv'
  BY InvStays
<1> QED  BY <1>1, <1>2, PTL DEF Spec

\* Every op the scan has passed is kept or dropped, and canonical ops are ops
\* that were kept.
THEOREM TypeCorrect == Spec => []TypeOK
<1>1. IInv => TypeOK
  BY DEF IInv
<1> QED  BY <1>1, Invariance, PTL

\* One look-up in remap is always enough: what replaces a dropped tensor is
\* written by a kept op and is never replaced itself.
THEOREM RemapStaysCanonical == Spec => []RemapIsCanonical
<1>1. IInv => RemapIsCanonical
  BY DEF IInv
<1> QED  BY <1>1, Invariance, PTL

\* A graph output is never renamed.
LEMMA OutputsUnchanged ==
    ASSUME IInv
    PROVE  ReplacedIn(graph.graph_outputs) = graph.graph_outputs
<1> DEFINE outputs == graph.graph_outputs
<1>1. outputs \in Seq(Range(outputs))
  BY DEF IInv, IsGraph
<1>2. outputs = [k \in DOMAIN outputs |-> outputs[k]]
  BY <1>1, SeqDef
<1>3. \A k \in DOMAIN outputs : Replaced(outputs[k]) = outputs[k]
  BY DEF IInv, OutputsStay, Replaced, Range
<1> HIDE DEF outputs
<1>4. [k \in DOMAIN outputs |-> Replaced(outputs[k])] = [k \in DOMAIN outputs |-> outputs[k]]
  BY <1>3
<1>5. ReplacedIn(outputs) = outputs
  BY <1>2, <1>4 DEF ReplacedIn
<1> QED  BY <1>5 DEF outputs

\* Graph outputs keep their names, under which step looks them up.
THEOREM OutputsKeepTheirNames == Spec => []OutputNamesKept
<1>1. IInv => OutputNamesKept
  BY OutputsUnchanged DEF OutputNamesKept
<1> QED  BY <1>1, Invariance, PTL
----------------------------------------------------------------------------
(***************************************************************************)
(* The result of the scan.  Its ops read only canonical tensors, in order; *)
(* every tensor the scan has passed is one they write or a renamed one.    *)
(***************************************************************************)
Given == Range(graph.graph_inputs) \cup External(graph)

EveryWriteAccounted ==
    WrittenBy(SubSeq(graph.ops, 1, i - 1)) \subseteq WrittenBy(new_ops) \cup DOMAIN remap

ReadsAreCanonical == ReadBy(new_ops) \cap DOMAIN remap = {}

KeepsOrder(k) ==
    LET outputs == new_ops[k].outputs
        before == WrittenBy(SubSeq(new_ops, 1, k - 1))
    IN /\ outputs \in Seq(Range(outputs))
       /\ \A o, p \in DOMAIN outputs : outputs[o] = outputs[p] => o = p
       /\ Range(outputs) \cap before = {}
       /\ Range(outputs) \subseteq WrittenBy(graph.ops)
       /\ Range(new_ops[k].inputs) \subseteq Given \cup before
       /\ Range(new_ops[k].inputs) \subseteq DOMAIN graph.shapes

ResultInv ==
    /\ EveryWriteAccounted
    /\ ReadsAreCanonical
    /\ \A k \in DOMAIN new_ops : KeepsOrder(k)

\* What the result reads is given or written by one of its ops.
LEMMA ResultReads ==
    ASSUME IInv, ResultInv
    PROVE  ReadBy(new_ops) \subseteq Given \cup WrittenBy(new_ops)
<1> SUFFICES ASSUME NEW k \in DOMAIN new_ops
             PROVE  Range(new_ops[k].inputs) \subseteq Given \cup WrittenBy(new_ops)
  BY DEF ReadBy
<1>1. new_ops \in Seq(Range(new_ops)) /\ k \in 1..(Len(new_ops) + 1)
  BY PositionsOfList DEF IInv, ListsAreLists
<1>2. WrittenBy(SubSeq(new_ops, 1, k - 1)) \subseteq WrittenBy(new_ops)
  BY <1>1, PrefixIsPart
<1> QED  BY <1>2 DEF ResultInv, KeepsOrder

\* What a scanning state of an accepted graph tells about the next op.
LEMMA NextOpProperties ==
    ASSUME IInv, Scanning
    PROVE  LET op == graph.ops[i] IN
           /\ \A o, p \in DOMAIN op.outputs : op.outputs[o] = op.outputs[p] => o = p
           /\ Range(op.outputs) \cap Given = {}
           /\ Range(op.outputs) \subseteq WrittenBy(graph.ops)
           /\ Range(op.inputs) \subseteq Given \cup WrittenBy(SubSeq(graph.ops, 1, i - 1))
           /\ Range(op.inputs) \subseteq DOMAIN graph.shapes
<1> DEFINE op == graph.ops[i]
<1>1. i \in DOMAIN graph.ops /\ op.outputs \in Seq(Range(op.outputs)) /\ Verified(graph)
  BY ScanProperties DEF IInv, TypeOK, IsOp
<1>2. \A o, p \in DOMAIN op.outputs : op.outputs[o] = op.outputs[p] => o = p
  BY <1>1, OutputsDiffer
<1>3. Range(op.outputs) \subseteq WrittenBy(graph.ops)
  BY <1>1 DEF WrittenBy
<1>4. /\ Range(op.inputs) \subseteq ProducedBefore(graph, i)
      /\ Range(op.outputs) \cap Range(graph.graph_inputs) = {}
      /\ Range(op.inputs) \subseteq DOMAIN graph.shapes
  BY <1>1, VerifiedGives
<1>5. Range(op.outputs) \cap Given = {}
  BY <1>3, <1>4 DEF Given, External
<1> QED  BY <1>2, <1>3, <1>4, <1>5 DEF ProducedBefore, Given

\* A kept op reads canonical tensors that are there before it.
LEMMA RewiredInputs ==
    ASSUME IInv, ResultInv, Scanning
    PROVE  LET op == graph.ops[i] IN
           /\ Rewired(op).inputs = ReplacedIn(op.inputs)
           /\ Range(ReplacedIn(op.inputs)) \cap DOMAIN remap = {}
           /\ Range(ReplacedIn(op.inputs)) \subseteq Given \cup WrittenBy(new_ops)
           /\ Range(ReplacedIn(op.inputs)) \subseteq DOMAIN graph.shapes
<1> DEFINE op == graph.ops[i]
<1>1. Rewired(op).inputs = ReplacedIn(op.inputs)
  BY ScanProperties DEF Rewired, IsOp, MkOp
<1>2. \A t \in WrittenBy(new_ops) : t \in DOMAIN graph.shapes
  <2> SUFFICES ASSUME NEW k \in DOMAIN new_ops, NEW t \in Range(new_ops[k].outputs)
               PROVE  t \in DOMAIN graph.shapes
    BY DEF WrittenBy
  <2>1. t \in WrittenBy(graph.ops)
    BY DEF ResultInv, KeepsOrder
  <2>2. PICK m \in DOMAIN graph.ops : t \in Range(graph.ops[m].outputs)
    BY <2>1 DEF WrittenBy
  <2> QED  BY <2>2, VerifiedGives DEF IInv, TypeOK
<1>3. ASSUME NEW t \in Range(op.inputs)
      PROVE  /\ Replaced(t) \notin DOMAIN remap
             /\ Replaced(t) \in Given \cup WrittenBy(new_ops)
             /\ Replaced(t) \in DOMAIN graph.shapes
  <2>1. CASE t \in DOMAIN remap
    BY <1>2, <2>1 DEF IInv, RemapIsCanonical, Replaced
  <2>2. CASE t \notin DOMAIN remap
    <3>1. /\ t \in Given \cup WrittenBy(SubSeq(graph.ops, 1, i - 1))
          /\ t \in DOMAIN graph.shapes
      BY NextOpProperties
    <3> QED  BY <2>2, <3>1 DEF ResultInv, EveryWriteAccounted, Replaced
  <2> QED  BY <2>1, <2>2
<1>4. \A u \in Range(ReplacedIn(op.inputs)) : \E t \in Range(op.inputs) : u = Replaced(t)
  BY DEF Range, ReplacedIn
<1> QED  BY <1>1, <1>3, <1>4

LEMMA ResultInitially ==
    ASSUME IsGraph(graph), Starts
    PROVE  ResultInv
<1>1. i = 1 /\ remap = <<>> /\ new_ops = <<>> /\ DOMAIN new_ops = {}
  BY EmptySeq DEF Starts
<1>2. ReadBy(new_ops) = {}
  BY <1>1 DEF ReadBy
<1>3. WrittenBy(SubSeq(graph.ops, 1, i - 1)) = {}
  <2>1. graph.ops \in Seq(Range(graph.ops)) /\ i \in 1..(Len(graph.ops) + 1)
    BY <1>1, PositionsOfList DEF IsGraph
  <2>2. \A m \in DOMAIN graph.ops : ~ (m < i)
    BY <1>1, <2>1, PositionsOfList
  <2> QED  BY <2>1, <2>2, PrefixWriters
<1> QED  BY <1>1, <1>2, <1>3 DEF ResultInv, EveryWriteAccounted, ReadsAreCanonical

\* A renamed tensor is read by none of the ops kept before.
LEMMA DropKeepsResult ==
    ASSUME IInv, ResultInv, DropDuplicate
    PROVE  ResultInv'
<1> DEFINE op == graph.ops[i]
<1>1. /\ Scanning /\ i' = i + 1 /\ graph' = graph /\ new_ops' = new_ops
      /\ DOMAIN remap' = DOMAIN remap \cup Range(op.outputs)
  BY DEF DropDuplicate, DropFor
<1>2. /\ Range(op.outputs) \cap WrittenBy(SubSeq(graph.ops, 1, i - 1)) = {}
      /\ WrittenBy(SubSeq(graph.ops, 1, i))
            = WrittenBy(SubSeq(graph.ops, 1, i - 1)) \cup Range(op.outputs)
      /\ i \in Nat
  BY <1>1, ScanProperties
<1>3. EveryWriteAccounted'
  <2>1. i' - 1 = i
    BY <1>1, <1>2
  <2> QED  BY <1>1, <1>2, <2>1 DEF ResultInv, EveryWriteAccounted
<1>4. ReadsAreCanonical'
  <2>1. Range(op.outputs) \cap Given = {}
    BY <1>1, NextOpProperties
  <2>2. Range(op.outputs) \cap WrittenBy(new_ops) = {}
    BY <1>2 DEF IInv, KeptWerePassed
  <2>3. Range(op.outputs) \cap ReadBy(new_ops) = {}
    BY <2>1, <2>2, ResultReads
  <2> QED  BY <1>1, <2>3 DEF ResultInv, ReadsAreCanonical
<1>5. \A k \in DOMAIN new_ops' : KeepsOrder(k)'
  BY <1>1 DEF ResultInv, KeepsOrder, Given
<1> QED  BY <1>3, <1>4, <1>5, SMTT(30) DEF ResultInv

\* A kept op joins the result in order.
LEMMA KeepKeepsResult ==
    ASSUME IInv, ResultInv, KeepCanonical
    PROVE  ResultInv'
<1> DEFINE op == graph.ops[i]
           kept == Rewired(op)
           n == Len(new_ops)
<1>1. /\ Scanning /\ graph' = graph /\ i' = i + 1 /\ remap' = remap
      /\ new_ops' = Append(new_ops, kept)
  BY DEF KeepCanonical, KeepAs
<1>2. /\ Range(op.outputs) \cap WrittenBy(SubSeq(graph.ops, 1, i - 1)) = {}
      /\ WrittenBy(SubSeq(graph.ops, 1, i))
            = WrittenBy(SubSeq(graph.ops, 1, i - 1)) \cup Range(op.outputs)
      /\ i \in Nat /\ IsOp(op)
  BY <1>1, ScanProperties
<1>3. kept.outputs = op.outputs
  BY <1>2 DEF Rewired, IsOp, MkOp
<1>4. /\ kept.inputs = ReplacedIn(op.inputs)
      /\ Range(kept.inputs) \cap DOMAIN remap = {}
      /\ Range(kept.inputs) \subseteq Given \cup WrittenBy(new_ops)
      /\ Range(kept.inputs) \subseteq DOMAIN graph.shapes
  BY <1>1, RewiredInputs
<1> HIDE DEF kept
<1>5. /\ new_ops \in Seq(Range(new_ops)) /\ new_ops' \in Seq(Range(new_ops'))
      /\ n \in Nat /\ Len(new_ops') = n + 1
      /\ WrittenBy(new_ops') = WrittenBy(new_ops) \cup Range(op.outputs)
  BY <1>1, <1>3, WrittenByAppend, PositionsOfList DEF IInv, ListsAreLists
<1>6. /\ DOMAIN new_ops' = 1..(n + 1) /\ DOMAIN new_ops = 1..n
      /\ \A k \in 1..n : new_ops'[k] = new_ops[k]
      /\ new_ops'[n + 1] = kept
  BY <1>1, <1>5, PositionsOfList, AppendedAt
<1>7. \A k \in 1..(n + 1) : SubSeq(new_ops', 1, k - 1) = SubSeq(new_ops, 1, k - 1)
  BY <1>1, <1>5, PrefixOfAppend
<1>8. EveryWriteAccounted'
  <2>1. i' - 1 = i
    BY <1>1, <1>2
  <2> QED  BY <1>1, <1>2, <1>5, <2>1 DEF ResultInv, EveryWriteAccounted
<1>9. ReadsAreCanonical'
  <2> SUFFICES ASSUME NEW k \in DOMAIN new_ops'
               PROVE  Range(new_ops'[k].inputs) \cap DOMAIN remap = {}
    BY <1>1 DEF ReadsAreCanonical, ReadBy
  <2>1. CASE k = n + 1
    BY <1>4, <1>6, <2>1
  <2>2. CASE k # n + 1
    <3>1. k \in DOMAIN new_ops /\ new_ops'[k] = new_ops[k]
      BY <1>5, <1>6, <2>2
    <3> QED  BY <3>1 DEF ResultInv, ReadsAreCanonical, ReadBy
  <2> QED  BY <2>1, <2>2
<1>10. ASSUME NEW k \in DOMAIN new_ops'
       PROVE  KeepsOrder(k)'
  <2>1. SubSeq(new_ops', 1, k - 1) = SubSeq(new_ops, 1, k - 1) /\ Given' = Given
    BY <1>1, <1>6, <1>7 DEF Given
  <2>2. CASE k = n + 1
    <3>1. SubSeq(new_ops, 1, k - 1) = new_ops
      <4>1. k \in 1..(Len(new_ops) + 1)
        BY <1>6
      <4> QED  BY <1>5, <2>2, <4>1, PrefixOfAppend
    <3>2. /\ \A o, p \in DOMAIN op.outputs : op.outputs[o] = op.outputs[p] => o = p
          /\ Range(op.outputs) \subseteq WrittenBy(graph.ops)
      BY <1>1, NextOpProperties
    <3>3. Range(op.outputs) \cap WrittenBy(new_ops) = {}
      BY <1>2 DEF IInv, KeptWerePassed
    <3>4. op.outputs \in Seq(Range(op.outputs))
      BY <1>2 DEF IsOp
    <3>5. new_ops'[k] = kept
      BY <1>6, <2>2
    <3> HIDE DEF op
    <3> QED  BY <1>1, <1>3, <1>4, <2>1, <3>1, <3>2, <3>3, <3>4, <3>5 DEF KeepsOrder
  <2>3. CASE k # n + 1
    <3>1. k \in DOMAIN new_ops /\ new_ops'[k] = new_ops[k]
      BY <1>5, <1>6, <2>3
    <3>2. KeepsOrder(k)
      BY <3>1 DEF ResultInv
    <3> HIDE DEF op
    <3> QED  BY <1>1, <2>1, <3>1, <3>2 DEF KeepsOrder
  <2> QED  BY <2>2, <2>3
<1> QED  BY <1>8, <1>9, <1>10 DEF ResultInv

LEMMA ResultStays ==
    ASSUME IInv, ResultInv, [Next]_vars
    PROVE  ResultInv'
<1>1. CASE UNCHANGED vars
  BY <1>1 DEF vars, ResultInv, EveryWriteAccounted, ReadsAreCanonical, KeepsOrder, Given
<1> QED  BY <1>1, DropKeepsResult, KeepKeepsResult DEF Next, Terminated

LEMMA ResultInvariance == Spec => []ResultInv
<1>1. Init => ResultInv
  BY ResultInitially, GraphsAssumption DEF Init
<1>2. IInv /\ ResultInv /\ [Next]_vars => ResultInv'
  BY ResultStays
<1> QED  BY <1>1, <1>2, Invariance, PTL DEF Spec

\* The verify_graph call after the pass accepts every result, and no tensor
\* has lost its producer: one that had, and kept its shape, would pass for a
\* parameter the caller provides.
LEMMA DedupedIsRight ==
    ASSUME IInv, ResultInv, Finished
    PROVE  Verified(Deduped) /\ External(Deduped) \subseteq External(graph)
<1>1. /\ graph.ops \in Seq(Range(graph.ops)) /\ Verified(graph)
      /\ graph.ops = SubSeq(graph.ops, 1, i - 1)
  <2>1. graph.ops \in Seq(Range(graph.ops)) /\ i \in 1..(Len(graph.ops) + 1)
    BY DEF IInv, TypeOK, IsGraph
  <2>2. i = Len(graph.ops) + 1
    BY <2>1, PositionsOfList DEF Finished
  <2> QED  BY <2>1, <2>2, PrefixOfAppend DEF IInv, TypeOK
<1>2. WrittenBy(graph.ops) = WrittenBy(new_ops) \cup DOMAIN remap
  BY <1>1 DEF IInv, TypeOK, KeptWerePassed, ResultInv, EveryWriteAccounted
<1>3. ReplacedIn(graph.graph_outputs) = graph.graph_outputs
  BY OutputsUnchanged
<1> DEFINE referenced == ReadBy(new_ops) \cup WrittenBy(new_ops)
               \cup Range(graph.graph_inputs) \cup Range(graph.graph_outputs)
<1>4. /\ Deduped.ops = new_ops /\ Deduped.graph_inputs = graph.graph_inputs
      /\ Deduped.graph_outputs = graph.graph_outputs
      /\ DOMAIN Deduped.shapes = (DOMAIN graph.shapes) \cap referenced
  BY <1>3 DEF Deduped, IInv, IsGraph, MkGraph
<1>5. /\ WrittenBy(graph.ops) \cap Range(graph.graph_inputs) = {}
      /\ WrittenBy(graph.ops) \subseteq DOMAIN graph.shapes
      /\ Range(graph.graph_outputs) \subseteq WrittenBy(graph.ops) \cup Range(graph.graph_inputs)
  <2>1. Range(graph.graph_outputs) \subseteq WrittenBy(graph.ops) \cup Range(graph.graph_inputs)
    BY <1>1 DEF Verified, CollectGraphErrors, UnproducedOutputs
  <2>2. ASSUME NEW t \in WrittenBy(graph.ops)
        PROVE  t \in DOMAIN graph.shapes /\ t \notin Range(graph.graph_inputs)
    <3>1. PICK k \in DOMAIN graph.ops : t \in Range(graph.ops[k].outputs)
      BY DEF WrittenBy
    <3> QED  BY <1>1, <3>1, VerifiedGives
  <2> QED  BY <2>1, <2>2
<1>6. External(Deduped) = External(graph) \cap referenced
  <2>1. referenced \cap DOMAIN remap = {}
    BY <1>2, <1>5 DEF IInv, RemapIsCanonical, OutputsStay, ResultInv, ReadsAreCanonical
  <2> QED  BY <1>2, <1>4, <2>1 DEF External
<1>7. ASSUME NEW k \in DOMAIN new_ops PROVE Acceptable(Deduped, k)
  <2>1. KeepsOrder(k)
    BY DEF ResultInv
  <2>2. Range(new_ops[k].inputs) \cup Range(new_ops[k].outputs) \subseteq referenced
    BY DEF ReadBy, WrittenBy
  <2>3. Range(new_ops[k].inputs) \subseteq ProducedBefore(Deduped, k)
    BY <1>4, <1>6, <2>1, <2>2 DEF KeepsOrder, Given, ProducedBefore
  <2> HIDE DEF referenced
  <2>4. Range(new_ops[k].inputs) \cup Range(new_ops[k].outputs) \subseteq DOMAIN Deduped.shapes
    BY <1>4, <1>5, <2>1, <2>2 DEF KeepsOrder
  <2>5. Range(new_ops[k].outputs) \cap Range(graph.graph_inputs) = {}
    BY <1>5, <2>1 DEF KeepsOrder
  <2> QED  BY <1>4, <2>1, <2>3, <2>4, <2>5 DEF Acceptable, KeepsOrder
<1>8. Range(graph.graph_outputs) \subseteq WrittenBy(new_ops) \cup Range(graph.graph_inputs)
  BY <1>2, <1>5 DEF IInv, OutputsStay
<1>9. Verified(Deduped)
  BY <1>4, <1>7, <1>8, VerifiedWhen
<1> QED  BY <1>6, <1>9

\* For every set of graphs, whenever the pass has come to an end.
THEOREM DedupedIsAccepted == Spec => []DedupedVerifies
<1>1. IInv /\ ResultInv => DedupedVerifies
  BY DedupedIsRight DEF DedupedVerifies
<1> QED  BY <1>1, Invariance, ResultInvariance, PTL
----------------------------------------------------------------------------
\* Every kept op's key is known to the scan.
KeysAreSeen == \A k \in DOMAIN new_ops : Key(new_ops[k]) \in DOMAIN seen

\* A canonical op has the key it was kept under.
LEMMA RewiredKey ==
    ASSUME IInv, NEW op, IsOp(op)
    PROVE  Key(Rewired(op)) = Key(op)
<1> DEFINE kept == Rewired(op)
           inputs == ReplacedIn(op.inputs)
<1>1. /\ kept.inputs = inputs /\ kept.kind = op.kind /\ kept.attrs = op.attrs
      /\ kept.outputs = op.outputs
  BY DEF Rewired, IsOp, MkOp
<1>2. DOMAIN inputs = DOMAIN op.inputs /\ \A k \in DOMAIN op.inputs : inputs[k] = Replaced(op.inputs[k])
  BY DEF ReplacedIn
<1>3. \A t : Replaced(Replaced(t)) = Replaced(t)
  BY DEF IInv, RemapIsCanonical, Replaced
<1>4. ReplacedIn(inputs) = inputs
  <2>1. ReplacedIn(inputs) = [k \in DOMAIN op.inputs |-> Replaced(Replaced(op.inputs[k]))]
    BY <1>2 DEF ReplacedIn
  <2> QED  BY <1>3, <2>1 DEF ReplacedIn
<1> QED  BY <1>1, <1>4 DEF Key

\* Dropping an op does not change the key of a kept one.
LEMMA KeysStay ==
    ASSUME ResultInv, ResultInv', NEW k \in DOMAIN new_ops, new_ops' = new_ops
    PROVE  Key(new_ops[k])' = Key(new_ops[k])
<1> DEFINE inputs == new_ops[k].inputs
<1>1. \A m \in DOMAIN inputs : inputs[m] \in ReadBy(new_ops)
  BY DEF ReadBy, Range
<1>2. \A m \in DOMAIN inputs : inputs[m] \notin DOMAIN remap /\ inputs[m] \notin DOMAIN remap'
  BY <1>1 DEF ResultInv, ReadsAreCanonical, ReadBy
<1>3. ReplacedIn(inputs) = [m \in DOMAIN inputs |-> inputs[m]]
  BY <1>2 DEF ReplacedIn, Replaced
<1>4. ReplacedIn(inputs)' = [m \in DOMAIN inputs |-> inputs[m]]
  BY <1>2 DEF ReplacedIn, Replaced
<1> QED  BY <1>3, <1>4 DEF Key, Repr

\* "chains collapse too": one scan leaves no two structurally identical ops,
\* except a later one that must stay because it makes a graph output.
THEOREM NoDuplicateIsLeft == Spec => []NoDuplicatesLeft
<1> DEFINE Inv == KeysAreSeen /\ NoDuplicatesLeft
<1>1. Init => Inv
  <2> SUFFICES ASSUME Init PROVE Inv
    OBVIOUS
  <2>1. DOMAIN new_ops = {}
    BY EmptySeq DEF Init, Starts
  <2> QED  BY <2>1 DEF KeysAreSeen, NoDuplicatesLeft
<1>2. IInv /\ ResultInv /\ ResultInv' /\ Inv /\ [Next]_vars => Inv'
  <2> SUFFICES ASSUME IInv, ResultInv, ResultInv', Inv, [Next]_vars
               PROVE  Inv'
    OBVIOUS
  <2>1. CASE DropDuplicate
    <3>1. /\ new_ops' = new_ops /\ graph' = graph /\ DOMAIN seen' = DOMAIN seen
      BY <2>1 DEF DropDuplicate, DropFor
    <3>2. \A k \in DOMAIN new_ops : Key(new_ops[k])' = Key(new_ops[k])
      BY <3>1, KeysStay
    <3>3. KeysAreSeen'
      BY <3>1, <3>2 DEF KeysAreSeen
    <3>4. NoDuplicatesLeft'
      BY <3>1, <3>2 DEF NoDuplicatesLeft, ProducesGraphOutput
    <3> QED  BY <3>3, <3>4
  <2>2. CASE KeepCanonical
    <3> DEFINE op == graph.ops[i]
               kept == Rewired(op)
               n == Len(new_ops)
    <3>1. /\ Scanning /\ graph' = graph /\ remap' = remap /\ ~ IsRedundant(op)
          /\ new_ops' = Append(new_ops, kept)
          /\ DOMAIN seen' = DOMAIN seen \cup {Key(op)}
      BY <2>2 DEF KeepCanonical, KeepAs
    <3>2. IsOp(op) /\ kept.outputs = op.outputs
      BY <3>1, ScanProperties DEF Rewired, IsOp, MkOp
    <3>3. Key(kept) = Key(op)
      BY <3>2, RewiredKey
    <3> HIDE DEF kept, op
    <3>4. /\ DOMAIN new_ops' = 1..(n + 1) /\ DOMAIN new_ops = 1..n /\ n \in Nat
          /\ \A k \in 1..n : new_ops'[k] = new_ops[k]
          /\ new_ops'[n + 1] = kept
      BY <3>1, AppendedAt, PositionsOfList DEF IInv, ListsAreLists
    <3>5. \A o : Key(o)' = Key(o)
      BY <3>1 DEF Key, ReplacedIn, Replaced, Repr
    <3>6. KeysAreSeen'
      <4> SUFFICES ASSUME NEW k \in DOMAIN new_ops'
                   PROVE  Key(new_ops'[k]) \in DOMAIN seen'
        BY <3>5 DEF KeysAreSeen
      <4>1. CASE k = n + 1
        BY <3>1, <3>3, <3>4, <4>1
      <4>2. CASE k # n + 1
        <5>1. k \in DOMAIN new_ops /\ new_ops'[k] = new_ops[k]
          BY <3>4, <4>2
        <5> QED  BY <3>1, <5>1 DEF KeysAreSeen
      <4> QED  BY <4>1, <4>2
    <3>7. NoDuplicatesLeft'
      <4> SUFFICES ASSUME NEW j \in DOMAIN new_ops', NEW k \in DOMAIN new_ops', j < k,
                          Key(new_ops'[j]) = Key(new_ops'[k])
                   PROVE  ProducesGraphOutput(new_ops'[k])
        BY <3>1, <3>5 DEF NoDuplicatesLeft, ProducesGraphOutput
      <4>1. j \in DOMAIN new_ops /\ new_ops'[j] = new_ops[j]
        BY <3>4
      <4>2. CASE k = n + 1
        <5>1. Key(op) \in DOMAIN seen
          BY <3>3, <3>4, <4>1, <4>2 DEF KeysAreSeen
        <5>2. ProducesGraphOutput(op)
          BY <3>1, <5>1 DEF IsRedundant
        <5> QED  BY <3>2, <3>4, <4>2, <5>2 DEF ProducesGraphOutput
      <4>3. CASE k # n + 1
        <5>1. k \in DOMAIN new_ops /\ new_ops'[k] = new_ops[k]
          BY <3>4, <4>3
        <5> QED  BY <4>1, <5>1 DEF NoDuplicatesLeft
      <4> QED  BY <4>2, <4>3
    <3> QED  BY <3>6, <3>7
  <2>3. CASE UNCHANGED vars
    <3>1. /\ graph' = graph /\ remap' = remap /\ seen' = seen /\ new_ops' = new_ops
      BY <2>3 DEF vars
    <3>2. \A o : Key(o)' = Key(o)
      BY <3>1 DEF Key, ReplacedIn, Replaced, Repr
    <3> QED  BY <3>1, <3>2 DEF KeysAreSeen, NoDuplicatesLeft, ProducesGraphOutput
  <2> QED  BY <2>1, <2>2, <2>3 DEF Next, Terminated
<1>3. Inv => NoDuplicatesLeft
  OBVIOUS
<1> QED  BY <1>1, <1>2, <1>3, Invariance, ResultInvariance, PTL DEF Spec
----------------------------------------------------------------------------
(***************************************************************************)
(* What a later stage needs to know of the scan: a canonical op still has  *)
(* the parts its key was made of.                                          *)
(***************************************************************************)
KeyedByContent ==
    \A key \in DOMAIN seen :
        key = <<seen[key].kind, seen[key].inputs, Repr(seen[key].attrs), Len(seen[key].outputs)>>

LEMMA KeyedInitially ==
    ASSUME Starts
    PROVE  KeyedByContent
BY EmptySeq DEF Starts, KeyedByContent

LEMMA KeyedStays ==
    ASSUME IInv, KeyedByContent, [Next]_vars
    PROVE  KeyedByContent'
<1>1. CASE DropDuplicate
  <2> DEFINE key == Key(graph.ops[i])
  <2>1. /\ key \in DOMAIN seen
        /\ seen' = [seen EXCEPT ![key] = seen[key]]
    BY <1>1 DEF DropDuplicate, DropFor, IsRedundant
  <2> HIDE DEF key
  <2>2. DOMAIN seen' = DOMAIN seen /\ \A k \in DOMAIN seen : seen'[k] = seen[k]
    BY <2>1, SMTT(30)
  <2> QED  BY <2>2 DEF KeyedByContent, Repr
<1>2. CASE KeepCanonical
  <2> DEFINE op == graph.ops[i]
             key == Key(op)
             kept == Rewired(op)
  <2>1. /\ Scanning
        /\ seen' = [k \in DOMAIN seen \cup {key} |-> IF k \in DOMAIN seen THEN seen[k] ELSE kept]
    BY <1>2 DEF KeepCanonical, KeepAs
  <2>2. key = <<kept.kind, kept.inputs, Repr(kept.attrs), Len(kept.outputs)>>
    BY <2>1, ScanProperties DEF Rewired, IsOp, MkOp, Key
  <2> HIDE DEF key, kept
  <2>3. DOMAIN seen' = DOMAIN seen \cup {key}
        /\ \A k \in DOMAIN seen' : seen'[k] = IF k \in DOMAIN seen THEN seen[k] ELSE kept
    BY <2>1
  <2> QED  BY <2>2, <2>3 DEF KeyedByContent, Repr
<1>3. CASE UNCHANGED vars
  BY <1>3 DEF vars, KeyedByContent, Repr
<1> QED  BY <1>1, <1>2, <1>3 DEF Next, Terminated

\* The fields of the result.
LEMMA DedupedFields ==
    ASSUME IInv
    PROVE  /\ Deduped.ops = new_ops
           /\ Deduped.graph_inputs = graph.graph_inputs
           /\ Deduped.graph_outputs = graph.graph_outputs
BY OutputsUnchanged DEF Deduped, IInv, IsGraph, MkGraph
=============================================================================

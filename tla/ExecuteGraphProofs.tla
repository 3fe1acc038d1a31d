------------------------- MODULE ExecuteGraphProofs -------------------------
(***************************************************************************)
(* What the verifier's invariants buy the execution of a base graph, for   *)
(* every graph and every arithmetic.                                       *)
(***************************************************************************)
EXTENDS ExecuteGraph, GraphLemmas

\* A base graph's list of plain ops, each with lists of tensors.
LEMMA BaseGraphProperties ==
    ASSUME NEW g \in Graphs
    PROVE  /\ g.ops \in Seq(Range(g.ops))
           /\ Len(g.ops) \in Nat /\ DOMAIN g.ops = 1..Len(g.ops)
           /\ \A k \in DOMAIN g.ops :
                 /\ g.ops[k] \in PlainOp
                 /\ SubOps(g.ops[k]) = <<g.ops[k]>>
                 /\ g.ops[k].kind # "fused"
                 /\ g.ops[k].inputs \in Seq(Tensor) /\ g.ops[k].outputs \in Seq(Tensor)
<1>1. g.ops \in Seq(PlainOp)
  BY GraphsAssumption DEF IsBaseGraph
<1>2. Len(g.ops) \in Nat /\ DOMAIN g.ops = 1..Len(g.ops) /\ g.ops \in [1..Len(g.ops) -> PlainOp]
  BY <1>1, LenProperties
<1>3. g.ops \in Seq(Range(g.ops))
  <2>1. g.ops \in [1..Len(g.ops) -> Range(g.ops)]
    BY <1>2 DEF Range
  <2> QED  BY <1>2, <2>1, SeqDef
<1>4. ASSUME NEW k \in DOMAIN g.ops
      PROVE  /\ g.ops[k] \in PlainOp
             /\ SubOps(g.ops[k]) = <<g.ops[k]>>
             /\ g.ops[k].kind # "fused"
             /\ g.ops[k].inputs \in Seq(Tensor) /\ g.ops[k].outputs \in Seq(Tensor)
  <2>1. g.ops[k] \in PlainOp
    BY <1>2
  <2>2. g.ops[k].kind # "fused"
    BY <2>1, FusedIsNoKind DEF PlainOp
  <2> QED  BY <2>1, <2>2 DEF SubOps, PlainOp
<1> QED  BY <1>2, <1>3, <1>4

\* The first elements of a list are among its elements.
LEMMA FirstOf ==
    ASSUME NEW S, NEW s \in Seq(S), NEW n \in Nat, n <= Len(s)
    PROVE  Range(SubSeq(s, 1, n)) \subseteq Range(s)
<1> DEFINE front == SubSeq(s, 1, n)
<1>1. Len(s) \in Nat /\ DOMAIN s = 1..Len(s) /\ \A k \in 1..n : s[k] \in S
  BY LenProperties, ElementOfSeq
<1>2. front \in Seq(S) /\ Len(front) = n /\ \A k \in 1..n : front[k] = s[k]
  BY <1>1, SubSeqProperties
<1>3. DOMAIN front = 1..n
  BY <1>2, LenProperties
<1> HIDE DEF front
<1>4. \A k \in DOMAIN front : k \in DOMAIN s /\ front[k] = s[k]
  BY <1>1, <1>2, <1>3
<1>5. Range(front) \subseteq Range(s)
  BY <1>4 DEF Range
<1> QED  BY <1>5 DEF front

\* What an op with an implementation assigns is among its outputs, and what
\* it uses among its inputs.
LEMMA ResultsAreOutputs ==
    ASSUME NEW op \in PlainOp, HasImplementation(op)
    PROVE  /\ Range(Results(op)) \subseteq Range(op.outputs)
           /\ Range(Arguments(op)) \subseteq Range(op.inputs)
<1>1. op.inputs \in Seq(Tensor) /\ op.outputs \in Seq(Tensor)
  BY DEF PlainOp
<1>2. op.kind \in DOMAIN NumInputs /\ DOMAIN NumInputs = DOMAIN NumOutputs
  BY DEF HasImplementation, NumInputs, NumOutputs
<1>3. /\ \A kind \in DOMAIN NumInputs : NumInputs[kind] \in Nat
      /\ \A kind \in DOMAIN NumOutputs : NumOutputs[kind] \in Nat
  BY DEF NumInputs, NumOutputs
<1>4. /\ NumInputs[op.kind] \in Nat /\ NumOutputs[op.kind] \in Nat
      /\ NumInputs[op.kind] <= Len(op.inputs) /\ NumOutputs[op.kind] <= Len(op.outputs)
  <2>1. NumInputs[op.kind] \in Nat /\ NumOutputs[op.kind] \in Nat
    BY <1>2, <1>3
  <2>2. Len(op.inputs) >= NumInputs[op.kind] /\ Len(op.outputs) >= NumOutputs[op.kind]
    BY DEF HasImplementation
  <2>3. Len(op.inputs) \in Nat /\ Len(op.outputs) \in Nat
    BY <1>1, LenProperties
  <2> QED  BY <2>1, <2>2, <2>3
<1>5. Range(Results(op)) \subseteq Range(op.outputs)
  BY <1>1, <1>4, FirstOf DEF Results
<1>6. Range(Arguments(op)) \subseteq Range(op.inputs)
  BY <1>1, <1>4, FirstOf DEF Arguments
<1> QED  BY <1>5, <1>6

\* The ops of an implemented base graph use exactly the tensors they list.
LEMMA ImplementedOps ==
    ASSUME NEW g \in Graphs, Implemented(g), NEW k \in DOMAIN g.ops
    PROVE  /\ HasImplementation(g.ops[k])
           /\ Arguments(g.ops[k]) = g.ops[k].inputs
           /\ Results(g.ops[k]) = g.ops[k].outputs
<1>1. SubOps(g.ops[k]) = <<g.ops[k]>>
  BY BaseGraphProperties
<1>2. 1 \in DOMAIN SubOps(g.ops[k]) /\ SubOps(g.ops[k])[1] = g.ops[k]
  BY <1>1
<1> QED  BY <1>2 DEF Implemented
----------------------------------------------------------------------------
(***************************************************************************)
(* The inductive invariant: the tensors present are those the caller gave  *)
(* and those the ops before pos wrote, all of these when every op assigns  *)
(* all its outputs.                                                        *)
(***************************************************************************)
Provided(g) == Range(g.graph_inputs) \cup External(g)

ExecutionInv ==
    /\ graph \in Graphs
    /\ pos \in 1..(Len(graph.ops) + 1)
    /\ sub = 1
    /\ status \in {"running", "returned", "raised"}
    /\ Provided(graph) \subseteq DOMAIN env
    /\ DOMAIN env \subseteq Provided(graph) \cup WrittenBy(SubSeq(graph.ops, 1, pos - 1))
    /\ Implemented(graph) => WrittenBy(SubSeq(graph.ops, 1, pos - 1)) \subseteq DOMAIN env

\* Assigning adds an op's results to the tensors and keeps the other ones.
LEMMA AssignAdds ==
    ASSUME NEW e, NEW op
    PROVE  /\ DOMAIN Assign(e, op) = DOMAIN e \cup Range(Results(op))
           /\ \A t \in DOMAIN e \ Range(Results(op)) : Assign(e, op)[t] = e[t]
BY DEF Assign

\* What is written before the first position: nothing.
LEMMA NothingBeforeFirst ==
    ASSUME NEW g \in Graphs
    PROVE  WrittenBy(SubSeq(g.ops, 1, 1 - 1)) = {}
<1> SUFFICES ASSUME NEW t \in WrittenBy(SubSeq(g.ops, 1, 1 - 1))
             PROVE  FALSE
  OBVIOUS
<1>1. Len(g.ops) \in Nat /\ g.ops \in Seq(Range(g.ops)) /\ DOMAIN g.ops = 1..Len(g.ops)
  BY BaseGraphProperties
<1>2. 1 \in 1..(Len(g.ops) + 1)
  BY <1>1
<1>3. PICK m \in DOMAIN g.ops : m < 1 /\ t \in Range(g.ops[m].outputs)
  BY <1>1, <1>2, PrefixWriters
<1> QED  BY <1>1, <1>3

\* A step of a base graph runs one plain op and moves on to the next.
LEMMA RunsOnePlainOp ==
    ASSUME ExecutionInv, RunOp
    PROVE  /\ pos \in DOMAIN graph.ops /\ graph.ops[pos] \in PlainOp
           /\ HasImplementation(graph.ops[pos])
           /\ Range(Arguments(graph.ops[pos])) \subseteq DOMAIN env
           /\ env' = Assign(env, graph.ops[pos])
           /\ graph' = graph /\ pos' = pos + 1 /\ sub' = 1
           /\ status = "running" /\ status' = "running"
<1>1. pos \in 1..Len(graph.ops) /\ pos \in DOMAIN graph.ops /\ graph \in Graphs
  <2>1. pos \in 1..(Len(graph.ops) + 1) /\ graph \in Graphs
    BY DEF ExecutionInv
  <2>2. Len(graph.ops) \in Nat /\ DOMAIN graph.ops = 1..Len(graph.ops)
    BY <2>1, BaseGraphProperties
  <2>3. pos <= Len(graph.ops)
    BY DEF RunOp, AtOp
  <2> QED  BY <2>1, <2>2, <2>3
<1>2. graph.ops[pos] \in PlainOp /\ graph.ops[pos].kind # "fused"
  BY <1>1, BaseGraphProperties
<1>3. CurrentOp = graph.ops[pos]
  BY <1>2 DEF CurrentOp
<1>4. CanRun(graph.ops[pos]) /\ env' = Assign(env, graph.ops[pos])
  BY <1>3 DEF RunOp
<1>5. pos' = pos + 1 /\ sub' = 1
  BY <1>2 DEF RunOp, Advance
<1> QED  BY <1>1, <1>2, <1>4, <1>5 DEF RunOp, AtOp, CanRun

\* The other steps touch nothing but the status.
LEMMA OtherStepsKeepTensors ==
    ASSUME [Next]_vars, ~ RunOp
    PROVE  /\ UNCHANGED <<graph, pos, sub, env>>
           /\ status' \in {status, "returned", "raised"}
BY DEF Next, Raise, Return, Terminated, vars

\* Each step of a base graph keeps the invariant.
LEMMA ExecutionInvInductive == ExecutionInv /\ [Next]_vars => ExecutionInv'
<1> SUFFICES ASSUME ExecutionInv, [Next]_vars PROVE ExecutionInv'
  OBVIOUS
<1>1. CASE RunOp
  <2> DEFINE op == graph.ops[pos]
  <2>1. /\ pos \in DOMAIN graph.ops /\ op \in PlainOp /\ HasImplementation(op)
        /\ env' = Assign(env, op)
        /\ graph' = graph /\ pos' = pos + 1 /\ sub' = 1 /\ status' = "running"
    BY <1>1, RunsOnePlainOp
  <2>2. graph \in Graphs /\ DOMAIN graph.ops = 1..Len(graph.ops) /\ Len(graph.ops) \in Nat
    BY BaseGraphProperties DEF ExecutionInv
  <2>3. pos' \in 1..(Len(graph.ops) + 1)
    BY <2>1, <2>2
  <2>4. WrittenBy(SubSeq(graph.ops, 1, pos' - 1))
          = WrittenBy(SubSeq(graph.ops, 1, pos - 1)) \cup Range(op.outputs)
    <3>1. WrittenBy(SubSeq(graph.ops, 1, (pos + 1) - 1))
            = WrittenBy(SubSeq(graph.ops, 1, pos - 1)) \cup Range(op.outputs)
      BY <2>1, <2>2, BaseGraphProperties, NextPrefix
    <3> QED  BY <2>1, <3>1
  <2>5. DOMAIN env' = DOMAIN env \cup Range(Results(op))
    BY <2>1, AssignAdds
  <2>6. Range(Results(op)) \subseteq Range(op.outputs)
    BY <2>1, ResultsAreOutputs
  <2>7. Provided(graph) \subseteq DOMAIN env'
    BY <2>5 DEF ExecutionInv
  <2>8. DOMAIN env' \subseteq Provided(graph) \cup WrittenBy(SubSeq(graph.ops, 1, pos' - 1))
    BY <2>4, <2>5, <2>6 DEF ExecutionInv
  <2>9. Implemented(graph) => WrittenBy(SubSeq(graph.ops, 1, pos' - 1)) \subseteq DOMAIN env'
    <3> SUFFICES ASSUME Implemented(graph)
                 PROVE  WrittenBy(SubSeq(graph.ops, 1, pos' - 1)) \subseteq DOMAIN env'
      OBVIOUS
    <3>1. Results(op) = op.outputs
      BY <2>1, <2>2, ImplementedOps
    <3> QED  BY <2>4, <2>5, <3>1 DEF ExecutionInv
  <2> QED  BY <2>1, <2>2, <2>3, <2>7, <2>8, <2>9 DEF ExecutionInv
<1>2. CASE ~ RunOp
  <2>1. UNCHANGED <<graph, pos, sub, env>> /\ status' \in {status, "returned", "raised"}
    BY <1>2, OtherStepsKeepTensors
  <2> QED  BY <2>1 DEF ExecutionInv
<1> QED  BY <1>1, <1>2

\* At the start the tensors are those the caller gives.
LEMMA ExecutionInvInitial == Init => ExecutionInv
<1> SUFFICES ASSUME Init PROVE ExecutionInv
  OBVIOUS
<1>1. graph \in Graphs /\ pos = 1 /\ sub = 1 /\ status = "running"
  BY DEF Init
<1>2. DOMAIN env = Provided(graph)
  BY DEF Init, InitialTensors, Provided
<1>3. pos \in 1..(Len(graph.ops) + 1)
  BY <1>1, BaseGraphProperties
<1>4. WrittenBy(SubSeq(graph.ops, 1, pos - 1)) = {}
  BY <1>1, NothingBeforeFirst
<1> QED  BY <1>1, <1>2, <1>3, <1>4 DEF ExecutionInv

\* The steps of an execution, which may stop anywhere.
Steps == Init /\ [][Next]_vars

LEMMA StepsKeepInvariant == Steps => []ExecutionInv
BY ExecutionInvInitial, ExecutionInvInductive, PTL DEF Steps

\* Every base graph is executed under the invariant.
THEOREM ExecutionInvariant == Spec => []ExecutionInv
BY StepsKeepInvariant, PTL DEF Spec, Steps

\* Type correctness: the loop of execute_graph stays inside the list of ops,
\* and the private copy of the tensors only ever gains tensors the ops write.
THEOREM TypeCorrect == Spec => []TypeOK
<1>1. ExecutionInv => TypeOK
  <2> SUFFICES ASSUME ExecutionInv PROVE TypeOK
    OBVIOUS
  <2>1. graph \in Graphs /\ pos \in 1..(Len(graph.ops) + 1) /\ sub = 1
    BY DEF ExecutionInv
  <2>2. pos <= Len(graph.ops) => sub <= Len(SubOps(graph.ops[pos]))
    <3> SUFFICES ASSUME pos <= Len(graph.ops) PROVE sub <= Len(SubOps(graph.ops[pos]))
      OBVIOUS
    <3>1. pos \in DOMAIN graph.ops
      BY <2>1, BaseGraphProperties
    <3>2. SubOps(graph.ops[pos]) = <<graph.ops[pos]>>
      BY <2>1, <3>1, BaseGraphProperties
    <3> QED  BY <2>1, <3>2
  <2>3. DOMAIN InitialTensors(graph) = Provided(graph)
    BY DEF InitialTensors, Provided
  <2>4. WrittenBy(SubSeq(graph.ops, 1, pos - 1)) \subseteq WrittenBy(graph.ops)
    BY <2>1, BaseGraphProperties, PrefixIsPart
  <2> QED  BY <2>1, <2>2, <2>3, <2>4 DEF ExecutionInv, TypeOK
<1> QED  BY <1>1, ExecutionInvariant, PTL

\* The outputs of the next op of an accepted graph are new names.
LEMMA OutputsAreNew ==
    ASSUME ExecutionInv, Verified(graph), pos \in DOMAIN graph.ops
    PROVE  Range(graph.ops[pos].outputs) \cap DOMAIN env = {}
<1>1. /\ graph \in Graphs
      /\ DOMAIN env \subseteq Provided(graph) \cup WrittenBy(SubSeq(graph.ops, 1, pos - 1))
  BY DEF ExecutionInv
<1>2. MultiplyProduced(graph) = {} /\ RedefinedInputs(graph) = {}
  BY DEF Verified, CollectGraphErrors
<1>3. Range(graph.ops[pos].outputs) \cap WrittenBy(SubSeq(graph.ops, 1, pos - 1)) = {}
  BY <1>1, <1>2, BaseGraphProperties, WrittenOnce
<1>4. ASSUME NEW t \in Range(graph.ops[pos].outputs), t \in Range(graph.graph_inputs)
      PROVE  FALSE
  <2>1. <<pos, t>> \in RedefinedInputs(graph)
    BY <1>4 DEF RedefinedInputs
  <2> QED  BY <1>2, <2>1
<1>5. Range(graph.ops[pos].outputs) \cap External(graph) = {}
  BY DEF External, WrittenBy
<1> QED  BY <1>1, <1>3, <1>4, <1>5 DEF Provided

\* Invariants 1 and 2 of the verifier give every tensor one value for the
\* whole execution: no step changes or drops a tensor that is present.
THEOREM StableTensors == Spec => TensorsAreStable
<1>1. ExecutionInv /\ [Next]_vars
        => [Verified(graph) => \A t \in DOMAIN env : t \in DOMAIN env' /\ env'[t] = env[t]]_vars
  <2> SUFFICES ASSUME ExecutionInv, [Next]_vars, Verified(graph), NEW t \in DOMAIN env
               PROVE  t \in DOMAIN env' /\ env'[t] = env[t]
    OBVIOUS
  <2>1. CASE RunOp
    <3>1. /\ pos \in DOMAIN graph.ops /\ graph.ops[pos] \in PlainOp
          /\ HasImplementation(graph.ops[pos]) /\ env' = Assign(env, graph.ops[pos])
      BY <2>1, RunsOnePlainOp
    <3>2. t \notin Range(Results(graph.ops[pos]))
      BY <3>1, OutputsAreNew, ResultsAreOutputs
    <3> QED  BY <3>1, <3>2, AssignAdds
  <2>2. CASE ~ RunOp
    BY <2>2, OtherStepsKeepTensors
  <2> QED  BY <2>1, <2>2
<1> QED  BY <1>1, ExecutionInvariant, PTL DEF Spec, TensorsAreStable

----------------------------------------------------------------------------
\* The op reached in a base graph, when it is not past its end.
LEMMA OpReached ==
    ASSUME ExecutionInv, AtOp
    PROVE  pos \in DOMAIN graph.ops /\ CurrentOp = graph.ops[pos]
<1>1. pos \in DOMAIN graph.ops
  <2>1. pos \in 1..(Len(graph.ops) + 1) /\ graph \in Graphs
    BY DEF ExecutionInv
  <2>2. Len(graph.ops) \in Nat /\ DOMAIN graph.ops = 1..Len(graph.ops)
    BY <2>1, BaseGraphProperties
  <2> QED  BY <2>1, <2>2 DEF AtOp
<1>2. graph.ops[pos].kind # "fused"
  BY <1>1, BaseGraphProperties DEF ExecutionInv
<1> QED  BY <1>1, <1>2 DEF CurrentOp

LEMMA StepsNeverRaise == Steps => []VerifiedNeverRaises
<1>1. Init => VerifiedNeverRaises
  BY DEF Init, VerifiedNeverRaises
<1>2. ExecutionInv /\ VerifiedNeverRaises /\ [Next]_vars => VerifiedNeverRaises'
  <2> SUFFICES ASSUME ExecutionInv, VerifiedNeverRaises, [Next]_vars,
                      graph' = graph, Verified(graph), Implemented(graph)
               PROVE  status' # "raised"
    <3>1. [Next]_vars => graph' = graph
      BY DEF Next, RunOp, Raise, Return, Terminated, vars
    <3> QED  BY <3>1 DEF VerifiedNeverRaises
  <2>1. status # "raised"
    BY DEF VerifiedNeverRaises
  <2>2. ~ Raise
    <3> SUFFICES ASSUME Raise PROVE FALSE
      OBVIOUS
    <3>1. pos \in DOMAIN graph.ops /\ ~ CanRun(graph.ops[pos])
      BY OpReached DEF Raise
    <3>2. HasImplementation(graph.ops[pos]) /\ Arguments(graph.ops[pos]) = graph.ops[pos].inputs
      BY <3>1, ImplementedOps DEF ExecutionInv
    <3>3. Range(graph.ops[pos].inputs) \subseteq DOMAIN env
      <4>1. Range(graph.ops[pos].inputs) \subseteq ProducedBefore(graph, pos)
        BY <3>1, VerifiedGives
      <4>2. ProducedBefore(graph, pos) \subseteq DOMAIN env
        BY DEF ExecutionInv, Provided, ProducedBefore
      <4> QED  BY <4>1, <4>2
    <3> QED  BY <3>1, <3>2, <3>3 DEF CanRun
  <2> QED  BY <2>1, <2>2 DEF Next, RunOp, Return, Terminated, vars
<1> QED  BY <1>1, <1>2, StepsKeepInvariant, PTL DEF Steps

\* What verify.py is for: executing a graph it accepts never fails on a
\* missing tensor, provided every op lists what its implementation uses.
THEOREM NeverRaises == Spec => []VerifiedNeverRaises
BY StepsNeverRaise, PTL DEF Spec, Steps

\* The ops before pos have read nothing that only a later op writes.
NothingReadEarly ==
    Implemented(graph) =>
        /\ \A k \in DOMAIN graph.ops : k < pos =>
              Range(graph.ops[k].inputs) \cap WrittenBy(graph.ops) \subseteq ProducedBefore(graph, k)
        /\ status = "returned" => UsedBeforeDef(graph) = {}

\* Invariant 3 is no stricter than it must be: a graph with a use-before-def
\* error never runs to its end.
THEOREM UseBeforeDefNeverReturns == Spec => []UseBeforeDefRaises
<1>1. Init /\ ExecutionInv => NothingReadEarly
  <2> SUFFICES ASSUME Init, ExecutionInv PROVE NothingReadEarly
    OBVIOUS
  <2>1. pos = 1 /\ status = "running" /\ DOMAIN graph.ops = 1..Len(graph.ops) /\ Len(graph.ops) \in Nat
    BY BaseGraphProperties DEF Init
  <2> QED  BY <2>1 DEF NothingReadEarly
<1>2. ExecutionInv /\ NothingReadEarly /\ [Next]_vars => NothingReadEarly'
  <2> SUFFICES ASSUME ExecutionInv, NothingReadEarly, [Next]_vars, Implemented(graph), graph' = graph
               PROVE  /\ \A k \in DOMAIN graph.ops : k < pos' =>
                            Range(graph.ops[k].inputs) \cap WrittenBy(graph.ops)
                                \subseteq ProducedBefore(graph, k)
                      /\ status' = "returned" => UsedBeforeDef(graph) = {}
    <3>1. [Next]_vars => graph' = graph
      BY DEF Next, RunOp, Raise, Return, Terminated, vars
    <3> QED  BY <3>1 DEF NothingReadEarly
  <2>1. /\ graph \in Graphs /\ pos \in 1..(Len(graph.ops) + 1)
        /\ Len(graph.ops) \in Nat /\ DOMAIN graph.ops = 1..Len(graph.ops)
    BY BaseGraphProperties DEF ExecutionInv
  <2>2. CASE RunOp
    <3>1. /\ pos \in DOMAIN graph.ops /\ pos' = pos + 1 /\ status' = "running"
          /\ Range(Arguments(graph.ops[pos])) \subseteq DOMAIN env
      BY <2>2, RunsOnePlainOp
    <3>2. Range(graph.ops[pos].inputs) \subseteq ProducedBefore(graph, pos)
      <4>1. Range(graph.ops[pos].inputs) \subseteq DOMAIN env
        BY <2>1, <3>1, ImplementedOps
      <4> QED  BY <4>1 DEF ExecutionInv, Provided, ProducedBefore
    <3>3. \A k \in DOMAIN graph.ops : k < pos' => k < pos \/ k = pos
      BY <2>1, <3>1
    <3> QED  BY <3>1, <3>2, <3>3 DEF NothingReadEarly
  <2>3. CASE Return
    <3>1. \A k \in DOMAIN graph.ops : k < pos
      BY <2>1, <2>3 DEF Return
    <3>2. UsedBeforeDef(graph) = {}
      <4> SUFFICES ASSUME NEW x \in UsedBeforeDef(graph) PROVE FALSE
        OBVIOUS
      <4>1. PICK k \in DOMAIN graph.ops :
               x \in {k} \X (  (Range(graph.ops[k].inputs) \cap WrittenBy(graph.ops))
                             \ ProducedBefore(graph, k))
        BY DEF UsedBeforeDef
      <4> QED  BY <3>1, <4>1 DEF NothingReadEarly
    <3> QED  BY <2>3, <3>1, <3>2 DEF NothingReadEarly, Return
  <2>4. CASE Raise \/ Terminated \/ UNCHANGED vars
    <3>1. pos' = pos /\ status' \in {status, "raised"}
      BY <2>4 DEF Raise, Terminated, vars
    <3> QED  BY <3>1 DEF NothingReadEarly
  <2> QED  BY <2>2, <2>3, <2>4 DEF Next
<1>3. NothingReadEarly => UseBeforeDefRaises
  BY DEF NothingReadEarly, UseBeforeDefRaises
<1> QED  BY <1>1, <1>2, <1>3, ExecutionInvariant, PTL DEF Spec

----------------------------------------------------------------------------
\* In an accepted graph a tensor is written by one op, at one place.
LEMMA OneProducer ==
    ASSUME NEW g \in Graphs, Verified(g),
           NEW k \in DOMAIN g.ops, NEW o \in DOMAIN g.ops[k].outputs
    PROVE  /\ Producer(g, g.ops[k].outputs[o]) = k
           /\ \A p \in DOMAIN g.ops[k].outputs :
                 g.ops[k].outputs[p] = g.ops[k].outputs[o] => p = o
<1> DEFINE t == g.ops[k].outputs[o]
<1>1. g.ops \in Seq(Range(g.ops)) /\ Len(g.ops) \in Nat /\ DOMAIN g.ops = 1..Len(g.ops)
  BY BaseGraphProperties
<1>2. MultiplyProduced(g) = {}
  BY DEF Verified, CollectGraphErrors
<1>3. t \in Range(g.ops[k].outputs)
  BY DEF Range
<1>4. ASSUME NEW i \in DOMAIN g.ops, NEW j \in DOMAIN g.ops, i < j,
             t \in Range(g.ops[i].outputs), t \in Range(g.ops[j].outputs)
      PROVE  FALSE
  <2>1. j \in 1..(Len(g.ops) + 1)
    BY <1>1
  <2>2. t \in WrittenBy(SubSeq(g.ops, 1, j - 1))
    BY <1>1, <1>4, <2>1, WrittenByPrefix
  <2> QED  BY <1>1, <1>2, <1>4, <2>2, WrittenOnce
<1>5. \A j \in DOMAIN g.ops : t \in Range(g.ops[j].outputs) => j = k
  <2> SUFFICES ASSUME NEW j \in DOMAIN g.ops, t \in Range(g.ops[j].outputs), j # k PROVE FALSE
    OBVIOUS
  <2>1. j < k \/ k < j
    BY <1>1
  <2> QED  BY <1>3, <1>4, <2>1
<1>6. Producer(g, t) = k
  BY <1>1, <1>3, <1>5 DEF Producer
<1>7. \A p \in DOMAIN g.ops[k].outputs : g.ops[k].outputs[p] = t => p = o
  <2>1. g.ops[k].outputs \in Seq(Tensor) /\ g.ops[k].outputs \in Seq(Range(g.ops[k].outputs))
    <3>1. g.ops[k].outputs \in Seq(Tensor)
      BY BaseGraphProperties
    <3> QED  BY <3>1, LenProperties, OwnRange
  <2> QED  BY <2>1, OutputsDiffer
<1> QED  BY <1>6, <1>7

\* An equation that holds of some tensors still holds when more are present.
LEMMA EquationsPersist ==
    ASSUME NEW g, NEW e, NEW f, NEW t \in DOMAIN e,
           DOMAIN e \subseteq DOMAIN f, \A u \in DOMAIN e : f[u] = e[u], Solves(e, g, t)
    PROVE  Solves(f, g, t)
<1>1. CASE t \notin WrittenBy(g.ops)
  BY <1>1, SMTT(30) DEF Solves
<1>2. CASE t \in WrittenBy(g.ops)
  <2> DEFINE op == g.ops[Producer(g, t)]
             k == CHOOSE m \in DOMAIN op.outputs : op.outputs[m] = t
  <2>1. /\ Range(op.inputs) \subseteq DOMAIN e
        /\ e[t] = Compute(op.kind, op.attrs.param, [j \in DOMAIN op.inputs |-> e[op.inputs[j]]], k)
    BY <1>2, SMTT(30) DEF Solves
  <2>2. [j \in DOMAIN op.inputs |-> e[op.inputs[j]]] = [j \in DOMAIN op.inputs |-> f[op.inputs[j]]]
    BY <2>1, SMTT(30) DEF Range
  <2>3. /\ Range(op.inputs) \subseteq DOMAIN f
        /\ f[t] = Compute(op.kind, op.attrs.param, [j \in DOMAIN op.inputs |-> f[op.inputs[j]]], k)
    BY <2>1, <2>2
  <2> QED  BY <1>2, <2>3, SMTT(30) DEF Solves
<1> QED  BY <1>1, <1>2

\* An op that assigns all its outputs, new names all of them, only adds.
LEMMA OnlyAdds ==
    ASSUME NEW e, NEW op, Results(op) = op.outputs, Range(op.outputs) \cap DOMAIN e = {}
    PROVE  /\ DOMAIN Assign(e, op) = DOMAIN e \cup Range(op.outputs)
           /\ \A u \in DOMAIN e : Assign(e, op)[u] = e[u]
<1>1. /\ DOMAIN Assign(e, op) = DOMAIN e \cup Range(Results(op))
      /\ \A u \in DOMAIN e \ Range(Results(op)) : Assign(e, op)[u] = e[u]
  BY AssignAdds
<1>2. \A u \in DOMAIN e : u \in DOMAIN e \ Range(op.outputs)
  OBVIOUS
<1> QED  BY <1>1, <1>2

\* Running an op solves the equations of its outputs.
LEMMA OutputsSolved ==
    ASSUME NEW g \in Graphs, Verified(g), Implemented(g), NEW k \in DOMAIN g.ops,
           NEW e, Range(g.ops[k].inputs) \subseteq DOMAIN e,
           Range(g.ops[k].outputs) \cap DOMAIN e = {},
           NEW t \in Range(g.ops[k].outputs)
    PROVE  Solves(Assign(e, g.ops[k]), g, t)
<1> DEFINE op == g.ops[k]
           f == Assign(e, op)
           args == [j \in DOMAIN op.inputs |-> e[op.inputs[j]]]
<1>1. Arguments(op) = op.inputs /\ Results(op) = op.outputs
  BY ImplementedOps
<1>2. PICK o \in DOMAIN op.outputs : op.outputs[o] = t
  BY DEF Range
<1>3. /\ Producer(g, t) = k
      /\ \A p \in DOMAIN op.outputs : op.outputs[p] = t => p = o
  BY <1>2, OneProducer
<1>4. DOMAIN op.outputs \subseteq Nat
  BY BaseGraphProperties, LenProperties
<1>5. (CHOOSE p \in DOMAIN op.outputs :
          /\ op.outputs[p] = t
          /\ \A j \in DOMAIN op.outputs : op.outputs[j] = t => j <= p) = o
  BY <1>2, <1>3, <1>4
<1>6. (CHOOSE p \in DOMAIN op.outputs : op.outputs[p] = t) = o
  BY <1>2, <1>3
<1>7. f[t] = Compute(op.kind, op.attrs.param, args, o)
  BY <1>1, <1>5 DEF Assign
<1>8. DOMAIN f = DOMAIN e \cup Range(op.outputs) /\ \A u \in DOMAIN e : f[u] = e[u]
  BY <1>1, OnlyAdds
<1>9. args = [j \in DOMAIN op.inputs |-> f[op.inputs[j]]]
  BY <1>8 DEF Range
<1>10. t \in WrittenBy(g.ops)
  BY SMTT(30) DEF WrittenBy
<1> HIDE DEF f, args
<1>11. Solves(f, g, t)
  BY <1>3, <1>6, <1>7, <1>8, <1>9, <1>10 DEF Solves
<1> QED  BY <1>11 DEF f

LEMMA StepsSolveEquations == Steps => []TensorsSolveEquations
<1>1. Init => TensorsSolveEquations
  <2> SUFFICES ASSUME Init, NEW t \in DOMAIN env PROVE Solves(env, graph, t) \/ ~ Verified(graph)
    BY DEF TensorsSolveEquations
  <2>1. graph \in Graphs /\ t \in Provided(graph) /\ env[t] = Given(t)
    BY DEF Init, InitialTensors, Provided
  <2>2. ASSUME Verified(graph) PROVE t \notin WrittenBy(graph.ops)
    <3> SUFFICES ASSUME t \in WrittenBy(graph.ops) PROVE FALSE
      OBVIOUS
    <3>1. PICK k \in DOMAIN graph.ops : t \in Range(graph.ops[k].outputs)
      BY DEF WrittenBy
    <3>2. t \in Range(graph.graph_inputs)
      BY <2>1 DEF Provided, External
    <3>3. <<k, t>> \in RedefinedInputs(graph)
      BY <3>1, <3>2 DEF RedefinedInputs
    <3> QED  BY <2>2, <3>3 DEF Verified, CollectGraphErrors
  <2> QED  BY <2>1, <2>2 DEF Solves
<1>2. ExecutionInv /\ TensorsSolveEquations /\ [Next]_vars => TensorsSolveEquations'
  <2> SUFFICES ASSUME ExecutionInv, TensorsSolveEquations, [Next]_vars,
                      graph' = graph, Verified(graph), Implemented(graph), NEW t \in DOMAIN env'
               PROVE  Solves(env', graph, t)
    <3>1. [Next]_vars => graph' = graph
      BY DEF Next, RunOp, Raise, Return, Terminated, vars
    <3> QED  BY <3>1 DEF TensorsSolveEquations
  <2>1. \A u \in DOMAIN env : Solves(env, graph, u)
    BY DEF TensorsSolveEquations
  <2>2. CASE RunOp
    <3>1. /\ graph \in Graphs /\ pos \in DOMAIN graph.ops
          /\ Range(Arguments(graph.ops[pos])) \subseteq DOMAIN env
          /\ env' = Assign(env, graph.ops[pos])
      BY <2>2, RunsOnePlainOp DEF ExecutionInv
    <3>2. /\ Arguments(graph.ops[pos]) = graph.ops[pos].inputs
          /\ Results(graph.ops[pos]) = graph.ops[pos].outputs
      BY <3>1, ImplementedOps
    <3>3. Range(graph.ops[pos].outputs) \cap DOMAIN env = {}
      BY <3>1, OutputsAreNew
    <3>4. /\ DOMAIN env' = DOMAIN env \cup Range(graph.ops[pos].outputs)
          /\ \A u \in DOMAIN env : env'[u] = env[u]
      BY <3>1, <3>2, <3>3, OnlyAdds, Zenon
    <3>5. CASE t \in DOMAIN env
      BY <2>1, <3>4, <3>5, EquationsPersist
    <3>6. CASE t \in Range(graph.ops[pos].outputs)
      <4>1. Solves(Assign(env, graph.ops[pos]), graph, t)
        BY <3>1, <3>2, <3>3, <3>6, OutputsSolved
      <4> QED  BY <3>1, <4>1
    <3> QED  BY <3>4, <3>5, <3>6
  <2>3. CASE ~ RunOp
    <3>1. env' = env
      BY <2>3, OtherStepsKeepTensors
    <3> QED  BY <2>1, <3>1
  <2> QED  BY <2>2, <2>3
<1> QED  BY <1>1, <1>2, StepsKeepInvariant, PTL DEF Steps

\* Running an accepted graph in list order solves it as a system of
\* equations, in which no order of execution occurs: each tensor present has
\* the value its producer makes of the values its producer's inputs have.
THEOREM SolvesEquations == Spec => []TensorsSolveEquations
BY StepsSolveEquations, PTL DEF Spec, Steps
=============================================================================

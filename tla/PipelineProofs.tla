--------------------------- MODULE PipelineProofs ---------------------------
(***************************************************************************)
(* What the passes of DrakeEngine.__init__ and a step guarantee together,  *)
(* for every set of base graphs, every list of patterns and every          *)
(* interpretation of the ops.                                              *)
(***************************************************************************)
EXTENDS Pipeline, FusionProofs

----------------------------------------------------------------------------
(***************************************************************************)
(* The scan of the pipeline is the fusion pass's own.                      *)
(***************************************************************************)

\* Looking up the results changes nothing else.
LEMMA QuietSteps ==
    ASSUME ReadResults \/ UNCHANGED allVars
    PROVE  UNCHANGED engineVars
BY DEF ReadResults, allVars, engineVars

LEMMA PipelineScans == PipelineSpec => ScanSpec
<1>1. PipelineInit => Init
  BY DEF PipelineInit
<1>2. [PipelineNext]_allVars => [ScanNext]_vars
  <2>1. FuseOps => ScanNext
    BY DEF FuseOps, Fuse, KeepOp, FuseWindow, IsFirstMatch, ScanNext
  <2>2. StartDce \/ EliminateDeadCode \/ StartCse \/ EliminateCommonSubexpressions
           \/ StartStep \/ ExecuteStep => UNCHANGED vars
    BY DEF StartDce, EliminateDeadCode, StartCse, EliminateCommonSubexpressions, StartStep,
           ExecuteStep, vars
  <2>3. ReadResults \/ UNCHANGED allVars => UNCHANGED vars
    BY QuietSteps DEF engineVars, vars
  <2> QED  BY <2>1, <2>2, <2>3 DEF PipelineNext
<1> QED  BY <1>1, <1>2, PTL DEF PipelineSpec, ScanSpec

LEMMA ScanStaysRight == PipelineSpec => []ScanInv
<1>1. TypeOK /\ GraphAccepted /\ ResultInOrder /\ FusedGraphVerifies /\ InterfaceExact
         /\ ExecutionOrderPreserved => ScanInv
  BY DEF ScanInv
<1> QED  BY <1>1, PipelineScans, ScanTypeCorrect, GraphStaysAccepted, ResultStaysInOrder,
            ScanAccepted, ScanInterfaces, ScanKeepsOrder, PTL

LEMMA ScanAccounts == PipelineSpec => [](ScanAccount /\ FusedNamesIdentify)
<1>1. Init => ScanAccount
  <2> SUFFICES ASSUME Init PROVE ScanAccount
    OBVIOUS
  <2>1. new_ops = <<>> /\ records = <<>> /\ i = 1 /\ DOMAIN <<>> = {}
    BY EmptySeq DEF Init
  <2>2. Weighed(OpRuns, <<>>) = 0 /\ 1 - 1 = 0
    BY WeighNothing
  <2> QED  BY <2>1, <2>2 DEF ScanAccount, RecordsName, RunsAddUp
<1>2. TypeOK /\ GraphAccepted /\ ScanAccount /\ [ScanNext]_vars => ScanAccount'
  BY RecordsKeepNaming, RunsKeepAddingUp DEF ScanAccount
<1> QED  BY <1>1, <1>2, PipelineScans, ScanTypeCorrect, GraphStaysAccepted, ScanNamesIdentify, PTL
            DEF ScanSpec

LEMMA FusesMatches == PipelineSpec => []FusedWhereMatched
<1>1. Init => FusedWhereMatched
  BY EmptySeq DEF Init, FusedWhereMatched
<1>2. TypeOK /\ FusedWhereMatched /\ [ScanNext]_vars => FusedWhereMatched'
  BY ScanKeepsMatches
<1>3. ScanSpec => []FusedWhereMatched
  BY <1>1, <1>2, ScanTypeCorrect, PTL DEF ScanSpec
<1> QED  BY <1>3, PipelineScans, PTL

----------------------------------------------------------------------------
(***************************************************************************)
(* The values the base graph computes.  The fold of BaseValues, as a       *)
(* function on the sets of positions, is an execution of its ops in order. *)
(***************************************************************************)

ValuesOf(g) == FoldLeft(Base!Assign, Base!InitialTensors(g), g.ops)

IsRun(iter, g, S) ==
    iter = [s \in SUBSET S |->
               IF s = {} THEN Base!InitialTensors(g)
               ELSE Base!Assign(iter[s \ {Max(s)}], g.ops[Max(s)])]

LEMMA RunStep ==
    ASSUME NEW S \in FinitePositions, NEW g, NEW iter, IsRun(iter, g, S), NEW s \in SUBSET S
    PROVE  /\ s = {} => iter[s] = Base!InitialTensors(g)
           /\ s # {} => Max(s) \in s /\ iter[s] = Base!Assign(iter[s \ {Max(s)}], g.ops[Max(s)])
<1>1. s # {} => Max(s) \in s
  BY PartOfPositions, LastPosition
<1> QED  BY <1>1 DEF IsRun

\* Two such executions agree wherever both are defined,
LEMMA RunsAgree ==
    ASSUME NEW A \in FinitePositions, NEW B \in FinitePositions, NEW g, NEW e, NEW f,
           IsRun(e, g, A), IsRun(f, g, B), NEW s \in SUBSET A, s \subseteq B
    PROVE  e[s] = f[s]
<1> DEFINE F == {k \in SUBSET A : k \subseteq B /\ e[k] # f[k]}
<1> SUFFICES ASSUME F # {} PROVE FALSE
  OBVIOUS
<1>1. PICK m \in F : \A k \in F : k \subseteq m => k = m
  <2>1. F \in SUBSET SUBSET A
    OBVIOUS
  <2> HIDE DEF F
  <2> QED  BY <2>1, PartOfPositions, LeastSet
<1>2. m \in SUBSET A /\ m \in SUBSET B /\ e[m] # f[m]
  OBVIOUS
<1>3. m # {}
  <2> HIDE DEF F
  <2>1. m = {} => e[m] = Base!InitialTensors(g)
    BY <1>2, RunStep
  <2>2. m = {} => f[m] = Base!InitialTensors(g)
    BY <1>2, RunStep
  <2> QED  BY <1>2, <2>1, <2>2
<1>4. /\ Max(m) \in m
      /\ e[m] = Base!Assign(e[m \ {Max(m)}], g.ops[Max(m)])
      /\ f[m] = Base!Assign(f[m \ {Max(m)}], g.ops[Max(m)])
  <2> HIDE DEF F
  <2>1. Max(m) \in m /\ e[m] = Base!Assign(e[m \ {Max(m)}], g.ops[Max(m)])
    BY <1>2, <1>3, RunStep
  <2>2. f[m] = Base!Assign(f[m \ {Max(m)}], g.ops[Max(m)])
    BY <1>2, <1>3, RunStep
  <2> QED  BY <2>1, <2>2
<1>5. e[m \ {Max(m)}] = f[m \ {Max(m)}]
  BY <1>1, <1>4
<1> QED  BY <1>2, <1>4, <1>5

\* and there is one of every graph.
LEMMA RunExists ==
    ASSUME NEW S \in FinitePositions, NEW g
    PROVE  \E iter : IsRun(iter, g, S)
<1> DEFINE F == {k \in SUBSET S : ~ \E iter : IsRun(iter, g, k)}
<1> SUFFICES ASSUME F # {} PROVE FALSE
  OBVIOUS
<1>1. PICK m \in F : \A k \in F : k \subseteq m => k = m
  <2>1. F \in SUBSET SUBSET S
    OBVIOUS
  <2> HIDE DEF F
  <2> QED  BY <2>1, PartOfPositions, LeastSet
<1>2. ASSUME NEW k \in SUBSET m, k # m
      PROVE  IsRun(CHOOSE iter : IsRun(iter, g, k), g, k)
  BY <1>1, <1>2
<1> DEFINE run(k) == CHOOSE iter : IsRun(iter, g, k)
           rest(k) == k \ {Max(k)}
           whole == [k \in SUBSET m |->
                       IF k = m
                       THEN IF m = {} THEN Base!InitialTensors(g)
                            ELSE Base!Assign(run(rest(m))[rest(m)], g.ops[Max(m)])
                       ELSE run(k)[k]]
<1>3. \A k \in SUBSET m : k \in FinitePositions /\ (k # {} => Max(k) \in k)
  BY PartOfPositions, LastPosition
<1>4. ASSUME NEW k \in SUBSET m
      PROVE  whole[k] = IF k = {} THEN Base!InitialTensors(g)
                        ELSE Base!Assign(whole[rest(k)], g.ops[Max(k)])
  <2>1. CASE k = m
    <3>1. k # {} => rest(k) # m /\ rest(k) \in SUBSET m
      BY <1>3, <2>1
    <3> HIDE DEF run
    <3> QED  BY <2>1, <3>1
  <2>2. CASE k # m
    <3>1. whole[k] = run(k)[k]
      BY <2>2
    <3>2. IsRun(run(k), g, k)
      BY <1>2, <2>2
    <3>3. CASE k = {}
      <4> HIDE DEF run, whole
      <4> QED BY <1>3, <3>1, <3>2, <3>3, RunStep
    <3>4. CASE k # {}
      <4> DEFINE j == rest(k)
      <4>1. j \in SUBSET m /\ j # m /\ j \in SUBSET k
        BY <1>3, <2>2, <3>4
      <4>2. whole[j] = run(j)[j]
        BY <4>1
      <4>3. IsRun(run(j), g, j)
        BY <1>2, <4>1
      <4> HIDE DEF run, whole
      <4>4. run(k)[k] = Base!Assign(run(k)[j], g.ops[Max(k)])
        <5>1. k \in SUBSET k
          OBVIOUS
        <5> QED  BY <1>3, <3>2, <3>4, <5>1, RunStep
      <4>5. run(k)[j] = run(j)[j]
        <5> HIDE DEF j
        <5>1. j \subseteq j
          OBVIOUS
        <5>2. k \in FinitePositions /\ j \in FinitePositions
          BY <1>3, <4>1
        <5> QED  BY <3>2, <4>1, <4>3, <5>1, <5>2, RunsAgree
      <4> QED  BY <3>1, <3>4, <4>2, <4>4, <4>5
    <3> QED  BY <3>3, <3>4
  <2> QED  BY <2>1, <2>2
<1>5. whole = [k \in SUBSET m |-> whole[k]]
  OBVIOUS
<1>6. IsRun(whole, g, m)
  <2> HIDE DEF whole
  <2> QED  BY <1>4, <1>5 DEF IsRun
<1> QED  BY <1>6

\* So there is a list of environments, one after each op.
IsTrace(trace, g) ==
    /\ trace[0] = Base!InitialTensors(g)
    /\ \A k \in DOMAIN g.ops : trace[k] = Base!Assign(trace[k - 1], g.ops[k])
    /\ trace[Len(g.ops)] = ValuesOf(g)

LEMMA TraceExists ==
    ASSUME NEW g, g.ops \in Seq(Range(g.ops))
    PROVE  \E trace : IsTrace(trace, g)
<1> DEFINE n == Len(g.ops)
           S == DOMAIN g.ops
           iter == CHOOSE it : it = [s \in SUBSET S |->
                      IF s = {} THEN Base!InitialTensors(g)
                      ELSE Base!Assign(it[s \ {Max(s)}], g.ops[Max(s)])]
           trace == [k \in 0..n |-> iter[1..k]]
<1>1. n \in Nat /\ S = 1..n
  BY PositionsOfList
<1>2. S \in FinitePositions
  BY <1>1, PositionsCounted DEF FinitePositions
<1>3. IsRun(iter, g, S)
  <2>1. PICK some : IsRun(some, g, S)
    <3> HIDE DEF S
    <3> QED  BY <1>2, RunExists
  <2> QED  BY <2>1 DEF IsRun
<1>4. ValuesOf(g) = iter[S]
  BY DEF ValuesOf, FoldLeft, MapThenFoldSet
<1> HIDE DEF S, iter, n
<1>5. ASSUME NEW k \in 0..n
      PROVE  1..k \in SUBSET S /\ trace[k] = iter[1..k]
  BY <1>1
<1>6. trace[0] = Base!InitialTensors(g)
  <2>1. 1..0 = {} /\ 0 \in 0..n
    BY <1>1
  <2> QED  BY <1>2, <1>3, <1>5, <2>1, RunStep, Zenon
<1>7. ASSUME NEW k \in S
      PROVE  trace[k] = Base!Assign(trace[k - 1], g.ops[k])
  <2>1. k \in 1..n /\ k \in 0..n /\ k - 1 \in 0..n /\ k \in Nat
    BY <1>1
  <2>2. k \in 1..k /\ 1..k # {} /\ (1..k) \ {k} = 1..(k - 1)
    <3>1. k \in 1..k /\ \A x \in Int : x \in (1..k) /\ x # k <=> x \in 1..(k - 1)
      BY <2>1
    <3> QED  BY <3>1
  <2>3. Max(1..k) = k
    <3>1. 1..k \in FinitePositions
      BY <1>2, <1>5, <2>1, PartOfPositions
    <3>2. Max(1..k) \in 1..k /\ k <= Max(1..k)
      BY <2>2, <3>1, LastPosition
    <3> QED  BY <2>1, <3>2
  <2>4. iter[1..k] = Base!Assign(iter[(1..k) \ {k}], g.ops[k])
    <3>1. 1..k \in SUBSET S
      BY <1>5, <2>1
    <3>2. ASSUME NEW s, s = 1..k
          PROVE  iter[s] = Base!Assign(iter[s \ {Max(s)}], g.ops[Max(s)])
      <4>1. s \in SUBSET S /\ s # {}
        BY <2>2, <3>1, <3>2
      <4> HIDE DEF trace
      <4> QED  BY <1>2, <1>3, <4>1, RunStep
    <3> HIDE DEF trace
    <3> QED  BY <2>3, <3>2
  <2> HIDE DEF trace
  <2> QED  BY <1>5, <2>1, <2>2, <2>4
<1>8. trace[n] = ValuesOf(g)
  BY <1>1, <1>4, <1>5
<1> HIDE DEF trace
<1> QED  BY <1>6, <1>7, <1>8 DEF IsTrace, S, n

\* An op whose lists are just as long as its implementation wants them.
Exact(op) ==
    /\ op.inputs \in Seq(Range(op.inputs)) /\ op.outputs \in Seq(Range(op.outputs))
    /\ op.kind \in DOMAIN Base!NumInputs
    /\ Len(op.inputs) = Base!NumInputs[op.kind] /\ Len(op.outputs) = Base!NumOutputs[op.kind]
    /\ op.kind = "rope" => op.attrs.param \in Base!StepDims
    /\ \A j, k \in DOMAIN op.outputs : op.outputs[j] = op.outputs[k] => j = k

LEMMA ExactOps ==
    ASSUME NEW op, Exact(op)
    PROVE  /\ Base!HasImplementation(op)
           /\ Base!Arguments(op) = op.inputs
           /\ Base!Results(op) = op.outputs
<1>1. Base!Arguments(op) = op.inputs /\ Base!Results(op) = op.outputs
  BY AllOfIt DEF Exact, Base!Arguments, Base!Results
<1>2. Base!NumInputs["kv_cache_update"] = 4 /\ \A kind \in DOMAIN Base!NumInputs :
         Base!NumInputs[kind] \in Nat /\ Base!NumOutputs[kind] \in Nat
  BY DEF Base!NumInputs, Base!NumOutputs
<1>3. Base!HasImplementation(op)
  BY <1>2 DEF Exact, Base!HasImplementation
<1> QED  BY <1>1, <1>3

LEMMA AssignExact ==
    ASSUME NEW op, Exact(op), NEW e
    PROVE  /\ DOMAIN Base!Assign(e, op) = DOMAIN e \cup Range(op.outputs)
           /\ \A t \in DOMAIN e \ Range(op.outputs) : Base!Assign(e, op)[t] = e[t]
           /\ \A o \in DOMAIN op.outputs :
                 Base!Assign(e, op)[op.outputs[o]]
                    = Compute(op.kind, op.attrs.param,
                              [j \in DOMAIN op.inputs |-> e[op.inputs[j]]], o)
<1> DEFINE LastAt(t) == CHOOSE k \in DOMAIN Base!Results(op) :
                            /\ Base!Results(op)[k] = t
                            /\ \A j \in DOMAIN Base!Results(op) : Base!Results(op)[j] = t => j <= k
           args == [j \in DOMAIN Base!Arguments(op) |-> e[Base!Arguments(op)[j]]]
<1>1. \A f : Base!Range(f) = Range(f)
  BY DEF Base!Range, Range
<1>2. Base!Assign(e, op) = [t \in DOMAIN e \cup Base!Range(Base!Results(op)) |->
                               IF t \in Base!Range(Base!Results(op))
                               THEN Compute(op.kind, op.attrs.param, args, LastAt(t))
                               ELSE e[t]]
  BY DEF Base!Assign
<1>3. ASSUME NEW o \in DOMAIN op.outputs PROVE LastAt(op.outputs[o]) = o
  <2>1. DOMAIN op.outputs = 1..Len(op.outputs) /\ Len(op.outputs) \in Nat
    BY PositionsOfList DEF Exact
  <2>2. \A k \in DOMAIN op.outputs : op.outputs[k] = op.outputs[o] => k = o
    BY DEF Exact
  <2>3. o <= o /\ \A j \in DOMAIN op.outputs : op.outputs[j] = op.outputs[o] => j <= o
    BY <2>1, <2>2
  <2>4. Base!Results(op) = op.outputs
    BY ExactOps
  <2> QED  BY <2>2, <2>3, <2>4
<1>4. \A o \in DOMAIN op.outputs : op.outputs[o] \in Range(op.outputs)
  BY DEF Range
<1> HIDE DEF LastAt, args
<1>a. Base!Range(Base!Results(op)) = Range(op.outputs)
  BY <1>1, ExactOps
<1>5. \A o \in DOMAIN op.outputs :
         Base!Assign(e, op)[op.outputs[o]] = Compute(op.kind, op.attrs.param, args, o)
  BY <1>2, <1>3, <1>4, <1>a
<1>6. /\ DOMAIN Base!Assign(e, op) = DOMAIN e \cup Range(op.outputs)
      /\ \A t \in DOMAIN e \ Range(op.outputs) : Base!Assign(e, op)[t] = e[t]
  BY <1>2, <1>a
<1>7. args = [j \in DOMAIN op.inputs |-> e[op.inputs[j]]]
  BY ExactOps DEF args
<1> QED  BY <1>5, <1>6, <1>7

\* What an assignment leaves alone.
LEMMA AssignKeeps ==
    ASSUME NEW op, Exact(op), NEW e, NEW t \in DOMAIN e, t \notin Range(op.outputs)
    PROVE  t \in DOMAIN Base!Assign(e, op) /\ Base!Assign(e, op)[t] = e[t]
<1>1. \A f : Base!Range(f) = Range(f)
  BY DEF Base!Range, Range
<1>2. Base!Range(Base!Results(op)) = Range(op.outputs)
  BY <1>1, ExactOps
<1>3. t \notin Base!Range(Base!Results(op))
  BY <1>2
<1> QED  BY <1>3 DEF Base!Assign

\* In an implemented graph every op is exact.
LEMMA ImplementedExact ==
    ASSUME NEW g \in Graphs, Verified(g), Base!Implemented(g), NEW k \in DOMAIN g.ops
    PROVE  Exact(g.ops[k])
<1> DEFINE op == g.ops[k]
<1>1. g.ops \in Seq(PlainOp) /\ g.ops[k] \in PlainOp /\ g.ops \in Seq(Range(g.ops))
  BY GraphsAssumption, OwnRange, LenProperties, ElementOfSeq DEF IsBaseGraph
<1>2. op.inputs \in Seq(Range(op.inputs)) /\ op.outputs \in Seq(Range(op.outputs))
  BY <1>1, PlainLists
<1>3. /\ Base!HasImplementation(op) /\ Base!Arguments(op) = op.inputs
      /\ Base!Results(op) = op.outputs
  <2>1. Base!SubOps(op) = <<op>>
    <3>1. SubOps(op) = <<op>>
      BY <1>1, OneOpWindow
    <3> QED  BY <3>1 DEF Base!SubOps, SubOps
  <2>2. 1 \in DOMAIN <<op>> /\ <<op>>[1] = op
    OBVIOUS
  <2> QED  BY <2>1, <2>2 DEF Base!Implemented
<1>4. ASSUME NEW s, s \in Seq(Range(s)), NEW n \in Nat, n <= Len(s), SubSeq(s, 1, n) = s
      PROVE  Len(s) = n
  <2>1. Len(SubSeq(s, 1, n)) = n
    <3>1. Len(s) \in Nat
      BY <1>4, PositionsOfList
    <3>2. 1 \in 1..(Len(s) + 1) /\ n \in 0..Len(s) /\ (n - 1) + 1 = n
      BY <1>4, <3>1
    <3> QED  BY <1>4, <3>1, <3>2, SubSeqProperties
  <2> QED  BY <1>4, <2>1
<1>5. \A kind \in DOMAIN Base!NumInputs :
         Base!NumInputs[kind] \in Nat /\ Base!NumOutputs[kind] \in Nat
  BY DEF Base!NumInputs, Base!NumOutputs
<1>6. /\ op.kind \in DOMAIN Base!NumInputs
      /\ Base!NumInputs[op.kind] <= Len(op.inputs) /\ Base!NumOutputs[op.kind] <= Len(op.outputs)
      /\ op.kind = "rope" => op.attrs.param \in Base!StepDims
  <2>1. Len(op.inputs) \in Nat /\ Len(op.outputs) \in Nat
    BY <1>2, PositionsOfList
  <2>2. /\ op.kind \in DOMAIN Base!NumInputs
        /\ Len(op.inputs) >= Base!NumInputs[op.kind] /\ Len(op.outputs) >= Base!NumOutputs[op.kind]
        /\ op.kind = "rope" => op.attrs.param \in Base!StepDims
    BY <1>3 DEF Base!HasImplementation
  <2> QED  BY <1>5, <2>1, <2>2
<1>7. Len(op.inputs) = Base!NumInputs[op.kind] /\ Len(op.outputs) = Base!NumOutputs[op.kind]
  <2>1. SubSeq(op.inputs, 1, Base!NumInputs[op.kind]) = op.inputs
    BY <1>3 DEF Base!Arguments
  <2>2. SubSeq(op.outputs, 1, Base!NumOutputs[op.kind]) = op.outputs
    BY <1>3 DEF Base!Results
  <2> QED  BY <1>2, <1>4, <1>5, <1>6, <2>1, <2>2
<1>8. \A j, m \in DOMAIN op.outputs : op.outputs[j] = op.outputs[m] => j = m
  BY <1>1, <1>2, OutputsDiffer
<1> QED  BY <1>2, <1>6, <1>7, <1>8 DEF Exact

\* The environment after each op of an accepted graph has what was provided
\* and what the ops so far have written,
LEMMA TraceDomain ==
    ASSUME NEW g \in Graphs, Verified(g), Base!Implemented(g), NEW trace, IsTrace(trace, g),
           NEW k \in 0..Len(g.ops)
    PROVE  DOMAIN trace[k] = Range(g.graph_inputs) \cup External(g)
                               \cup WrittenBy(SubSeq(g.ops, 1, (k + 1) - 1))
<1> DEFINE n == Len(g.ops)
           Given0 == Range(g.graph_inputs) \cup External(g)
           Good(m) == DOMAIN trace[m] = Given0 \cup WrittenBy(SubSeq(g.ops, 1, (m + 1) - 1))
           T == {m \in 0..n : ~ Good(m)}
<1>1. g.ops \in Seq(Range(g.ops)) /\ n \in Nat /\ DOMAIN g.ops = 1..n
  <2>1. g.ops \in Seq(PlainOp)
    BY GraphsAssumption DEF IsBaseGraph
  <2> QED  BY <2>1, OwnRange, PositionsOfList
<1>2. Good(0)
  <2>1. trace[0] = Base!InitialTensors(g)
    BY DEF IsTrace
  <2>2. Base!External(g) = External(g) /\ \A f : Base!Range(f) = Range(f)
    BY DEF Base!External, External, Base!WrittenBy, WrittenBy, Base!Range, Range
  <2>3. DOMAIN trace[0] = Given0
    BY <2>1, <2>2 DEF Base!InitialTensors
  <2>4. WrittenBy(SubSeq(g.ops, 1, (0 + 1) - 1)) = {}
    <3>1. 0 + 1 \in 1..(Len(g.ops) + 1) /\ \A m \in DOMAIN g.ops : ~ (m < 0 + 1)
      BY <1>1
    <3> QED  BY <1>1, <3>1, PrefixWriters
  <2> QED  BY <2>3, <2>4
<1>3. ASSUME NEW m \in DOMAIN g.ops, Good(m - 1)
      PROVE  Good(m)
  <2>1. trace[m] = Base!Assign(trace[m - 1], g.ops[m])
    BY DEF IsTrace
  <2>2. Exact(g.ops[m])
    BY ImplementedExact
  <2>3. DOMAIN trace[m] = DOMAIN trace[m - 1] \cup Range(g.ops[m].outputs)
    BY <2>1, <2>2, AssignExact
  <2>4. WrittenBy(SubSeq(g.ops, 1, (m + 1) - 1))
          = WrittenBy(SubSeq(g.ops, 1, m - 1)) \cup Range(g.ops[m].outputs)
    BY <1>1, NextPrefix
  <2>5. ((m - 1) + 1) - 1 = m - 1
    BY <1>1
  <2> HIDE DEF Given0
  <2> QED  BY <1>3, <2>3, <2>4, <2>5
<1> HIDE DEF Good
<1>4. T = {}
  <2> SUFFICES ASSUME T # {} PROVE FALSE
    OBVIOUS
  <2>1. T \in SUBSET Nat
    BY <1>1
  <2>2. PICK m \in T : \A j \in T : m <= j
    <3> HIDE DEF T
    <3> QED  BY <2>1, LeastNat
  <2>3. m \in 0..n /\ ~ Good(m) /\ m # 0
    BY <1>2
  <2>4. m \in DOMAIN g.ops /\ m - 1 \in 0..n /\ ~ (m <= m - 1)
    BY <1>1, <2>3
  <2>5. Good(m - 1)
    BY <2>2, <2>4
  <2> QED  BY <1>3, <2>3, <2>4, <2>5
<1>5. Good(k)
  BY <1>4
<1> QED  BY <1>5 DEF Good

\* and keeps the values it had: no op writes what is there already.
LEMMA TraceKeeps ==
    ASSUME NEW g \in Graphs, Verified(g), Base!Implemented(g), NEW trace, IsTrace(trace, g),
           NEW j \in 0..Len(g.ops), NEW t \in DOMAIN trace[j]
    PROVE  \A k \in 0..Len(g.ops) : j <= k => t \in DOMAIN trace[k] /\ trace[k][t] = trace[j][t]
<1> DEFINE n == Len(g.ops)
           Good(m) == j <= m => t \in DOMAIN trace[m] /\ trace[m][t] = trace[j][t]
           T == {m \in 0..n : ~ Good(m)}
<1>1. g.ops \in Seq(Range(g.ops)) /\ n \in Nat /\ DOMAIN g.ops = 1..n /\ j \in Nat
  <2>1. g.ops \in Seq(PlainOp)
    BY GraphsAssumption DEF IsBaseGraph
  <2> QED  BY <2>1, OwnRange, PositionsOfList
<1>2. ASSUME NEW m \in DOMAIN g.ops, Good(m - 1), j <= m
      PROVE  Good(m)
  <2>1. CASE j = m
    BY <2>1
  <2>2. CASE j # m
    <3>1. j <= m - 1 /\ m - 1 \in 0..n /\ ((m - 1) + 1) - 1 = m - 1
      BY <1>1, <1>2, <2>2
    <3>2. t \in DOMAIN trace[m - 1] /\ trace[m - 1][t] = trace[j][t]
      BY <1>2, <3>1
    <3>3. trace[m] = Base!Assign(trace[m - 1], g.ops[m]) /\ Exact(g.ops[m])
      BY ImplementedExact DEF IsTrace
    <3>4. t \notin Range(g.ops[m].outputs)
      <4>1. DOMAIN trace[m - 1] = Range(g.graph_inputs) \cup External(g)
                                    \cup WrittenBy(SubSeq(g.ops, 1, ((m - 1) + 1) - 1))
        BY <3>1, TraceDomain
      <4>2. Range(g.ops[m].outputs) \cap WrittenBy(SubSeq(g.ops, 1, m - 1)) = {}
        BY <1>1, WrittenOnce DEF Verified, CollectGraphErrors
      <4>3. Range(g.ops[m].outputs) \cap Range(g.graph_inputs) = {}
        BY VerifiedGives
      <4>4. Range(g.ops[m].outputs) \cap External(g) = {}
        BY DEF External, WrittenBy
      <4> QED  BY <3>1, <3>2, <4>1, <4>2, <4>3, <4>4
    <3>5. t \in DOMAIN trace[m] /\ trace[m][t] = trace[m - 1][t]
      <4> DEFINE op == g.ops[m]
                 e == trace[m - 1]
      <4>1. Exact(op) /\ t \in DOMAIN e /\ t \notin Range(op.outputs) /\ trace[m] = Base!Assign(e, op)
        BY <3>2, <3>3, <3>4
      <4> HIDE DEF op, e
      <4>2. t \in DOMAIN Base!Assign(e, op) /\ Base!Assign(e, op)[t] = e[t]
        BY <4>1, AssignKeeps
      <4>4. t \in DOMAIN trace[m] /\ trace[m][t] = e[t]
        BY <4>1, <4>2
      <4> QED  BY <4>4 DEF e
    <3> QED  BY <3>2, <3>5
  <2> QED  BY <2>1, <2>2
<1> HIDE DEF Good
<1>3. T = {}
  <2> SUFFICES ASSUME T # {} PROVE FALSE
    OBVIOUS
  <2>1. T \in SUBSET Nat
    BY <1>1
  <2>2. PICK m \in T : \A l \in T : m <= l
    <3> HIDE DEF T
    <3> QED  BY <2>1, LeastNat
  <2>3. m \in 0..n /\ ~ Good(m) /\ j <= m /\ m # j
    BY DEF Good
  <2>4. m \in DOMAIN g.ops /\ m - 1 \in 0..n /\ ~ (m <= m - 1)
    BY <1>1, <2>3
  <2>5. Good(m - 1)
    BY <2>2, <2>4
  <2> QED  BY <1>2, <2>3, <2>4, <2>5
<1>4. \A m \in 0..n : Good(m)
  BY <1>3
<1> QED  BY <1>4 DEF Good

\* So the values the base graph computes solve its equations, whatever the
\* order they were computed in.
LEMMA ValuesSolve ==
    ASSUME NEW g \in Graphs, Verified(g), Base!Implemented(g)
    PROVE  /\ \A t \in Range(g.graph_inputs) \cup External(g) : ValuesOf(g)[t] = Given(t)
           /\ \A k \in DOMAIN g.ops : SolvedIn(g.ops[k], ValuesOf(g))
<1> DEFINE n == Len(g.ops)
           v == ValuesOf(g)
<1>1. g.ops \in Seq(Range(g.ops)) /\ n \in Nat /\ DOMAIN g.ops = 1..n
  <2>1. g.ops \in Seq(PlainOp)
    BY GraphsAssumption DEF IsBaseGraph
  <2> QED  BY <2>1, OwnRange, PositionsOfList
<1>2. PICK trace : IsTrace(trace, g)
  BY <1>1, TraceExists
<1>3. v = trace[n]
  BY <1>2 DEF IsTrace
<1>4. ASSUME NEW j \in 0..n, NEW t \in DOMAIN trace[j]
      PROVE  v[t] = trace[j][t]
  <2>1. n \in 0..n /\ j <= n
    BY <1>1
  <2> QED  BY <1>2, <1>3, <2>1, TraceKeeps
<1> HIDE DEF v
<1>5. ASSUME NEW t \in Range(g.graph_inputs) \cup External(g)
      PROVE  v[t] = Given(t)
  <2>1. trace[0] = Base!InitialTensors(g) /\ 0 \in 0..n
    BY <1>1, <1>2 DEF IsTrace
  <2>2. Base!External(g) = External(g) /\ \A f : Base!Range(f) = Range(f)
    BY DEF Base!External, External, Base!WrittenBy, WrittenBy, Base!Range, Range
  <2>3. t \in DOMAIN trace[0] /\ trace[0][t] = Given(t)
    BY <2>1, <2>2 DEF Base!InitialTensors
  <2> QED  BY <1>4, <2>1, <2>3
<1>6. ASSUME NEW k \in DOMAIN g.ops, NEW o \in DOMAIN g.ops[k].outputs
      PROVE  v[g.ops[k].outputs[o]]
                = Compute(g.ops[k].kind, g.ops[k].attrs.param,
                          [j \in DOMAIN g.ops[k].inputs |-> v[g.ops[k].inputs[j]]], o)
  <2> DEFINE op == g.ops[k]
  <2>1. k \in 0..n /\ k - 1 \in 0..n /\ ((k - 1) + 1) - 1 = k - 1
    BY <1>1
  <2>2. trace[k] = Base!Assign(trace[k - 1], op) /\ Exact(op)
    BY <1>2, ImplementedExact DEF IsTrace
  <2>3. DOMAIN trace[k - 1] = ProducedBefore(g, k)
    <3>1. DOMAIN trace[k - 1] = Range(g.graph_inputs) \cup External(g)
                                  \cup WrittenBy(SubSeq(g.ops, 1, ((k - 1) + 1) - 1))
      BY <1>2, <2>1, TraceDomain
    <3> QED  BY <2>1, <3>1 DEF ProducedBefore
  <2>4. Range(op.inputs) \subseteq DOMAIN trace[k - 1]
    BY <2>3, VerifiedGives
  <2>5. \A j \in DOMAIN op.inputs : v[op.inputs[j]] = trace[k - 1][op.inputs[j]]
    <3>1. \A j \in DOMAIN op.inputs : op.inputs[j] \in Range(op.inputs)
      BY DEF Range
    <3> QED  BY <1>4, <2>1, <2>4, <3>1
  <2>6. [j \in DOMAIN op.inputs |-> v[op.inputs[j]]]
           = [j \in DOMAIN op.inputs |-> trace[k - 1][op.inputs[j]]]
    BY <2>5
  <2>7. op.outputs[o] \in DOMAIN trace[k]
    <3>1. op.outputs[o] \in Range(op.outputs)
      BY DEF Range
    <3>2. DOMAIN trace[k] = DOMAIN trace[k - 1] \cup Range(op.outputs)
      BY <2>2, AssignExact
    <3> QED  BY <3>1, <3>2
  <2>8. v[op.outputs[o]] = trace[k][op.outputs[o]]
    BY <1>4, <2>1, <2>7
  <2> HIDE DEF op
  <2>9. o \in DOMAIN op.outputs
    BY DEF op
  <2>10. trace[k][op.outputs[o]]
            = Compute(op.kind, op.attrs.param,
                      [j \in DOMAIN op.inputs |-> trace[k - 1][op.inputs[j]]], o)
    <3> DEFINE e == trace[k - 1]
    <3>1. trace[k] = Base!Assign(e, op)
      BY <2>2
    <3> HIDE DEF e
    <3>2. Base!Assign(e, op)[op.outputs[o]]
             = Compute(op.kind, op.attrs.param, [j \in DOMAIN op.inputs |-> e[op.inputs[j]]], o)
      BY <2>2, <2>9, AssignExact
    <3> QED  BY <3>1, <3>2 DEF e
  <2>11. v[op.outputs[o]]
            = Compute(op.kind, op.attrs.param, [j \in DOMAIN op.inputs |-> v[op.inputs[j]]], o)
    BY <2>6, <2>8, <2>10
  <2> QED  BY <2>11 DEF op
<1> QED  BY <1>5, <1>6 DEF v, SolvedIn

----------------------------------------------------------------------------
(***************************************************************************)
(* What the ops of the engine's graph run.                                 *)
(***************************************************************************)

\* Of the values v, what op runs computes the values v.
Right(op, v) ==
    \A m \in DOMAIN SubOps(op) : Exact(SubOps(op)[m]) /\ SolvedIn(SubOps(op)[m], v)

AllRight(ops) ==
    Base!Implemented(graph) => \A k \in DOMAIN ops : Right(ops[k], ValuesOf(graph))

\* What a dropped tensor is replaced by has its value.
RemapKeepsValues ==
    Base!Implemented(graph) =>
        \A t \in DOMAIN remap : ValuesOf(graph)[remap[t]] = ValuesOf(graph)[t]

ContentInv ==
    /\ phase \in {"dce", "cse"} => AllFit(fused_graph.ops, {})
    /\ phase # "fuse" =>
          AllRight(fused_graph.ops) /\ WrittenBy(fused_graph.ops) \subseteq WrittenBy(graph.ops)
    /\ phase = "cse" => AllFit(cse_ops, DOMAIN remap) /\ AllRight(cse_ops) /\ RemapKeepsValues
    /\ phase = "step" =>
          /\ AllFit(fused_graph.ops, DOMAIN remap)
          /\ DOMAIN remap \subseteq WrittenBy(graph.ops)
          /\ DOMAIN remap \cap WrittenBy(fused_graph.ops) = {}

\* After fusion the ops do what the base graph's do.
LEMMA FusedOpsRight ==
    ASSUME ScanInv, Finished
    PROVE  AllRight(new_ops)
<1>1. ASSUME Base!Implemented(graph), NEW k \in DOMAIN new_ops,
             NEW m \in DOMAIN SubOps(new_ops[k])
      PROVE  Exact(SubOps(new_ops[k])[m]) /\ SolvedIn(SubOps(new_ops[k])[m], ValuesOf(graph))
  <2>1. PICK j \in DOMAIN graph.ops : SubOps(new_ops[k])[m] = graph.ops[j]
    BY FusedOpsFit
  <2>2. graph \in Graphs /\ Verified(graph)
    BY DEF ScanInv, GraphAccepted
  <2>3. Exact(graph.ops[j]) /\ SolvedIn(graph.ops[j], ValuesOf(graph))
    BY <1>1, <2>2, ImplementedExact, ValuesSolve
  <2> QED  BY <2>1, <2>3
<1> QED  BY <1>1 DEF AllRight, Right

LEMMA PartOfOps ==
    ASSUME NEW ops, NEW part, Range(part) \subseteq Range(ops)
    PROVE  /\ \A S : AllFit(ops, S) => AllFit(part, S)
           /\ AllRight(ops) => AllRight(part)
           /\ WrittenBy(part) \subseteq WrittenBy(ops)
<1>1. ASSUME NEW k \in DOMAIN part PROVE \E j \in DOMAIN ops : part[k] = ops[j]
  BY DEF Range
<1> QED  BY <1>1 DEF AllFit, AllRight, WrittenBy

----------------------------------------------------------------------------
(***************************************************************************)
(* A step.  It is compared with the values of the base graph, not with its *)
(* execution: the passes have taken ops out of that.                       *)
(***************************************************************************)

\* The m-th sub-op of the k-th op has been run: it comes before <<pos, sub>>.
Ran(k, m) == k < pos \/ (k = pos /\ m < sub)

\* What has been made so far.
Reached ==
    {t \in MadeInStep :
        \E k \in DOMAIN fused_graph.ops : \E m \in DOMAIN SubOps(fused_graph.ops[k]) :
           Ran(k, m) /\ t \in Range(SubOps(fused_graph.ops[k])[m].outputs)}

\* The tensors present are those provided and those made; the latter have the
\* base graph's values if no sub-op reads a tensor that was dropped.
Executing ==
    /\ pos \in 1..(Len(fused_graph.ops) + 1)
    /\ sub \in Nat \ {0}
    /\ pos <= Len(fused_graph.ops) => sub <= Len(SubOps(fused_graph.ops[pos]))
    /\ DOMAIN env = Provided \cup Reached
    /\ \A t \in DOMAIN env \ Reached : env[t] = Given(t)
    /\ StaleReads = {} => \A t \in Reached : env[t] = ValuesOf(graph)[t]
    /\ \A k \in DOMAIN fused_graph.ops : \A m \in DOMAIN SubOps(fused_graph.ops[k]) :
          Ran(k, m) => Range(SubOps(fused_graph.ops[k])[m].inputs) \subseteq DOMAIN env
    /\ status = "raised" => Missing(ReadInStep) # {}
    /\ status = "returned" => pos > Len(fused_graph.ops)

ExecInv ==
    /\ phase # "step" => pos = 1 /\ sub = 1 /\ status = "running"
    /\ phase = "step" /\ Base!Implemented(graph) => Executing

\* What looking up the results has found.
AnswerInv ==
    /\ result = "found" =>
          phase = "step" /\ status = "returned" /\ StepResults \subseteq DOMAIN env
    /\ result = "missing" =>
          phase = "step" /\ status = "returned" /\ ~ (StepResults \subseteq DOMAIN env)

LEMMA SameStepOperators ==
    ASSUME NEW op, NEW e
    PROVE  /\ Step!HasImplementation(op) <=> Base!HasImplementation(op)
           /\ Step!Arguments(op) = Base!Arguments(op)
           /\ Step!Assign(e, op) = Base!Assign(e, op)
           /\ Step!Range(op) = Range(op)
<1>1. Step!NumInputs = Base!NumInputs /\ Step!NumOutputs = Base!NumOutputs
         /\ Step!StepDims = Base!StepDims
  BY DEF Step!NumInputs, Base!NumInputs, Step!NumOutputs, Base!NumOutputs, Step!StepDims, Base!StepDims
<1>2. \A s : Step!Range(s) = Base!Range(s) /\ Step!Range(s) = Range(s)
  BY DEF Step!Range, Base!Range, Range
<1>3. Step!HasImplementation(op) <=> Base!HasImplementation(op)
  BY <1>1 DEF Step!HasImplementation, Base!HasImplementation
<1>4. Step!Arguments(op) = Base!Arguments(op) /\ Step!Results(op) = Base!Results(op)
  BY <1>1 DEF Step!Arguments, Base!Arguments, Step!Results, Base!Results
<1>5. Step!Assign(e, op) = Base!Assign(e, op)
  BY <1>2, <1>4 DEF Step!Assign, Base!Assign
<1> QED  BY <1>2, <1>3, <1>4, <1>5

\* Running op on its arguments' values v gives its results the values v.
LEMMA RunComputes ==
    ASSUME NEW op, Exact(op), NEW v, SolvedIn(op, v), NEW e,
           \A t \in Range(op.inputs) : e[t] = v[t]
    PROVE  \A t \in Range(op.outputs) : Base!Assign(e, op)[t] = v[t]
<1> DEFINE after == Base!Assign(e, op)
<1>1. [j \in DOMAIN op.inputs |-> e[op.inputs[j]]] = [j \in DOMAIN op.inputs |-> v[op.inputs[j]]]
  <2>1. \A j \in DOMAIN op.inputs : op.inputs[j] \in Range(op.inputs)
    BY DEF Range
  <2> QED  BY <2>1
<1>2. ASSUME NEW o \in DOMAIN op.outputs PROVE after[op.outputs[o]] = v[op.outputs[o]]
  <2>1. after[op.outputs[o]]
           = Compute(op.kind, op.attrs.param, [j \in DOMAIN op.inputs |-> e[op.inputs[j]]], o)
    BY AssignExact, Zenon
  <2>2. v[op.outputs[o]]
           = Compute(op.kind, op.attrs.param, [j \in DOMAIN op.inputs |-> v[op.inputs[j]]], o)
    BY DEF SolvedIn
  <2> QED  BY <1>1, <2>1, <2>2
<1>3. \A t \in Range(op.outputs) : \E o \in DOMAIN op.outputs : op.outputs[o] = t
  BY DEF Range
<1> QED  BY <1>2, <1>3

----------------------------------------------------------------------------
(***************************************************************************)
(* The fusion summary: what each stage leaves and what it reports gone.    *)
(***************************************************************************)

PassedRuns(k) == Total([j \in DOMAIN fused_graph.ops |-> NameRuns[fused_graph.ops[j].name]], 1..k)

CseAccount ==
    /\ NamedWell(cse_ops) /\ NamesListed(cse_removed)
    /\ \A n \in DOMAIN cse_ops : \E k \in DOMAIN fused_graph.ops :
          k < cse_i /\ KindAndName(cse_ops[n], fused_graph.ops[k])
    /\ \A k \in DOMAIN fused_graph.ops : k < cse_i /\ fused_graph.ops[k].kind = "fused" =>
          \E n \in DOMAIN cse_ops : KindAndName(cse_ops[n], fused_graph.ops[k])
    /\ Weighed(NameRuns, NamesOf(cse_ops)) + Weighed(NameRuns, cse_removed) = PassedRuns(cse_i - 1)

NothingIsIdle == \A k \in DOMAIN fused_graph.ops : Range(fused_graph.ops[k].outputs) # {}

LEMMA OnePassed ==
    ASSUME TypeOK, NamedWell(fused_graph.ops), fused_graph.ops \in Seq(Range(fused_graph.ops)),
           NEW k \in DOMAIN fused_graph.ops
    PROVE  /\ PassedRuns(k) = PassedRuns(k - 1) + NameRuns[fused_graph.ops[k].name]
           /\ PassedRuns(k - 1) \in Nat /\ NameRuns[fused_graph.ops[k].name] \in Nat
<1> DEFINE f == [j \in DOMAIN fused_graph.ops |-> NameRuns[fused_graph.ops[j].name]]
<1>1. \A j \in DOMAIN fused_graph.ops : f[j] \in Nat
  BY RecordsAre DEF NamedWell
<1>2. DOMAIN fused_graph.ops = 1..Len(fused_graph.ops) /\ Len(fused_graph.ops) \in Nat
  BY PositionsOfList
<1>3. /\ 1..k = (1..(k - 1)) \cup {k} /\ k \notin 1..(k - 1) /\ k - 1 \in Nat
      /\ \A j \in 1..(k - 1) : j \in DOMAIN fused_graph.ops
  BY <1>2
<1>4. IsFiniteSet(1..(k - 1))
  BY <1>3, PositionsCounted
<1>5. f[k] = NameRuns[fused_graph.ops[k].name]
  OBVIOUS
<1> HIDE DEF f
<1>6. \A j \in 1..(k - 1) : f[j] \in Nat
  BY <1>1, <1>3
<1>7. Total(f, 1..(k - 1)) \in Nat
  BY <1>4, <1>6, TotalIsNat
<1>8. Total(f, (1..(k - 1)) \cup {k}) = f[k] + Total(f, 1..(k - 1))
  <2>1. f[k] \in Int /\ \A j \in 1..(k - 1) : f[j] \in Int
    BY <1>1, <1>6
  <2> QED  BY <1>3, <1>4, <2>1, TotalAdd
<1>9. PassedRuns(k) = f[k] + PassedRuns(k - 1)
  BY <1>3, <1>8 DEF PassedRuns, f
<1>10. PassedRuns(k - 1) \in Nat /\ f[k] \in Nat
  BY <1>1, <1>7 DEF PassedRuns, f
<1> QED  BY <1>5, <1>9, <1>10

\* The account as each stage has it.
DceAccount ==
    /\ FusedNames(fused_graph.ops) = Listed
    /\ Weighed(NameRuns, NamesOf(fused_graph.ops)) = Len(graph.ops)
    /\ \A k \in keep : Range(fused_graph.ops[k].outputs) # {}

PrunedAccount ==
    /\ FusedNames(fused_graph.ops) = Listed \ Range(dce_removed)
    /\ NamesListed(dce_removed)

LeftAndGone == Weighed(NameRuns, NamesOf(fused_graph.ops)) + Weighed(NameRuns, dce_removed)

AccountInv ==
    /\ phase # "fuse" => NamedWell(fused_graph.ops)
    /\ phase = "dce" => DceAccount
    /\ phase \in {"cse", "step"} => PrunedAccount
    /\ phase = "cse" => CseAccount /\ NothingIsIdle /\ LeftAndGone = Len(graph.ops)
    /\ phase = "step" => /\ NamesListed(cse_removed)
                         /\ LeftAndGone + Weighed(NameRuns, cse_removed) = Len(graph.ops)

\* The terms of the summary's own account.
SummaryListed == {FusionSummary.fusions[n].fused_op_name : n \in DOMAIN FusionSummary.fusions}
SummaryRuns(name) ==
    IF name \in SummaryListed
    THEN LET n == CHOOSE n \in DOMAIN FusionSummary.fusions :
                     FusionSummary.fusions[n].fused_op_name = name
         IN Len(FusionSummary.fusions[n].sub_op_names)
    ELSE 1

LEMMA SummaryReports ==
    /\ FusionSummary.fusions = records /\ FusionSummary.original_op_count = Len(graph.ops)
    /\ SummaryListed = Listed
    /\ \A name : SummaryRuns(name) = RunsOf(name)
<1>1. FusionSummary.fusions = records /\ FusionSummary.original_op_count = Len(graph.ops)
  BY DEF FusionSummary
<1>2. SummaryListed = Listed
  BY <1>1 DEF SummaryListed, Listed
<1>3. ASSUME NEW name PROVE SummaryRuns(name) = RunsOf(name)
  BY <1>1, <1>2 DEF SummaryRuns, RunsOf
<1> QED  BY <1>1, <1>2, <1>3

\* What the names of a list weigh is what a sum over the list adds up.
LEMMA RunsInAll ==
    ASSUME TypeOK, NEW s, NamesListed(s)
    PROVE  MapThenSumSet(LAMBDA n : SummaryRuns(s[n]), DOMAIN s) = Weighed(NameRuns, s)
<1> DEFINE S == DOMAIN s
           f == [n \in S |-> NameRuns[s[n]]]
           Runs(n) == SummaryRuns(s[n])
           iter == CHOOSE it : it = [P \in SUBSET S |->
                      IF P = {} THEN 0 ELSE Runs(One(P)) + it[P \ {One(P)}]]
<1>1. MapThenSumSet(Runs, S) = iter[S]
  BY DEF MapThenSumSet, MapThenFoldSet, One
<1>2. \A n \in S : f[n] = Runs(n)
  <2>1. \A n \in S : s[n] \in AnyName
    BY DEF NamesListed, Range
  <2>2. \A n \in S : NameRuns[s[n]] = RunsOf(s[n])
    BY <2>1, RecordsAre
  <2> QED  BY <2>2, SummaryReports
<1>3. \A P \in SUBSET S : P # {} => f[One(P)] = Runs(One(P))
  <2>1. \A P \in SUBSET S : P # {} => One(P) \in S
    BY DEF One
  <2> HIDE DEF Runs, f
  <2> QED  BY <1>2, <2>1
<1>4. IsFiniteSet(S)
  BY PositionsOfList, PositionsCounted DEF NamesListed
<1>5. Weighed(NameRuns, s) = Total(f, S)
  BY DEF Weighed
<1> HIDE DEF S, f, Runs
<1>6. PICK some : IsTally(some, f, S)
  BY <1>4, TallyExists
<1>7. some = [P \in SUBSET S |-> IF P = {} THEN 0 ELSE Runs(One(P)) + some[P \ {One(P)}]]
  BY <1>3, <1>6 DEF IsTally
<1>8. iter = [P \in SUBSET S |-> IF P = {} THEN 0 ELSE Runs(One(P)) + iter[P \ {One(P)}]]
  BY <1>7
<1> HIDE DEF iter
<1>9. IsTally(iter, f, S)
  BY <1>3, <1>8 DEF IsTally
<1>10. Total(f, S) = iter[S]
  BY <1>4, <1>9, TallyTotals
<1> QED  BY <1>1, <1>5, <1>10 DEF S, f, Runs

LEMMA RunsInOps ==
    ASSUME TypeOK, NEW ops, ops \in Seq(Range(ops)), NamedWell(ops)
    PROVE  MapThenSumSet(LAMBDA k : SummaryRuns(ops[k].name), DOMAIN ops)
              = Weighed(NameRuns, NamesOf(ops))
<1> DEFINE S == DOMAIN ops
           s == NamesOf(ops)
           f == [n \in S |-> NameRuns[s[n]]]
           Runs(k) == SummaryRuns(ops[k].name)
           iter == CHOOSE it : it = [P \in SUBSET S |->
                      IF P = {} THEN 0 ELSE Runs(One(P)) + it[P \ {One(P)}]]
<1>1. MapThenSumSet(Runs, S) = iter[S]
  BY DEF MapThenSumSet, MapThenFoldSet, One
<1>2. DOMAIN s = S /\ \A k \in S : s[k] = ops[k].name
  BY DEF NamesOf
<1>3. \A k \in S : f[k] = Runs(k)
  <2>1. \A k \in S : ops[k].name \in AnyName
    BY DEF NamedWell
  <2>2. \A k \in S : NameRuns[ops[k].name] = RunsOf(ops[k].name)
    BY <2>1, RecordsAre
  <2> QED  BY <1>2, <2>2, SummaryReports
<1>4. \A P \in SUBSET S : P # {} => f[One(P)] = Runs(One(P))
  <2>1. \A P \in SUBSET S : P # {} => One(P) \in S
    BY DEF One
  <2> HIDE DEF Runs, f
  <2> QED  BY <1>3, <2>1
<1>5. IsFiniteSet(S)
  BY PositionsOfList, PositionsCounted
<1>6. Weighed(NameRuns, s) = Total(f, S)
  BY <1>2 DEF Weighed
<1> HIDE DEF S, s, f, Runs
<1>7. PICK some : IsTally(some, f, S)
  BY <1>5, TallyExists
<1>8. some = [P \in SUBSET S |-> IF P = {} THEN 0 ELSE Runs(One(P)) + some[P \ {One(P)}]]
  BY <1>4, <1>7 DEF IsTally
<1>9. iter = [P \in SUBSET S |-> IF P = {} THEN 0 ELSE Runs(One(P)) + iter[P \ {One(P)}]]
  BY <1>8
<1> HIDE DEF iter
<1>10. IsTally(iter, f, S)
  BY <1>4, <1>9 DEF IsTally
<1>11. Total(f, S) = iter[S]
  BY <1>5, <1>10, TallyTotals
<1> QED  BY <1>1, <1>6, <1>11 DEF S, s, f, Runs

----------------------------------------------------------------------------
(***************************************************************************)
(* The traffic account.  It needs of the later passes that whoever reads   *)
(* a fused op's tensor does so to the end.                                 *)
(***************************************************************************)

\* What dead-code elimination hands on: a part of the new ops, or all of them.
PartOfNew ==
    /\ Range(fused_graph.ops) \subseteq Range(new_ops)
    /\ dce_removed = <<>> => Range(new_ops) \subseteq Range(fused_graph.ops)

\* The replacements leave the fused ops' tensors alone, so that these keep
\* their readers and get no new ones.
CseReaders ==
    /\ \A u \in DOMAIN remap : u \notin FusedMade /\ remap[u] \notin FusedMade
    /\ MadeByNew(cse_ops)
    /\ ReadBy(cse_ops) \cap FusedMade \subseteq ReadBy(new_ops)
    /\ \A k \in DOMAIN fused_graph.ops :
          k < cse_i => Range(fused_graph.ops[k].inputs) \cap FusedMade \subseteq ReadBy(cse_ops)

StepReaders ==
    /\ MadeByNew(fused_graph.ops)
    /\ ReadBy(fused_graph.ops) \cap FusedMade \subseteq ReadBy(new_ops)
    /\ dce_removed = <<>> => ReadBy(new_ops) \cap FusedMade \subseteq ReadBy(fused_graph.ops)

ReadersInv ==
    /\ phase # "fuse" => Finished
    /\ phase = "dce" => fused_graph.ops = new_ops
    /\ phase = "cse" => PartOfNew /\ CseReaders
    /\ phase = "step" => StepReaders

WantedElsewhere(k, t) ==
    \/ t \in Range(graph.graph_outputs)
    \/ \E j \in (DOMAIN fused_graph.ops) \ {k} : t \in Range(fused_graph.ops[j].inputs)

ReallyAt(k, window, at) ==
    IF ~ HandedOnIn(window, at) THEN 0
    ELSE (IF WantedElsewhere(k, window[at[1]].outputs[at[2]]) THEN 1 ELSE 2)
            * BytesOf(graph, window[at[1]].outputs[at[2]])

ReallyOf(k, window) == [at \in DOMAIN AllOutputs(window) |-> ReallyAt(k, window, at)]

\* The same as the property writes it.
ReallyByOp(k, at) ==
    LET op == fused_graph.ops[k]
        t == op.attrs.sub_ops[at[1]].outputs[at[2]]
    IN IF ~ (\E j \in (at[1] + 1)..Len(SubOps(op)) :
                op.attrs.sub_ops[at[1]].outputs[at[2]] \in Range(op.attrs.sub_ops[j].inputs))
       THEN 0
       ELSE (IF \/ t \in Range(graph.graph_outputs)
                \/ \E j \in (DOMAIN fused_graph.ops) \ {k} : t \in Range(fused_graph.ops[j].inputs)
             THEN 1 ELSE 2) * BytesOf(graph, t)

\* The sum that the property names is a total.
LEMMA ReallySavedIsTotal ==
    ASSUME NEW k, fused_graph.ops[k].kind = "fused", NEW W, W = fused_graph.ops[k].attrs.sub_ops,
           IsFiniteSet(DOMAIN AllOutputs(W))
    PROVE  ReallySaved(k) = Total(ReallyOf(k, W), DOMAIN AllOutputs(W))
<1> DEFINE P == DOMAIN AllOutputs(fused_graph.ops[k].attrs.sub_ops)
           f == ReallyOf(k, W)
           Really(at) == ReallyByOp(k, at)
           iter == CHOOSE it : it = [s \in SUBSET P |->
                      IF s = {} THEN 0 ELSE Really(One(s)) + it[s \ {One(s)}]]
<1>1. SubOps(fused_graph.ops[k]) = W
  BY DEF SubOps
<1>2. ReallySaved(k) = MapThenSumSet(Really, P)
  BY DEF ReallySaved, ReallyByOp
<1>3. MapThenSumSet(Really, P) = iter[P]
  BY DEF MapThenSumSet, MapThenFoldSet, One
<1>4. \A s \in SUBSET P : s # {} => f[One(s)] = Really(One(s))
  <2>1. \A at : ReallyAt(k, W, at) = Really(at)
    BY <1>1 DEF ReallyByOp, ReallyAt, HandedOnIn, WantedElsewhere
  <2>2. \A at \in P : f[at] = ReallyAt(k, W, at)
    BY DEF ReallyOf
  <2> HIDE DEF f, P, Really
  <2> QED  BY <2>1, <2>2 DEF One
<1>5. P = DOMAIN AllOutputs(W)
  OBVIOUS
<1> HIDE DEF P, f, Really
<1>6. PICK some : IsTally(some, f, P)
  BY <1>5, TallyExists
<1>7. some = [s \in SUBSET P |-> IF s = {} THEN 0 ELSE Really(One(s)) + some[s \ {One(s)}]]
  BY <1>4, <1>6 DEF IsTally
<1>8. iter = [s \in SUBSET P |-> IF s = {} THEN 0 ELSE Really(One(s)) + iter[s \ {One(s)}]]
  BY <1>7
<1> HIDE DEF iter
<1>9. IsTally(iter, f, P)
  BY <1>4, <1>8 DEF IsTally
<1>10. Total(f, P) = iter[P]
  BY <1>5, <1>9, TallyTotals
<1> QED  BY <1>2, <1>3, <1>5, <1>10 DEF f

\* A tensor that a fused op makes is wanted by others than the op in the
\* executed graph only if it was needed outside the op's window, and as long as
\* nothing was removed it still is.
LEMMA WantedWhereNeeded ==
    ASSUME StepReaders, Verified(fused_graph), fused_graph.ops \in Seq(Range(fused_graph.ops)),
           NEW k \in DOMAIN fused_graph.ops, NEW t \in Range(fused_graph.ops[k].outputs), t \in FusedMade
    PROVE  /\ WantedElsewhere(k, t) => t \in Range(graph.graph_outputs) \/ t \in ReadBy(new_ops)
           /\ dce_removed = <<>> =>
                 (t \in Range(graph.graph_outputs) \/ t \in ReadBy(new_ops) => WantedElsewhere(k, t))
<1>1. WantedElsewhere(k, t) => t \in Range(graph.graph_outputs) \/ t \in ReadBy(fused_graph.ops)
  BY DEF WantedElsewhere, ReadBy
<1>2. t \notin Range(fused_graph.ops[k].inputs)
  <2>1. k <= k
    BY PositionsOfList
  <2> QED  BY <2>1, ReadersComeLater
<1>3. t \in Range(graph.graph_outputs) \/ t \in ReadBy(fused_graph.ops) => WantedElsewhere(k, t)
  BY <1>2 DEF WantedElsewhere, ReadBy
<1>4. /\ t \in ReadBy(fused_graph.ops) => t \in ReadBy(new_ops)
      /\ dce_removed = <<>> => (t \in ReadBy(new_ops) => t \in ReadBy(fused_graph.ops))
  BY DEF StepReaders
<1> QED  BY <1>1, <1>3, <1>4

\* Output by output: what is counted on the base graph is at most what is
\* saved on the executed one.
LEMMA CountedAtIsSaved ==
    ASSUME ScanInv, StepReaders, Verified(fused_graph), fused_graph.ops \in Seq(Range(fused_graph.ops)),
           NEW k \in DOMAIN fused_graph.ops,
           NEW j \in DOMAIN graph.ops, NEW p \in Matches(graph.ops, j),
           Range(fused_graph.ops[k].outputs) = WrittenBy(Window(j, p)),
           Range(fused_graph.ops[k].outputs) \subseteq FusedMade,
           \A t \in Range(fused_graph.ops[k].outputs) :
              NeededOutside(j, p, t) <=> t \in Range(graph.graph_outputs) \/ t \in ReadBy(new_ops),
           NEW at \in DOMAIN AllOutputs(Window(j, p))
    PROVE  /\ SavedAtOf(Window(j, p), graph)[at] \in Nat
           /\ ReallyAt(k, Window(j, p), at) \in Nat
           /\ SavedAtOf(Window(j, p), graph)[at] <= ReallyAt(k, Window(j, p), at)
           /\ dce_removed = <<>> =>
                 SavedAtOf(Window(j, p), graph)[at] = ReallyAt(k, Window(j, p), at)
<1> DEFINE W == Window(j, p)
           t == W[at[1]].outputs[at[2]]
           b == BytesOf(graph, t)
           worth == IF NeededOutside(j, p, t) THEN 1 ELSE 2
           really == IF WantedElsewhere(k, t) THEN 1 ELSE 2
<1>1. GraphAccepted
  BY DEF ScanInv
<1>2. AllOutputs(W)[at] = t
  BY DEF AllOutputs
<1>3. t \in WrittenBy(W)
  <2>1. Range(AllOutputs(W)) = WrittenBy(W)
    BY <1>1, WindowAt, WindowMentions
  <2> QED  BY <1>2, <2>1 DEF Range
<1>4. b \in Nat
  BY <1>1, <1>3, WindowTensorsDeclared, BytesAreNat DEF GraphAccepted
<1>5. SavedAtOf(W, graph)[at] = IF t \in Internal(W) THEN worth * b ELSE 0
  <2>1. SavedAtOf(W, graph)[at] = IF t \in Internal(W) THEN Worth(j, p)[t] ELSE 0
    BY <1>1, <1>2, SavedAtIsWorth
  <2>2. t \in Internal(W) => Worth(j, p)[t] = worth * b
    BY DEF Worth
  <2> HIDE DEF W, t, worth, b
  <2> QED  BY <2>1, <2>2
<1>6. HandedOnIn(W, at) <=> t \in Internal(W)
  <2>1. /\ at[1] \in 1..Length(p) /\ at[2] \in DOMAIN W[at[1]].outputs
        /\ {m \in (at[1] + 1)..Len(W) : t \in Range(W[m].inputs)} = ReadersIn(j, p, t)
    BY <1>1, ReadersInAreLater
  <2>2. DOMAIN W = 1..Length(p)
    BY <1>1, WindowPlace
  <2>3. t \in ReadBy(W) <=> ReadersIn(j, p, t) # {}
    BY <2>2 DEF ReadBy, ReadersIn
  <2>4. t \in ReadBy(W) <=> t \in Internal(W)
    BY <1>3 DEF Internal
  <2>5. HandedOnIn(W, at) <=> {m \in (at[1] + 1)..Len(W) : t \in Range(W[m].inputs)} # {}
    BY DEF HandedOnIn
  <2> QED  BY <2>1, <2>3, <2>4, <2>5
<1>7. ReallyAt(k, W, at) = IF t \in Internal(W) THEN really * b ELSE 0
  BY <1>6 DEF ReallyAt
<1>8. /\ WantedElsewhere(k, t) => NeededOutside(j, p, t)
      /\ dce_removed = <<>> => (NeededOutside(j, p, t) => WantedElsewhere(k, t))
  BY <1>3, WantedWhereNeeded
<1>9. /\ worth \in {1, 2} /\ really \in {1, 2} /\ worth <= really
      /\ dce_removed = <<>> => worth = really
  BY <1>8
<1> HIDE DEF worth, really, b
<1>10. /\ worth * b \in Nat /\ really * b \in Nat /\ worth * b <= really * b
       /\ dce_removed = <<>> => worth * b = really * b
  <2>1. 1 * b = b /\ 2 * b = b + b
    BY <1>4
  <2>2. worth = 1 \/ worth = 2
    BY <1>9
  <2>3. worth = 1 => really = 1 \/ really = 2
    BY <1>9
  <2>4. worth = 2 => really = 2
    BY <1>9
  <2> QED  BY <1>4, <1>9, <2>1, <2>2, <2>3, <2>4
<1> HIDE DEF t, W
<1> QED  BY <1>5, <1>7, <1>10 DEF W

\* So one fused op's figure is at most what the op saves.
LEMMA CountedIsSaved ==
    ASSUME ScanInv, Finished, FusedWhereMatched, StepReaders, Verified(fused_graph),
           fused_graph.ops \in Seq(Range(fused_graph.ops)),
           NEW k \in DOMAIN fused_graph.ops
    PROVE  /\ TrafficSavedBytes(fused_graph.ops[k], graph) \in Int /\ ReallySaved(k) \in Int
           /\ TrafficSavedBytes(fused_graph.ops[k], graph) <= ReallySaved(k)
           /\ dce_removed = <<>> => TrafficSavedBytes(fused_graph.ops[k], graph) = ReallySaved(k)
<1> DEFINE op == fused_graph.ops[k]
<1>1. CASE op.kind # "fused"
  <2>1. TrafficSavedBytes(op, graph) = 0 /\ ReallySaved(k) = 0
    BY <1>1 DEF TrafficSavedBytes, ReallySaved
  <2> QED  BY <2>1
<1>2. CASE op.kind = "fused"
  <2>1. PICK n \in DOMAIN new_ops : SameWork(op, new_ops[n])
    BY DEF StepReaders, MadeByNew
  <2>2. new_ops[n].kind = "fused" /\ op.outputs = new_ops[n].outputs /\ op.attrs = new_ops[n].attrs
    BY <1>2, <2>1 DEF SameWork
  <2> DEFINE j == starts[n]
  <2>3. j \in DOMAIN graph.ops
    BY <2>2, FusedWindow
  <2>4. PICK p \in Matches(graph.ops, j) :
           /\ new_ops[n].attrs.sub_ops = Window(j, p)
           /\ Range(new_ops[n].outputs) = WrittenBy(Window(j, p))
           /\ \A t \in Range(new_ops[n].outputs) :
                 NeededOutside(j, p, t) <=> t \in Range(graph.graph_outputs) \/ t \in ReadBy(new_ops)
    BY <2>2, FusedWindow
  <2> DEFINE W == Window(j, p)
             P == DOMAIN AllOutputs(W)
             counted == SavedAtOf(W, graph)
             really == ReallyOf(k, W)
  <2>5. op.attrs.sub_ops = W
    BY <2>2, <2>4
  <2>6. W \in Seq(PlainOp) /\ IsFiniteSet(P)
    <3>1. GraphAccepted
      BY DEF ScanInv
    <3>2. W \in Seq(PlainOp)
      BY <2>3, <3>1, WindowAt
    <3> QED  BY <3>2, WindowMentions
  <2>7. TrafficSavedBytes(op, graph) = Total(counted, P)
    <3>1. TrafficSavedBytes(op, graph) = GroupTrafficSaved(W, graph)
      BY <1>2, <2>5 DEF TrafficSavedBytes
    <3> QED  BY <2>6, <3>1, TrafficIsTotal
  <2>8. ReallySaved(k) = Total(really, P)
    BY <1>2, <2>5, <2>6, ReallySavedIsTotal
  <2>9. Range(op.outputs) \subseteq FusedMade
    BY <2>2 DEF FusedMade
  <2>10. \A at \in P : /\ counted[at] \in Nat /\ really[at] \in Nat /\ counted[at] <= really[at]
                       /\ dce_removed = <<>> => counted[at] = really[at]
    <3> SUFFICES ASSUME NEW at \in P
                 PROVE  /\ counted[at] \in Nat /\ really[at] \in Nat /\ counted[at] <= really[at]
                        /\ dce_removed = <<>> => counted[at] = really[at]
      OBVIOUS
    <3>1. really[at] = ReallyAt(k, W, at)
      BY DEF ReallyOf
    <3> HIDE DEF j, counted
    <3>2. /\ counted[at] \in Nat /\ ReallyAt(k, W, at) \in Nat /\ counted[at] <= ReallyAt(k, W, at)
          /\ dce_removed = <<>> => counted[at] = ReallyAt(k, W, at)
      <4>1. /\ Range(op.outputs) = WrittenBy(Window(j, p))
            /\ \A t \in Range(op.outputs) :
                  NeededOutside(j, p, t) <=> t \in Range(graph.graph_outputs) \/ t \in ReadBy(new_ops)
        BY <2>2, <2>4
      <4> QED  BY <2>3, <2>9, <4>1, CountedAtIsSaved DEF counted
    <3> QED  BY <3>1, <3>2
  <2> HIDE DEF op, W, P, counted, really
  <2>11. Total(counted, P) \in Nat /\ Total(really, P) \in Nat
    BY <2>6, <2>10, TotalIsNat
  <2>12. Total(counted, P) <= Total(really, P)
    <3>1. \A at \in P : counted[at] \in Int /\ really[at] \in Int /\ counted[at] <= really[at]
      BY <2>10
    <3> QED  BY <2>6, <3>1, TotalCompare
  <2>13. dce_removed = <<>> => Total(counted, P) = Total(really, P)
    BY <2>6, <2>10, TotalSame
  <2> QED  BY <2>7, <2>8, <2>11, <2>12, <2>13 DEF op
<1> QED  BY <1>1, <1>2

\* What the ops count, and what they save, op by op.
CountedOf == [k \in DOMAIN fused_graph.ops |-> TrafficSavedBytes(fused_graph.ops[k], graph)]
ReallySavedOf == [k \in DOMAIN fused_graph.ops |-> ReallySaved(k)]

LEMMA SavedTotals ==
    ASSUME IsFiniteSet(DOMAIN fused_graph.ops)
    PROVE  /\ Saved = Total(CountedOf, DOMAIN fused_graph.ops)
           /\ MapThenSumSet(ReallySaved, DOMAIN fused_graph.ops) = Total(ReallySavedOf, DOMAIN fused_graph.ops)
<1> DEFINE S == DOMAIN fused_graph.ops
           Counted(k) == TrafficSavedBytes(fused_graph.ops[k], graph)
           counts == CHOOSE it : it = [s \in SUBSET S |->
                        IF s = {} THEN 0 ELSE Counted(One(s)) + it[s \ {One(s)}]]
           saves == CHOOSE it : it = [s \in SUBSET S |->
                        IF s = {} THEN 0 ELSE ReallySaved(One(s)) + it[s \ {One(s)}]]
<1>1. Saved = counts[S]
  BY DEF Saved, MapThenSumSet, MapThenFoldSet, One
<1>2. MapThenSumSet(ReallySaved, S) = saves[S]
  BY DEF MapThenSumSet, MapThenFoldSet, One
<1>3. \A s \in SUBSET S : s # {} => CountedOf[One(s)] = Counted(One(s))
  BY DEF One, CountedOf
<1>4. \A s \in SUBSET S : s # {} => ReallySavedOf[One(s)] = ReallySaved(One(s))
  BY DEF One, ReallySavedOf
<1> HIDE DEF S, Counted
<1>5. PICK c : IsTally(c, CountedOf, S)
  BY TallyExists DEF S
<1>6. PICK r : IsTally(r, ReallySavedOf, S)
  BY TallyExists DEF S
<1>7. c = [s \in SUBSET S |-> IF s = {} THEN 0 ELSE Counted(One(s)) + c[s \ {One(s)}]]
  BY <1>3, <1>5 DEF IsTally
<1>8. r = [s \in SUBSET S |-> IF s = {} THEN 0 ELSE ReallySaved(One(s)) + r[s \ {One(s)}]]
  BY <1>4, <1>6 DEF IsTally
<1>9. counts = [s \in SUBSET S |-> IF s = {} THEN 0 ELSE Counted(One(s)) + counts[s \ {One(s)}]]
  BY <1>7
<1>10. saves = [s \in SUBSET S |-> IF s = {} THEN 0 ELSE ReallySaved(One(s)) + saves[s \ {One(s)}]]
  BY <1>8
<1> HIDE DEF counts, saves
<1>11. IsTally(counts, CountedOf, S)
  BY <1>3, <1>9 DEF IsTally
<1>12. IsTally(saves, ReallySavedOf, S)
  BY <1>4, <1>10 DEF IsTally
<1>13. Total(CountedOf, S) = counts[S] /\ Total(ReallySavedOf, S) = saves[S]
  BY <1>11, <1>12, TallyTotals DEF S
<1> QED  BY <1>1, <1>2, <1>13 DEF S

----------------------------------------------------------------------------
(***************************************************************************)
(* The passes.  What is proved of each by itself holds of it as a stage.   *)
(***************************************************************************)

\* What is proved of each pass by itself holds of it as a stage.
D == INSTANCE PassProofs WITH Graphs <- {}, ConstantSets <- {}, graph <- fused_graph,
                              i <- dce_i, constants <- {}, known_constants <- {},
                              foldable <- <<>>
C == INSTANCE CSEProofs WITH Graphs <- {}, graph <- fused_graph, i <- cse_i,
                             new_ops <- cse_ops, removed <- cse_removed

LEMMA NoGraphs == "fused" \notin Kind /\ (\A g \in {} : D!IsGraph(g)) /\ (\A g \in {} : C!IsGraph(g))
BY FusedIsNoKind

----------------------------------------------------------------------------
(***************************************************************************)
(* The operators and the steps of those instances are the pipeline's.      *)
(***************************************************************************)

LEMMA SameLists ==
    ASSUME NEW s
    PROVE  /\ D!Range(s) = Range(s) /\ Dce!Range(s) = Range(s)
           /\ C!Range(s) = Range(s) /\ Cse!Range(s) = Range(s)
           /\ D!WrittenBy(s) = WrittenBy(s) /\ Dce!WrittenBy(s) = WrittenBy(s)
           /\ C!WrittenBy(s) = WrittenBy(s) /\ Cse!WrittenBy(s) = WrittenBy(s)
           /\ D!ReadBy(s) = ReadBy(s) /\ Dce!ReadBy(s) = ReadBy(s)
           /\ C!ReadBy(s) = ReadBy(s) /\ Cse!ReadBy(s) = ReadBy(s)
<1>1. \A f : /\ D!Range(f) = Range(f) /\ Dce!Range(f) = Range(f)
             /\ C!Range(f) = Range(f) /\ Cse!Range(f) = Range(f)
  BY DEF D!Range, Dce!Range, C!Range, Cse!Range, Range
<1> QED
  BY <1>1 DEF D!WrittenBy, Dce!WrittenBy, C!WrittenBy, Cse!WrittenBy, WrittenBy,
              D!ReadBy, Dce!ReadBy, C!ReadBy, Cse!ReadBy, ReadBy

LEMMA SameGraphs ==
    ASSUME NEW g
    PROVE  /\ D!External(g) = External(g) /\ C!External(g) = External(g)
           /\ D!Verified(g) <=> Verified(g)
           /\ C!Verified(g) <=> Verified(g)
           /\ D!IsGraph(g) <=> IsGraph(g)
           /\ C!IsGraph(g) <=> IsGraph(g)
<1>1. D!External(g) = External(g) /\ C!External(g) = External(g)
  BY SameLists DEF D!External, C!External, External
<1>2. \A k : /\ D!ProducedBefore(g, k) = ProducedBefore(g, k)
             /\ C!ProducedBefore(g, k) = ProducedBefore(g, k)
  BY <1>1, SameLists DEF D!ProducedBefore, C!ProducedBefore, ProducedBefore
<1>3. /\ D!MultiplyProduced(g) = MultiplyProduced(g)
      /\ D!RedefinedInputs(g) = RedefinedInputs(g)
      /\ D!UsedBeforeDef(g) = UsedBeforeDef(g)
      /\ D!UnproducedOutputs(g) = UnproducedOutputs(g)
      /\ D!UndeclaredShapes(g) = UndeclaredShapes(g)
  BY SameLists, <1>2
     DEF D!MultiplyProduced, MultiplyProduced, D!RedefinedInputs, RedefinedInputs,
         D!UsedBeforeDef, UsedBeforeDef, D!UnproducedOutputs, UnproducedOutputs,
         D!UndeclaredShapes, UndeclaredShapes
<1>4. /\ C!MultiplyProduced(g) = MultiplyProduced(g)
      /\ C!RedefinedInputs(g) = RedefinedInputs(g)
      /\ C!UsedBeforeDef(g) = UsedBeforeDef(g)
      /\ C!UnproducedOutputs(g) = UnproducedOutputs(g)
      /\ C!UndeclaredShapes(g) = UndeclaredShapes(g)
  BY SameLists, <1>2
     DEF C!MultiplyProduced, MultiplyProduced, C!RedefinedInputs, RedefinedInputs,
         C!UsedBeforeDef, UsedBeforeDef, C!UnproducedOutputs, UnproducedOutputs,
         C!UndeclaredShapes, UndeclaredShapes
<1>5. (D!Verified(g) <=> Verified(g)) /\ (C!Verified(g) <=> Verified(g))
  BY <1>3, <1>4 DEF Verified, CollectGraphErrors, D!Verified, D!CollectGraphErrors,
                    C!Verified, C!CollectGraphErrors
<1>6. (D!IsGraph(g) <=> IsGraph(g)) /\ (C!IsGraph(g) <=> IsGraph(g))
  <2>1. \A op : (D!IsOp(op) <=> IsOp(op)) /\ (C!IsOp(op) <=> IsOp(op))
    BY SameLists DEF D!IsOp, C!IsOp, IsOp, D!MkOp, C!MkOp, MkOp
  <2> QED  BY <2>1, SameLists DEF D!IsGraph, C!IsGraph, IsGraph, D!MkGraph, C!MkGraph, MkGraph
<1> QED  BY <1>1, <1>5, <1>6

LEMMA SameDceSteps ==
    /\ Dce!KeepLive \/ Dce!SkipDead => [D!Next]_(D!vars)
    /\ UNCHANGED <<fused_graph, dce_i, live, keep>> => [D!Next]_(D!vars)
    /\ Dce!Finished <=> D!Finished
    /\ Dce!Pruned = D!Pruned
    /\ \A ops, P : Dce!OpsAmong(ops, P) = D!OpsAmong(ops, P)
<1>1. \A op : Dce!IsLive(op) <=> D!IsLive(op)
  BY SameLists DEF Dce!IsLive, D!IsLive
<1>2. Dce!KeepLive => D!KeepLive
  BY <1>1, SameLists DEF Dce!KeepLive, D!KeepLive, Dce!Visiting, D!Visiting
<1>3. Dce!SkipDead => D!SkipDead
  BY <1>1 DEF Dce!SkipDead, D!SkipDead, Dce!Visiting, D!Visiting
<1>4. UNCHANGED <<fused_graph, dce_i, live, keep>> => UNCHANGED D!vars
  BY DEF D!vars
<1>5. Dce!Finished <=> D!Finished
  BY DEF Dce!Finished, D!Finished
<1>6. \A ops, P : Dce!OpsAmong(ops, P) = D!OpsAmong(ops, P)
  <2>1. \A S : Dce!Cardinality(S) = D!Cardinality(S)
    BY DEF Dce!Cardinality, D!Cardinality
  <2>2. \A P, k : Dce!NthOf(P, k) = D!NthOf(P, k)
    BY <2>1 DEF Dce!NthOf, D!NthOf
  <2> QED  BY <2>1, <2>2 DEF Dce!OpsAmong, D!OpsAmong
<1>7. Dce!Pruned = D!Pruned
  <2>1. \A g, ops : Dce!Rebuild(g, ops) = D!Rebuild(g, ops)
    BY SameLists DEF Dce!Rebuild, D!Rebuild
  <2> QED  BY <1>6, <2>1 DEF Dce!Pruned, D!Pruned
<1> QED  BY <1>2, <1>3, <1>4, <1>5, <1>6, <1>7 DEF D!Next

LEMMA SameCseSteps ==
    /\ Cse!DropDuplicate => C!DropDuplicate
    /\ Cse!KeepCanonical => C!KeepCanonical
    /\ Cse!Finished <=> C!Finished
    /\ Cse!Deduped = C!Deduped
<1>1. /\ \A s : Cse!ReplacedIn(s) = C!ReplacedIn(s)
      /\ \A attrs : Cse!Repr(attrs) = C!Repr(attrs)
  BY DEF Cse!ReplacedIn, C!ReplacedIn, Cse!Replaced, C!Replaced, Cse!Repr, C!Repr
<1>2. \A op : /\ Cse!Key(op) = C!Key(op)
              /\ Cse!Rewired(op) = C!Rewired(op)
  BY <1>1 DEF Cse!Key, C!Key, Cse!Rewired, C!Rewired
<1>3. \A op : Cse!IsRedundant(op) <=> C!IsRedundant(op)
  BY <1>2, SameLists
     DEF Cse!IsRedundant, C!IsRedundant, Cse!ProducesGraphOutput, C!ProducesGraphOutput
<1>4. Cse!Scanning <=> C!Scanning
  BY DEF Cse!Scanning, C!Scanning
<1>5. Cse!DropDuplicate => C!DropDuplicate
  <2> DEFINE op == fused_graph.ops[cse_i]
  <2>1. ASSUME NEW a, NEW b PROVE Cse!DropFor(a, b) => C!DropFor(a, b)
    <3>1. /\ Cse!Range(op.outputs) = C!Range(op.outputs) /\ Cse!Key(op) = C!Key(op)
          /\ Cse!IsRedundant(op) <=> C!IsRedundant(op)
      BY <1>2, <1>3, SameLists
    <3> QED  BY <1>4, <3>1 DEF Cse!DropFor, C!DropFor
  <2>2. Cse!Key(op) = C!Key(op)
    BY <1>2
  <2> QED  BY <2>1, <2>2, SMTT(30) DEF Cse!DropDuplicate, C!DropDuplicate
<1>6. Cse!KeepCanonical => C!KeepCanonical
  BY <1>2, <1>3, <1>4 DEF Cse!KeepCanonical, C!KeepCanonical, Cse!KeepAs, C!KeepAs
<1>7. Cse!Finished <=> C!Finished
  BY DEF Cse!Finished, C!Finished
<1>8. Cse!Deduped = C!Deduped
  BY <1>1, SameLists DEF Cse!Deduped, C!Deduped
<1> QED  BY <1>5, <1>6, <1>7, <1>8

----------------------------------------------------------------------------
(***************************************************************************)
(* The constructor.                                                        *)
(***************************************************************************)

\* Each stage keeps its own invariant, on a graph that serves as the base
\* graph does.
StageInv ==
    /\ phase \in {"fuse", "dce", "cse", "step"}
    /\ phase \in {"fuse", "dce"} => C!Starts
    /\ phase = "dce" => D!IInv
    /\ phase = "cse" => C!IInv /\ C!ResultInv /\ C!KeyedByContent
    /\ phase = "step" => Verified(fused_graph) /\ fused_graph.ops \in Seq(Range(fused_graph.ops))
    /\ phase # "fuse" => Serves(fused_graph)

\* Where a pass begins.
DceEntered == IsGraph(fused_graph) /\ Verified(fused_graph) /\ D!StartsOn(fused_graph)
CseEntered == IsGraph(fused_graph) /\ Verified(fused_graph) /\ C!Starts

LEMMA PassesEnter ==
    /\ DceEntered => D!IInv
    /\ CseEntered => C!IInv /\ C!ResultInv /\ C!KeyedByContent
<1>1. DceEntered => D!IInv
  BY SameGraphs, NoGraphs, D!StartsInInv DEF DceEntered
<1>2. CseEntered => C!IInv
  BY SameGraphs, NoGraphs, C!InvInitially DEF CseEntered
<1>3. CseEntered => C!ResultInv
  BY SameGraphs, NoGraphs, C!ResultInitially DEF CseEntered
<1>4. CseEntered => C!KeyedByContent
  BY NoGraphs, C!KeyedInitially DEF CseEntered
<1> QED  BY <1>1, <1>2, <1>3, <1>4

LEMMA StagesBegin == PipelineInit => StageInv
BY DEF PipelineInit, StageInv, C!Starts

LEMMA StageSteps ==
    ASSUME ScanInv, StageInv, [PipelineNext]_allVars,
           (DceEntered => D!IInv)', (CseEntered => C!IInv /\ C!ResultInv /\ C!KeyedByContent)'
    PROVE  StageInv'
<1>1. CASE FuseOps
  <2>1. phase = "fuse" /\ phase' = "fuse" /\ cseVars' = cseVars
    BY <1>1 DEF FuseOps
  <2> QED  BY <2>1 DEF StageInv, C!Starts, cseVars
<1>2. CASE StartDce
  <2>1. /\ FusedGraph.ops = new_ops /\ IsGraph(FusedGraph) /\ Verified(FusedGraph)
        /\ Serves(FusedGraph)
    BY <1>2, FusedGraphServes DEF StartDce
  <2>2. /\ phase = "fuse" /\ phase' = "dce" /\ fused_graph' = FusedGraph /\ dce_i' = Len(new_ops)
        /\ live' = Range(graph.graph_outputs) /\ keep' = {}
        /\ graph' = graph /\ cseVars' = cseVars
    BY <1>2, <2>1 DEF StartDce, Leave, vars
  <2>3. DceEntered'
    <3>1. /\ IsGraph(fused_graph') /\ Verified(fused_graph')
          /\ dce_i' = Len(fused_graph'.ops) /\ live' = D!Range(fused_graph'.graph_outputs)
      BY <2>1, <2>2, SameLists DEF Serves
    <3> QED  BY <2>2, <3>1 DEF DceEntered, D!StartsOn
  <2>4. C!Starts'
    BY <2>2 DEF StageInv, C!Starts, cseVars
  <2>5. Serves(fused_graph)'
    BY <2>1, <2>2 DEF Serves
  <2> QED  BY <2>2, <2>3, <2>4, <2>5 DEF StageInv
<1>3. CASE EliminateDeadCode
  <2>1. /\ phase = "dce" /\ phase' = "dce" /\ fused_graph' = fused_graph /\ graph' = graph
        /\ cseVars' = cseVars
    BY <1>3 DEF EliminateDeadCode, vars
  <2>2. D!IInv'
    <3>1. D!IInv /\ [D!Next]_(D!vars)
      BY <1>3, <2>1, SameDceSteps DEF EliminateDeadCode, StageInv
    <3> QED  BY <3>1, NoGraphs, D!StepKeepsInv
  <2>3. C!Starts' /\ Serves(fused_graph)'
    BY <2>1 DEF StageInv, C!Starts, cseVars, Serves
  <2> QED  BY <2>1, <2>2, <2>3 DEF StageInv
<1>4. CASE StartCse
  <2>1. /\ phase = "dce" /\ D!IInv /\ D!Finished /\ Serves(fused_graph) /\ C!Starts
        /\ fused_graph' = D!Pruned /\ phase' = IF Verified(D!Pruned) THEN "cse" ELSE "rejected"
        /\ graph' = graph /\ cseVars' = cseVars
    BY <1>4, SameDceSteps DEF StartCse, Leave, StageInv, vars
  <2>2. Verified(D!Pruned) /\ External(D!Pruned) \subseteq External(fused_graph)
    BY <2>1, NoGraphs, D!PrunedIsRight, SameGraphs
  <2>3. /\ IsGraph(D!Pruned) /\ D!Pruned.graph_inputs = fused_graph.graph_inputs
        /\ D!Pruned.graph_outputs = fused_graph.graph_outputs
    BY <2>1, NoGraphs, D!PrunedIsGraph, SameGraphs
  <2>4. Serves(fused_graph)'
    BY <2>1, <2>2, <2>3 DEF Serves
  <2>5. CseEntered'
    BY <2>1, <2>2, <2>3 DEF CseEntered, C!Starts, cseVars
  <2> QED  BY <2>1, <2>2, <2>4, <2>5 DEF StageInv
<1>5. CASE EliminateCommonSubexpressions
  <2>1. phase = "cse" /\ phase' = "cse" /\ fused_graph' = fused_graph /\ graph' = graph
    BY <1>5 DEF EliminateCommonSubexpressions, vars
  <2>2. C!IInv /\ C!ResultInv /\ C!KeyedByContent /\ [C!Next]_(C!vars)
    BY <1>5, <2>1, SameCseSteps DEF EliminateCommonSubexpressions, StageInv, C!Next
  <2>3. C!IInv' /\ C!ResultInv' /\ C!KeyedByContent'
    BY <2>2, NoGraphs, C!InvStays, C!ResultStays, C!KeyedStays
  <2>4. Serves(fused_graph)'
    BY <2>1 DEF StageInv, Serves
  <2> QED  BY <2>1, <2>3, <2>4 DEF StageInv
<1>6. CASE StartStep
  <2>1. /\ phase = "cse" /\ C!IInv /\ C!ResultInv /\ C!Finished /\ Serves(fused_graph)
        /\ fused_graph' = C!Deduped /\ phase' = IF Verified(C!Deduped) THEN "step" ELSE "rejected"
        /\ graph' = graph
    BY <1>6, SameCseSteps DEF StartStep, Leave, StageInv, vars
  <2>2. Verified(C!Deduped) /\ External(C!Deduped) \subseteq External(fused_graph)
    BY <2>1, NoGraphs, C!DedupedIsRight, SameGraphs
  <2>3. /\ C!Deduped.ops = cse_ops /\ C!Deduped.graph_inputs = fused_graph.graph_inputs
        /\ C!Deduped.graph_outputs = fused_graph.graph_outputs
    BY <2>1, NoGraphs, C!DedupedFields
  <2>4. cse_ops \in Seq(Range(cse_ops))
    BY <2>1, SameLists DEF C!IInv, C!ListsAreLists
  <2>5. Serves(fused_graph)'
    BY <2>1, <2>2, <2>3 DEF Serves
  <2> QED  BY <2>1, <2>2, <2>3, <2>4, <2>5 DEF StageInv
<1>7. CASE ExecuteStep
  <2>1. phase = "step" /\ phase' = "step" /\ fused_graph' = fused_graph /\ graph' = graph
    BY <1>7 DEF ExecuteStep, vars
  <2> QED  BY <2>1 DEF StageInv, Serves
<1>8. CASE UNCHANGED engineVars
  <2>1. /\ phase' = phase /\ fused_graph' = fused_graph /\ graph' = graph
        /\ dceVars' = dceVars /\ cseVars' = cseVars
    BY <1>8 DEF engineVars, vars
  <2>2. Serves(fused_graph)' <=> Serves(fused_graph)
    BY <2>1 DEF Serves
  <2>3. C!Starts' <=> C!Starts
    BY <2>1 DEF C!Starts, cseVars
  <2>4. D!IInv => D!IInv'
    <3>1. UNCHANGED D!vars
      BY <2>1 DEF D!vars, dceVars
    <3> QED  BY <3>1, NoGraphs, D!StepKeepsInv
  <2>5. C!IInv /\ C!ResultInv /\ C!KeyedByContent
           => C!IInv' /\ C!ResultInv' /\ C!KeyedByContent'
    <3>1. UNCHANGED C!vars
      BY <2>1 DEF C!vars, cseVars
    <3> QED  BY <3>1, NoGraphs, C!InvStays, C!ResultStays, C!KeyedStays
  <2> QED  BY <2>1, <2>2, <2>3, <2>4, <2>5 DEF StageInv
<1> QED  BY <1>1, <1>2, <1>3, <1>4, <1>5, <1>6, <1>7, <1>8, QuietSteps DEF PipelineNext

LEMMA StagesStayRight == PipelineSpec => []StageInv
<1>1. PipelineInit => StageInv
  BY StagesBegin
<1>2. /\ ScanInv /\ StageInv
      /\ (DceEntered => D!IInv)' /\ (CseEntered => C!IInv /\ C!ResultInv /\ C!KeyedByContent)'
      /\ [PipelineNext]_allVars
      => StageInv'
  BY StageSteps
<1>3. DceEntered => D!IInv
  BY PassesEnter
<1>4. CseEntered => C!IInv /\ C!ResultInv /\ C!KeyedByContent
  BY PassesEnter
<1> QED  BY <1>1, <1>2, <1>3, <1>4, ScanStaysRight, PTL DEF PipelineSpec

\* "correct-by-construction": whatever base graph the verifier accepts, no
\* verify_graph call of the constructor raises, and the graph a step executes
\* asks for no tensor that the base graph does not ask for.
THEOREM EngineIsBuilt == PipelineSpec => []ConstructionSucceeds
<1>1. StageInv => ConstructionSucceeds
  BY DEF StageInv, ConstructionSucceeds, Serves
<1> QED  BY <1>1, StagesStayRight, PTL

----------------------------------------------------------------------------
(***************************************************************************)
(* What the ops run, through deduplication.                                *)
(***************************************************************************)

LEMMA ReplacedList ==
    ASSUME NEW s, s \in Seq(Range(s))
    PROVE  /\ C!ReplacedIn(s) \in Seq(Range(C!ReplacedIn(s))) /\ Len(C!ReplacedIn(s)) = Len(s)
           /\ DOMAIN C!ReplacedIn(s) = DOMAIN s
           /\ \A k \in DOMAIN s : C!ReplacedIn(s)[k] = C!Replaced(s[k])
<1> DEFINE r == C!ReplacedIn(s)
<1>1. Len(s) \in Nat /\ DOMAIN s = 1..Len(s)
  BY PositionsOfList
<1>2. r = [k \in 1..Len(s) |-> C!Replaced(s[k])]
  BY <1>1 DEF C!ReplacedIn
<1> HIDE DEF r
<1>3. DOMAIN r = 1..Len(s) /\ \A k \in 1..Len(s) : r[k] = C!Replaced(s[k]) /\ r[k] \in Range(r)
  BY <1>2 DEF Range
<1>4. r \in [1..Len(s) -> Range(r)]
  BY <1>2, <1>3
<1>5. r \in Seq(Range(r)) /\ Len(r) = Len(s)
  BY <1>1, <1>4, LenProperties, SeqDef
<1> QED  BY <1>1, <1>3, <1>5 DEF r

LEMMA RewiredOp ==
    ASSUME NEW op, IsOp(op)
    PROVE  C!Rewired(op) = MkOp(op.name, op.kind, C!ReplacedIn(op.inputs), op.outputs, op.attrs)
<1>1. op = MkOp(op.name, op.kind, op.inputs, op.outputs, op.attrs)
  BY DEF IsOp
<1> QED  BY <1>1 DEF MkOp, C!Rewired

LEMMA RewiredFits ==
    ASSUME NEW op, IsOp(op), Fits(op, {})
    PROVE  Fits(C!Rewired(op), DOMAIN remap)
<1> DEFINE kept == C!Rewired(op)
<1>1. /\ kept.kind = op.kind /\ kept.inputs = C!ReplacedIn(op.inputs)
      /\ kept.outputs = op.outputs /\ kept.attrs = op.attrs
  BY RewiredOp DEF MkOp
<1>2. ASSUME NEW t \in Range(op.inputs) PROVE t \in Range(kept.inputs) \cup DOMAIN remap
  <2>1. PICK k \in DOMAIN op.inputs : op.inputs[k] = t
    BY DEF Range
  <2>2. k \in DOMAIN kept.inputs /\ kept.inputs[k] = C!Replaced(t)
    BY <1>1, <2>1, ReplacedList DEF IsOp
  <2>3. t \notin DOMAIN remap => C!Replaced(t) = t
    BY DEF C!Replaced
  <2>4. C!Replaced(t) \in Range(kept.inputs)
    BY <2>2 DEF Range
  <2> QED  BY <2>3, <2>4
<1> HIDE DEF kept
<1>3. CASE op.kind = "fused"
  <2>1. SubOps(kept) = SubOps(op)
    BY <1>1, <1>3 DEF SubOps
  <2>2. ASSUME NEW m \in DOMAIN SubOps(kept)
        PROVE  Range(SubOps(kept)[m].inputs)
                  \subseteq Range(kept.inputs) \cup EarlierIn(SubOps(kept), m) \cup DOMAIN remap
    BY <1>2, <2>1 DEF Fits
  <2> QED  BY <1>1, <2>1, <2>2 DEF Fits, kept
<1>4. CASE op.kind # "fused"
  <2>1. SubOps(kept) = <<kept>>
    BY <1>1, <1>4, OneOp
  <2>2. \A m \in DOMAIN <<kept>> : <<kept>>[m] = kept
    BY OneOp
  <2> QED  BY <2>1, <2>2, OneOp DEF Fits, kept
<1> QED  BY <1>3, <1>4

\* and so computes what it computed, if the replacements have the values of
\* what they replace.
LEMMA RewiredRight ==
    ASSUME NEW op, IsOp(op), NEW v, Right(op, v), \A t \in DOMAIN remap : v[remap[t]] = v[t]
    PROVE  Right(C!Rewired(op), v)
<1> DEFINE kept == C!Rewired(op)
<1>1. /\ kept.kind = op.kind /\ kept.inputs = C!ReplacedIn(op.inputs)
      /\ kept.outputs = op.outputs /\ kept.attrs = op.attrs
  BY RewiredOp DEF MkOp
<1> HIDE DEF kept
<1>3. CASE op.kind = "fused"
  <2>1. SubOps(kept) = SubOps(op)
    BY <1>1, <1>3 DEF SubOps
  <2> QED  BY <2>1 DEF Right, kept
<1>4. CASE op.kind # "fused"
  <2>1. SubOps(kept) = <<kept>> /\ SubOps(op) = <<op>>
    BY <1>1, <1>4, OneOp
  <2>2. Exact(op) /\ SolvedIn(op, v)
    BY <2>1, OneOp DEF Right
  <2>3. /\ kept.inputs \in Seq(Range(kept.inputs)) /\ Len(kept.inputs) = Len(op.inputs)
        /\ DOMAIN kept.inputs = DOMAIN op.inputs
        /\ \A k \in DOMAIN op.inputs : kept.inputs[k] = C!Replaced(op.inputs[k])
    BY <1>1, ReplacedList DEF IsOp
  <2>4. Exact(kept)
    BY <1>1, <2>2, <2>3 DEF Exact
  <2>5. \A t : v[C!Replaced(t)] = v[t]
    BY SMTT(30) DEF C!Replaced
  <2>6. [k \in DOMAIN kept.inputs |-> v[kept.inputs[k]]]
           = [k \in DOMAIN op.inputs |-> v[op.inputs[k]]]
    BY <2>3, <2>5
  <2>7. SolvedIn(kept, v)
    BY <1>1, <2>2, <2>6 DEF SolvedIn
  <2> QED  BY <2>1, <2>4, <2>7, OneOp DEF Right, kept
<1> QED  BY <1>3, <1>4

\* An op is dropped for one of the same content: of a plain op that means the
\* same values, and of a fused op it cannot happen, as its content tells what
\* its sub-ops write, unless they write nothing.
LEMMA SameRepr ==
    ASSUME NEW op, NEW c, op.kind = "fused", c.kind = "fused", C!Repr(op.attrs) = C!Repr(c.attrs)
    PROVE  WrittenBy(SubOps(op)) = WrittenBy(SubOps(c))
<1> DEFINE f(x) == [k \in DOMAIN x.attrs.sub_ops |->
                      <<x.attrs.sub_ops[k].outputs, x.attrs.sub_ops[k].kind,
                        x.attrs.sub_ops[k].inputs, x.attrs.sub_ops[k].attrs.param>>]
<1>1. f(op) = f(c)
  BY DEF C!Repr
<1>2. DOMAIN f(op) = DOMAIN op.attrs.sub_ops /\ DOMAIN f(c) = DOMAIN c.attrs.sub_ops
  OBVIOUS
<1>3. \A k \in DOMAIN op.attrs.sub_ops : f(op)[k][1] = op.attrs.sub_ops[k].outputs
  OBVIOUS
<1>4. \A k \in DOMAIN c.attrs.sub_ops : f(c)[k][1] = c.attrs.sub_ops[k].outputs
  OBVIOUS
<1> HIDE DEF f
<1>5. /\ DOMAIN op.attrs.sub_ops = DOMAIN c.attrs.sub_ops
      /\ \A k \in DOMAIN c.attrs.sub_ops : op.attrs.sub_ops[k].outputs = c.attrs.sub_ops[k].outputs
  BY <1>1, <1>2, <1>3, <1>4
<1>6. SubOps(op) = op.attrs.sub_ops /\ SubOps(c) = c.attrs.sub_ops
  BY SMTT(30) DEF SubOps
<1> QED  BY <1>5, <1>6 DEF WrittenBy

LEMMA CseOp ==
    ASSUME C!IInv, C!Scanning
    PROVE  /\ cse_i \in DOMAIN fused_graph.ops /\ IsOp(fused_graph.ops[cse_i])
           /\ Range(fused_graph.ops[cse_i].outputs)
                 \cap WrittenBy(SubSeq(fused_graph.ops, 1, cse_i - 1)) = {}
<1>1. LET op == fused_graph.ops[cse_i]
          before == C!WrittenBy(SubSeq(fused_graph.ops, 1, cse_i - 1))
      IN /\ cse_i \in DOMAIN fused_graph.ops
         /\ cse_i \in Nat /\ cse_i + 1 \in 1..(Len(fused_graph.ops) + 1)
         /\ C!IsOp(op)
         /\ C!Range(op.outputs) \cap before = {}
         /\ C!WrittenBy(SubSeq(fused_graph.ops, 1, cse_i)) = before \cup C!Range(op.outputs)
  BY NoGraphs, C!ScanProperties
<1>2. IsGraph(fused_graph)
  BY SameGraphs DEF C!IInv
<1> QED  BY <1>1, <1>2, SameLists DEF IsGraph

LEMMA CanonicalOp ==
    ASSUME C!IInv, C!KeyedByContent, C!DropDuplicate, NEW c,
           c = seen[C!Key(fused_graph.ops[cse_i])]
    PROVE  /\ \E n \in DOMAIN cse_ops : c = cse_ops[n]
           /\ c.kind = fused_graph.ops[cse_i].kind
           /\ c.inputs = C!ReplacedIn(fused_graph.ops[cse_i].inputs)
           /\ C!Repr(c.attrs) = C!Repr(fused_graph.ops[cse_i].attrs)
           /\ c.outputs \in Seq(Range(c.outputs))
           /\ Len(c.outputs) = Len(fused_graph.ops[cse_i].outputs)
<1> DEFINE op == fused_graph.ops[cse_i]
           key == C!Key(op)
<1>1. key \in DOMAIN seen /\ c = seen[key]
  BY SMTT(30) DEF C!DropDuplicate, C!DropFor, C!IsRedundant
<1>2. key = <<c.kind, c.inputs, C!Repr(c.attrs), Len(c.outputs)>>
  BY <1>1 DEF C!KeyedByContent
<1>3. key = <<op.kind, C!ReplacedIn(op.inputs), C!Repr(op.attrs), Len(op.outputs)>>
  BY DEF C!Key
<1>4. c.outputs \in Seq(Range(c.outputs))
  BY <1>1, SameLists DEF C!IInv, C!SeenHaveArity
<1>5. \E n \in DOMAIN cse_ops : c = cse_ops[n]
  <2>1. Range(seen) \subseteq Range(cse_ops)
    BY SameLists DEF C!IInv, C!TypeOK
  <2> QED  BY <1>1, <2>1 DEF Range
<1> HIDE DEF key
<1> QED  BY <1>2, <1>3, <1>4, <1>5

\* A fused op that writes anything is kept: no other op has its content.
LEMMA FusedStays ==
    ASSUME C!IInv, C!KeyedByContent, C!DropDuplicate,
           AllFit(fused_graph.ops, {}), AllFit(cse_ops, DOMAIN remap),
           fused_graph.ops[cse_i].kind = "fused"
    PROVE  Range(fused_graph.ops[cse_i].outputs) = {}
<1> DEFINE op == fused_graph.ops[cse_i]
           c == seen[C!Key(op)]
<1>1. C!Scanning
  BY SMTT(30) DEF C!DropDuplicate, C!DropFor
<1>2. /\ cse_i \in DOMAIN fused_graph.ops
      /\ Range(op.outputs) \cap WrittenBy(SubSeq(fused_graph.ops, 1, cse_i - 1)) = {}
  BY <1>1, CseOp
<1>3. /\ \E n \in DOMAIN cse_ops : c = cse_ops[n]
      /\ c.kind = "fused" /\ C!Repr(c.attrs) = C!Repr(op.attrs)
  BY CanonicalOp
<1> HIDE DEF c, op
<1>4. PICK n \in DOMAIN cse_ops : c = cse_ops[n]
  BY <1>3
<1>5. WrittenBy(SubOps(op)) = WrittenBy(SubOps(c))
  <2>1. op.kind = "fused"
    BY DEF op
  <2> QED  BY <1>3, <2>1, SameRepr
<1>6. Range(op.outputs) = WrittenBy(SubOps(op)) /\ Range(c.outputs) = WrittenBy(SubOps(c))
  BY <1>2, <1>4 DEF AllFit, Fits, op
<1>7. Range(c.outputs) \subseteq WrittenBy(cse_ops)
  BY <1>4 DEF WrittenBy
<1>8. WrittenBy(cse_ops) \subseteq WrittenBy(SubSeq(fused_graph.ops, 1, cse_i - 1))
  BY SameLists DEF C!IInv, C!KeptWerePassed
<1> QED  BY <1>2, <1>5, <1>6, <1>7, <1>8 DEF op

LEMMA DropKeepsValues ==
    ASSUME C!IInv, C!KeyedByContent, C!DropDuplicate, graph' = graph,
           AllFit(fused_graph.ops, {}), AllFit(cse_ops, DOMAIN remap),
           AllRight(fused_graph.ops), AllRight(cse_ops), RemapKeepsValues
    PROVE  RemapKeepsValues'
<1> DEFINE op == fused_graph.ops[cse_i]
           c == seen[C!Key(op)]
           At(t) == CHOOSE k \in DOMAIN op.outputs : op.outputs[k] = t
           v == ValuesOf(graph)
<1>1. /\ C!Scanning
      /\ remap' = [t \in DOMAIN remap \cup Range(op.outputs) |->
                      IF t \in Range(op.outputs) THEN c.outputs[At(t)] ELSE remap[t]]
  <2>1. C!Range(op.outputs) = Range(op.outputs)
    BY SameLists
  <2> QED  BY <2>1 DEF C!DropDuplicate, C!DropFor
<1>2. /\ cse_i \in DOMAIN fused_graph.ops /\ IsOp(op)
      /\ Range(op.outputs) \cap WrittenBy(SubSeq(fused_graph.ops, 1, cse_i - 1)) = {}
  BY <1>1, CseOp
<1>3. /\ \E n \in DOMAIN cse_ops : c = cse_ops[n]
      /\ c.kind = op.kind /\ c.inputs = C!ReplacedIn(op.inputs)
      /\ C!Repr(c.attrs) = C!Repr(op.attrs)
      /\ c.outputs \in Seq(Range(c.outputs)) /\ Len(c.outputs) = Len(op.outputs)
  BY CanonicalOp
<1>4. \A t \in Range(op.outputs) : At(t) \in DOMAIN op.outputs /\ op.outputs[At(t)] = t
  BY DEF Range
<1>5. DOMAIN c.outputs = DOMAIN op.outputs
  BY <1>2, <1>3, PositionsOfList DEF IsOp
<1>6. v' = v
  BY DEF ValuesOf
<1> HIDE DEF At, c, op, v
<1>7. ASSUME Base!Implemented(graph), NEW t \in Range(op.outputs)
      PROVE  v[c.outputs[At(t)]] = v[t]
  <2>1. PICK n \in DOMAIN cse_ops : c = cse_ops[n]
    BY <1>3
  <2>2. CASE op.kind = "fused"
    BY <1>7, <2>2, FusedStays DEF op
  <2>3. CASE op.kind # "fused"
    <3>1. SubOps(op) = <<op>> /\ SubOps(c) = <<c>>
      BY <1>3, <2>3, OneOp
    <3>2. Right(op, v) /\ Right(c, v)
      BY <1>2, <1>7, <2>1 DEF AllRight, op, v
    <3>3. SolvedIn(op, v) /\ SolvedIn(c, v)
      BY <3>1, <3>2, OneOp DEF Right
    <3>4. /\ DOMAIN c.inputs = DOMAIN op.inputs
          /\ \A k \in DOMAIN op.inputs : c.inputs[k] = C!Replaced(op.inputs[k])
      BY <1>2, <1>3, ReplacedList DEF IsOp
    <3>5. \A u : v[C!Replaced(u)] = v[u]
      BY <1>7 DEF C!Replaced, RemapKeepsValues, v
    <3>6. [k \in DOMAIN c.inputs |-> v[c.inputs[k]]] = [k \in DOMAIN op.inputs |-> v[op.inputs[k]]]
      BY <3>4, <3>5
    <3>7. c.attrs.param = op.attrs.param
      <4>1. C!Repr(c.attrs)[1] = c.attrs.param /\ C!Repr(op.attrs)[1] = op.attrs.param
        BY DEF C!Repr
      <4> QED  BY <1>3, <4>1
    <3>8. v[c.outputs[At(t)]] = v[op.outputs[At(t)]]
      <4>1. At(t) \in DOMAIN op.outputs /\ At(t) \in DOMAIN c.outputs
        BY <1>4, <1>5
      <4>2. v[c.outputs[At(t)]] = Compute(c.kind, c.attrs.param, [k \in DOMAIN c.inputs |-> v[c.inputs[k]]], At(t))
        BY <3>3, <4>1 DEF SolvedIn
      <4>3. v[op.outputs[At(t)]] = Compute(op.kind, op.attrs.param, [k \in DOMAIN op.inputs |-> v[op.inputs[k]]], At(t))
        BY <3>3, <4>1 DEF SolvedIn
      <4> QED  BY <1>3, <3>6, <3>7, <4>2, <4>3
    <3> QED  BY <1>4, <3>8
  <2> QED  BY <2>2, <2>3
<1>8. ASSUME Base!Implemented(graph), NEW t \in DOMAIN remap' PROVE v[remap'[t]] = v[t]
  <2>1. CASE t \in Range(op.outputs)
    BY <1>1, <1>7, <1>8, <2>1
  <2>2. CASE t \notin Range(op.outputs)
    <3>1. t \in DOMAIN remap /\ remap'[t] = remap[t]
      BY <1>1, <1>8, <2>2
    <3> QED  BY <1>8, <3>1 DEF RemapKeepsValues, v
  <2> QED  BY <2>1, <2>2
<1> QED  BY <1>8, SMTT(30) DEF RemapKeepsValues, v

LEMMA CseKeepsContent ==
    ASSUME C!IInv, C!KeyedByContent, C!DropDuplicate \/ C!KeepCanonical, graph' = graph,
           AllFit(fused_graph.ops, {}), AllFit(cse_ops, DOMAIN remap),
           AllRight(fused_graph.ops), AllRight(cse_ops), RemapKeepsValues
    PROVE  AllFit(cse_ops, DOMAIN remap)' /\ AllRight(cse_ops)' /\ RemapKeepsValues'
<1> DEFINE op == fused_graph.ops[cse_i]
<1>1. CASE C!DropDuplicate
  <2>1. cse_ops' = cse_ops /\ DOMAIN remap \subseteq DOMAIN remap'
    BY <1>1 DEF C!DropDuplicate, C!DropFor
  <2>2. AllFit(cse_ops, DOMAIN remap')
    BY <2>1, FitsMore
  <2>3. RemapKeepsValues'
    BY <1>1, DropKeepsValues
  <2> QED  BY <2>1, <2>2, <2>3, SMTT(30) DEF AllRight
<1>2. CASE C!KeepCanonical
  <2>1. C!Scanning /\ cse_ops' = Append(cse_ops, C!Rewired(op)) /\ remap' = remap
    BY <1>2 DEF C!KeepCanonical, C!KeepAs
  <2>2. cse_i \in DOMAIN fused_graph.ops /\ IsOp(op)
    BY <2>1, CseOp
  <2>3. cse_ops \in Seq(Range(cse_ops))
    BY SameLists DEF C!IInv, C!ListsAreLists
  <2>4. \A k \in DOMAIN cse_ops' :
           (k \in DOMAIN cse_ops /\ cse_ops'[k] = cse_ops[k]) \/ cse_ops'[k] = C!Rewired(op)
    <3>1. /\ DOMAIN cse_ops' = 1..(Len(cse_ops) + 1)
          /\ \A k \in 1..Len(cse_ops) : cse_ops'[k] = cse_ops[k]
          /\ cse_ops'[Len(cse_ops) + 1] = C!Rewired(op)
      BY <2>1, <2>3, AppendedAt
    <3>2. Len(cse_ops) \in Nat /\ DOMAIN cse_ops = 1..Len(cse_ops)
      BY <2>3, PositionsOfList
    <3> HIDE DEF op
    <3> QED  BY <3>1, <3>2
  <2>5. Fits(C!Rewired(op), DOMAIN remap)
    BY <2>2, RewiredFits DEF AllFit
  <2>6. Base!Implemented(graph) => Right(C!Rewired(op), ValuesOf(graph))
    BY <2>2, RewiredRight DEF AllRight, RemapKeepsValues
  <2> HIDE DEF op
  <2>7. AllFit(cse_ops', DOMAIN remap')
    BY <2>1, <2>4, <2>5 DEF AllFit
  <2>8. AllRight(cse_ops)'
    BY <2>4, <2>6 DEF AllRight
  <2> QED  BY <2>1, <2>7, <2>8 DEF RemapKeepsValues
<1> QED  BY <1>1, <1>2

LEMMA ContentSteps ==
    ASSUME ScanInv, StageInv, ContentInv, [PipelineNext]_allVars
    PROVE  ContentInv'
<1>1. CASE FuseOps
  BY <1>1 DEF FuseOps, ContentInv
<1>2. CASE StartDce
  <2>1. /\ FusedGraph.ops = new_ops /\ Verified(FusedGraph)
        /\ WrittenBy(new_ops) = WrittenBy(graph.ops)
    BY <1>2, FusedGraphServes DEF StartDce
  <2>2. phase' = "dce" /\ fused_graph' = FusedGraph /\ graph' = graph
    BY <1>2, <2>1 DEF StartDce, Leave, vars
  <2>3. AllFit(new_ops, {}) /\ AllRight(new_ops)
    BY <1>2, FusedOpsFit, FusedOpsRight DEF StartDce
  <2>4. AllRight(fused_graph.ops)'
    BY <2>1, <2>2, <2>3 DEF AllRight
  <2> QED  BY <2>1, <2>2, <2>3, <2>4 DEF ContentInv
<1>3. CASE EliminateDeadCode
  <2>1. phase = "dce" /\ phase' = "dce" /\ fused_graph' = fused_graph /\ graph' = graph
    BY <1>3 DEF EliminateDeadCode, vars
  <2> QED  BY <2>1 DEF ContentInv, AllRight
<1>4. CASE StartCse
  <2>1. /\ phase = "dce" /\ D!IInv /\ D!Finished /\ C!Starts
        /\ fused_graph' = D!Pruned /\ graph' = graph /\ cseVars' = cseVars
        /\ phase' \in {"cse", "rejected"}
    BY <1>4, SameDceSteps DEF StartCse, Leave, StageInv, vars
  <2>2. Range(D!Pruned.ops) \subseteq Range(fused_graph.ops)
    BY <2>1, NoGraphs, D!PrunedIsGraph, SameLists
  <2>3. /\ AllFit(D!Pruned.ops, {}) /\ AllRight(D!Pruned.ops)
        /\ WrittenBy(D!Pruned.ops) \subseteq WrittenBy(graph.ops)
    BY <2>1, <2>2, PartOfOps DEF ContentInv
  <2>4. AllRight(fused_graph.ops)'
    BY <2>1, <2>3 DEF AllRight
  <2>5. cse_ops' = <<>> /\ remap' = <<>>
    BY <2>1 DEF C!Starts, cseVars
  <2>6. AllFit(cse_ops', DOMAIN remap') /\ AllRight(cse_ops)' /\ RemapKeepsValues'
    BY <2>5, EmptySeq DEF AllFit, AllRight, RemapKeepsValues
  <2> QED  BY <2>1, <2>3, <2>4, <2>6 DEF ContentInv
<1>5. CASE EliminateCommonSubexpressions
  <2>1. /\ phase = "cse" /\ phase' = "cse" /\ fused_graph' = fused_graph /\ graph' = graph
        /\ C!DropDuplicate \/ C!KeepCanonical
    BY <1>5, SameCseSteps DEF EliminateCommonSubexpressions, vars
  <2>2. C!IInv /\ C!KeyedByContent
    BY <2>1 DEF StageInv
  <2>3. AllFit(cse_ops, DOMAIN remap)' /\ AllRight(cse_ops)' /\ RemapKeepsValues'
    BY <2>1, <2>2, CseKeepsContent DEF ContentInv
  <2>4. AllRight(fused_graph.ops)'
    BY <2>1 DEF ContentInv, AllRight
  <2> QED  BY <2>1, <2>3, <2>4 DEF ContentInv
<1>6. CASE StartStep
  <2>1. /\ phase = "cse" /\ C!IInv /\ fused_graph' = C!Deduped
        /\ graph' = graph /\ cseVars' = cseVars /\ phase' \in {"step", "rejected"}
    BY <1>6, SameCseSteps DEF StartStep, Leave, StageInv, vars
  <2>2. C!Deduped.ops = cse_ops
    BY <2>1, NoGraphs, C!DedupedFields
  <2>3. /\ AllFit(cse_ops, DOMAIN remap) /\ AllRight(cse_ops)
        /\ WrittenBy(fused_graph.ops) \subseteq WrittenBy(graph.ops)
    BY <2>1 DEF ContentInv
  <2>4. /\ WrittenBy(cse_ops) \subseteq WrittenBy(SubSeq(fused_graph.ops, 1, cse_i - 1))
        /\ DOMAIN remap \subseteq WrittenBy(SubSeq(fused_graph.ops, 1, cse_i - 1))
        /\ DOMAIN remap \cap WrittenBy(cse_ops) = {}
    BY <2>1, SameLists DEF C!IInv, C!KeptWerePassed, C!TypeOK, C!RemapIsCanonical
  <2>5. WrittenBy(SubSeq(fused_graph.ops, 1, cse_i - 1)) \subseteq WrittenBy(fused_graph.ops)
    <3>1. fused_graph.ops \in Seq(Range(fused_graph.ops)) /\ cse_i \in 1..(Len(fused_graph.ops) + 1)
      BY <2>1, SameGraphs DEF C!IInv, C!TypeOK, IsGraph
    <3> QED  BY <3>1, PrefixIsPart
  <2>6. AllRight(fused_graph.ops)'
    BY <2>1, <2>2, <2>3 DEF AllRight
  <2>7. remap' = remap /\ fused_graph'.ops = cse_ops
    BY <2>1, <2>2 DEF cseVars
  <2> QED  BY <2>1, <2>3, <2>4, <2>5, <2>6, <2>7 DEF ContentInv
<1>7. CASE ExecuteStep
  <2>1. /\ phase = "step" /\ phase' = "step" /\ fused_graph' = fused_graph /\ graph' = graph
        /\ remap' = remap
    BY <1>7 DEF ExecuteStep, vars, cseVars
  <2> QED  BY <2>1 DEF ContentInv, AllRight
<1>8. CASE UNCHANGED engineVars
  <2>1. /\ phase' = phase /\ fused_graph' = fused_graph /\ graph' = graph
        /\ cse_ops' = cse_ops /\ remap' = remap
    BY <1>8 DEF engineVars, vars, cseVars
  <2> QED  BY <2>1 DEF ContentInv, AllRight, RemapKeepsValues
<1> QED  BY <1>1, <1>2, <1>3, <1>4, <1>5, <1>6, <1>7, <1>8, QuietSteps DEF PipelineNext

LEMMA ContentStaysRight == PipelineSpec => []ContentInv
<1>1. PipelineInit => ContentInv
  BY DEF PipelineInit, ContentInv
<1>2. ScanInv /\ StageInv /\ ContentInv /\ [PipelineNext]_allVars => ContentInv'
  BY ContentSteps
<1> QED  BY <1>1, <1>2, ScanStaysRight, StagesStayRight, PTL DEF PipelineSpec

----------------------------------------------------------------------------
(***************************************************************************)
(* What a step of the engine's graph finds.                                *)
(***************************************************************************)

\* Where a step is, and where it goes next.
LEMMA StepAt ==
    ASSUME StageInv, ContentInv, phase = "step", Executing, Step!AtOp
    PROVE  /\ pos \in DOMAIN fused_graph.ops /\ sub \in DOMAIN SubOps(fused_graph.ops[pos])
           /\ Step!CurrentOp = SubOps(fused_graph.ops[pos])[sub]
           /\ Fits(fused_graph.ops[pos], DOMAIN remap)
           /\ Len(SubOps(fused_graph.ops[pos])) \in Nat
           /\ Step!Advance =>
                 IF sub < Len(SubOps(fused_graph.ops[pos])) THEN pos' = pos /\ sub' = sub + 1
                 ELSE pos' = pos + 1 /\ sub' = 1
<1> DEFINE op == fused_graph.ops[pos]
<1>1. pos \in DOMAIN fused_graph.ops /\ sub \in Nat \ {0} /\ sub <= Len(SubOps(op))
  <2>1. pos <= Len(fused_graph.ops)
    BY DEF Step!AtOp
  <2>2. Len(fused_graph.ops) \in Nat /\ DOMAIN fused_graph.ops = 1..Len(fused_graph.ops)
    BY PositionsOfList DEF StageInv
  <2> QED  BY <2>1, <2>2 DEF Executing
<1>2. Fits(op, DOMAIN remap)
  BY <1>1 DEF ContentInv, AllFit
<1>3. Len(SubOps(op)) \in Nat /\ DOMAIN SubOps(op) = 1..Len(SubOps(op))
  BY <1>2, PositionsOfList DEF Fits
<1>4. sub \in DOMAIN SubOps(op)
  BY <1>1, <1>3
<1>5. CASE op.kind = "fused"
  <2>1. SubOps(op) = op.attrs.sub_ops
    BY <1>5 DEF SubOps
  <2>2. Step!CurrentOp = op.attrs.sub_ops[sub]
    BY <1>5 DEF Step!CurrentOp
  <2>3. Step!Advance =>
           IF sub < Len(op.attrs.sub_ops) THEN pos' = pos /\ sub' = sub + 1
           ELSE pos' = pos + 1 /\ sub' = 1
    BY <1>5 DEF Step!Advance
  <2> QED  BY <1>1, <1>2, <1>3, <1>4, <2>1, <2>2, <2>3
<1>6. CASE op.kind # "fused"
  <2>1. SubOps(op) = <<op>>
    BY <1>6, OneOp
  <2>2. Len(SubOps(op)) = 1 /\ SubOps(op)[1] = op
    BY <2>1, OneOp
  <2>3. sub = 1
    BY <1>1, <2>2
  <2>4. Step!CurrentOp = op
    BY <1>6 DEF Step!CurrentOp
  <2>5. Step!Advance => pos' = pos + 1 /\ sub' = 1
    BY <1>6 DEF Step!Advance
  <2> QED  BY <1>1, <1>2, <1>3, <1>4, <2>2, <2>3, <2>4, <2>5
<1> QED  BY <1>5, <1>6

\* The given tensors of an accepted base graph are made by none of its ops.
LEMMA GivenNotMade ==
    ASSUME NEW g, Verified(g)
    PROVE  (Range(g.graph_inputs) \cup External(g)) \cap WrittenBy(g.ops) = {}
<1>1. \A k \in DOMAIN g.ops : Range(g.ops[k].outputs) \cap Range(g.graph_inputs) = {}
  BY VerifiedGives
<1> QED  BY <1>1 DEF External, WrittenBy

\* What is made is what the ops of the engine's graph declare, and no tensor
\* that was dropped is.
LEMMA MadeAreWritten ==
    ASSUME ContentInv, phase = "step"
    PROVE  /\ MadeInStep = WrittenBy(fused_graph.ops)
           /\ MadeInStep \subseteq WrittenBy(graph.ops)
           /\ StaleReads \cap MadeInStep = {}
<1>1. \A k \in DOMAIN fused_graph.ops :
         Range(fused_graph.ops[k].outputs) = WrittenBy(SubOps(fused_graph.ops[k]))
  BY DEF ContentInv, AllFit, Fits
<1>2. MadeInStep = WrittenBy(fused_graph.ops)
  <2>1. WrittenBy(fused_graph.ops)
           = UNION {Range(fused_graph.ops[k].outputs) : k \in DOMAIN fused_graph.ops}
    BY DEF WrittenBy
  <2> QED  BY <1>1, <2>1 DEF MadeInStep
<1>3. /\ WrittenBy(fused_graph.ops) \subseteq WrittenBy(graph.ops)
      /\ DOMAIN remap \cap WrittenBy(fused_graph.ops) = {}
  BY DEF ContentInv
<1>4. StaleReads \subseteq DOMAIN remap
  BY DEF StaleReads
<1> QED  BY <1>2, <1>3, <1>4

\* What a sub-op that ran makes is reached.
LEMMA RanReaches ==
    ASSUME NEW k \in DOMAIN fused_graph.ops, NEW m \in DOMAIN SubOps(fused_graph.ops[k]), Ran(k, m)
    PROVE  Range(SubOps(fused_graph.ops[k])[m].outputs) \subseteq Reached
<1>1. Range(SubOps(fused_graph.ops[k])[m].outputs) \subseteq WrittenBy(SubOps(fused_graph.ops[k]))
  BY DEF WrittenBy
<1>2. WrittenBy(SubOps(fused_graph.ops[k])) \subseteq MadeInStep
  BY DEF MadeInStep
<1> QED  BY <1>1, <1>2 DEF Reached

\* What the op it is at reads is given, made before, or a tensor that was
\* dropped and is read by a sub-op.
LEMMA ReadsAre ==
    ASSUME StageInv, ContentInv, phase = "step", Executing, Step!AtOp
    PROVE  Range(Step!CurrentOp.inputs)
              \subseteq Range(graph.graph_inputs) \cup External(graph) \cup Reached \cup StaleReads
<1> DEFINE op == fused_graph.ops[pos]
           given == Range(graph.graph_inputs) \cup External(graph)
<1>1. /\ pos \in DOMAIN fused_graph.ops /\ sub \in DOMAIN SubOps(op)
      /\ Step!CurrentOp = SubOps(op)[sub] /\ Fits(op, DOMAIN remap)
  BY StepAt
<1>2. /\ fused_graph.ops \in Seq(Range(fused_graph.ops)) /\ pos \in 1..(Len(fused_graph.ops) + 1)
      /\ Verified(fused_graph) /\ Serves(fused_graph)
  BY DEF StageInv, Executing
<1>3. WrittenBy(SubSeq(fused_graph.ops, 1, pos - 1)) \subseteq Reached
  <2> SUFFICES ASSUME NEW t \in WrittenBy(SubSeq(fused_graph.ops, 1, pos - 1)) PROVE t \in Reached
    OBVIOUS
  <2>1. PICK k \in DOMAIN fused_graph.ops : k < pos /\ t \in Range(fused_graph.ops[k].outputs)
    BY <1>2, PrefixWriters
  <2>2. t \in WrittenBy(SubOps(fused_graph.ops[k]))
    BY <2>1 DEF ContentInv, AllFit, Fits
  <2>3. PICK m \in DOMAIN SubOps(fused_graph.ops[k]) : t \in Range(SubOps(fused_graph.ops[k])[m].outputs)
    BY <2>2 DEF WrittenBy
  <2>4. Ran(k, m)
    BY <2>1 DEF Ran
  <2> QED  BY <2>3, <2>4, RanReaches
<1>4. Range(op.inputs) \subseteq given \cup Reached
  <2>1. Range(op.inputs) \subseteq ProducedBefore(fused_graph, pos)
    BY <1>1, <1>2, VerifiedGives
  <2>2. Range(fused_graph.graph_inputs) \cup External(fused_graph) \subseteq given
    BY <1>2 DEF Serves
  <2> QED  BY <1>3, <2>1, <2>2 DEF ProducedBefore
<1>5. EarlierIn(SubOps(op), sub) \subseteq Reached
  <2> SUFFICES ASSUME NEW m \in DOMAIN SubOps(op), m < sub
               PROVE  Range(SubOps(op)[m].outputs) \subseteq Reached
    BY DEF EarlierIn
  <2>1. Ran(pos, m)
    BY DEF Ran
  <2> QED  BY <1>1, <2>1, RanReaches
<1>6. Range(SubOps(op)[sub].inputs) \subseteq Range(op.inputs) \cup EarlierIn(SubOps(op), sub) \cup DOMAIN remap
  BY <1>1 DEF Fits
<1>7. CASE op.kind = "fused"
  <2>1. Range(SubOps(op)[sub].inputs) \subseteq ReadBy(SubOps(op))
    BY <1>1 DEF ReadBy
  <2>2. ReadBy(SubOps(op)) \cap DOMAIN remap \subseteq StaleReads
    BY <1>1, <1>7 DEF StaleReads
  <2> QED  BY <1>1, <1>4, <1>5, <1>6, <2>1, <2>2
<1>8. CASE op.kind # "fused"
  <2>1. SubOps(op) = <<op>>
    BY <1>8, OneOp
  <2>2. SubOps(op)[sub] = op
    BY <1>1, <2>1, OneOp
  <2> QED  BY <1>1, <1>4, <2>2
<1> QED  BY <1>7, <1>8

\* The op that is run next was not run, and after it is what was run before
\* and the op itself.
LEMMA RunGoesOn ==
    ASSUME StageInv, ContentInv, phase = "step", Executing, Step!AtOp, Step!Advance,
           UNCHANGED fused_graph
    PROVE  /\ pos' \in 1..(Len(fused_graph.ops) + 1) /\ sub' \in Nat \ {0}
           /\ pos' <= Len(fused_graph.ops) => sub' <= Len(SubOps(fused_graph.ops[pos']))
           /\ \A k \in DOMAIN fused_graph.ops : \A m \in DOMAIN SubOps(fused_graph.ops[k]) :
                 Ran(k, m)' <=> (Ran(k, m) \/ (k = pos /\ m = sub))
<1> DEFINE op == fused_graph.ops[pos]
<1>1. /\ pos \in DOMAIN fused_graph.ops /\ sub \in DOMAIN SubOps(op)
      /\ Len(SubOps(op)) \in Nat /\ Fits(op, DOMAIN remap)
      /\ IF sub < Len(SubOps(op)) THEN pos' = pos /\ sub' = sub + 1 ELSE pos' = pos + 1 /\ sub' = 1
  BY StepAt
<1>2. /\ Len(fused_graph.ops) \in Nat /\ DOMAIN fused_graph.ops = 1..Len(fused_graph.ops)
      /\ DOMAIN SubOps(op) = 1..Len(SubOps(op))
  BY <1>1, PositionsOfList DEF StageInv, Fits
<1>3. /\ pos' \in 1..(Len(fused_graph.ops) + 1) /\ sub' \in Nat \ {0}
      /\ pos' <= Len(fused_graph.ops) => sub' <= Len(SubOps(fused_graph.ops[pos']))
  <2>1. CASE sub < Len(SubOps(op))
    <3>1. pos' = pos /\ sub' = sub + 1
      BY <1>1, <2>1
    <3> QED  BY <1>1, <1>2, <2>1, <3>1
  <2>2. CASE ~ (sub < Len(SubOps(op)))
    <3>1. pos' = pos + 1 /\ sub' = 1
      BY <1>1, <2>2
    <3>2. pos' \in 1..(Len(fused_graph.ops) + 1)
      BY <1>1, <1>2, <3>1
    <3>3. pos' <= Len(fused_graph.ops) => Len(SubOps(fused_graph.ops[pos'])) > 0
      <4>1. pos' <= Len(fused_graph.ops) => pos' \in DOMAIN fused_graph.ops
        BY <1>2, <3>2
      <4> QED  BY <4>1 DEF ContentInv, AllFit, Fits
    <3>4. pos' <= Len(fused_graph.ops) => Len(SubOps(fused_graph.ops[pos'])) \in Nat
      <4>1. pos' <= Len(fused_graph.ops) => pos' \in DOMAIN fused_graph.ops
        BY <1>2, <3>2
      <4> QED  BY <4>1, PositionsOfList DEF ContentInv, AllFit, Fits
    <3> QED  BY <3>1, <3>2, <3>3, <3>4
  <2> QED  BY <2>1, <2>2
<1>4. ASSUME NEW k \in DOMAIN fused_graph.ops, NEW m \in DOMAIN SubOps(fused_graph.ops[k])
      PROVE  (k < pos' \/ (k = pos' /\ m < sub'))
                <=> (k < pos \/ (k = pos /\ m < sub) \/ (k = pos /\ m = sub))
  <2>1. m \in Nat \ {0} /\ k \in Nat /\ (k = pos => m <= Len(SubOps(op)))
    <3>1. SubOps(fused_graph.ops[k]) \in Seq(Range(SubOps(fused_graph.ops[k])))
      BY DEF ContentInv, AllFit, Fits
    <3>2. DOMAIN SubOps(fused_graph.ops[k]) = 1..Len(SubOps(fused_graph.ops[k]))
          /\ Len(SubOps(fused_graph.ops[k])) \in Nat
      BY <3>1, PositionsOfList
    <3> QED  BY <1>2, <3>2
  <2>2. pos \in Nat /\ sub \in Nat /\ sub <= Len(SubOps(op)) /\ Len(SubOps(op)) \in Nat
    BY <1>1, <1>2
  <2> HIDE DEF op
  <2> QED  BY <1>1, <2>1, <2>2
<1> QED  BY <1>3, <1>4 DEF Ran

LEMMA RunKeepsExecuting ==
    ASSUME ScanInv, StageInv, ContentInv, phase = "step", Base!Implemented(graph), Executing,
           Step!RunOp, UNCHANGED <<graph, fused_graph, remap, num_layers>>
    PROVE  Executing'
<1> DEFINE op == fused_graph.ops[pos]
           cur == SubOps(op)[sub]
           v == ValuesOf(graph)
<1>1. Step!AtOp /\ Step!CanRun(Step!CurrentOp) /\ env' = Step!Assign(env, Step!CurrentOp)
         /\ Step!Advance /\ status = "running" /\ status' = "running"
  BY DEF Step!RunOp, Step!AtOp
<1>2. /\ pos \in DOMAIN fused_graph.ops /\ sub \in DOMAIN SubOps(op) /\ Step!CurrentOp = cur
      /\ Fits(op, DOMAIN remap)
  BY <1>1, StepAt
<1>3. /\ pos' \in 1..(Len(fused_graph.ops) + 1) /\ sub' \in Nat \ {0}
      /\ pos' <= Len(fused_graph.ops) => sub' <= Len(SubOps(fused_graph.ops[pos']))
      /\ \A k \in DOMAIN fused_graph.ops : \A m \in DOMAIN SubOps(fused_graph.ops[k]) :
            Ran(k, m)' <=> (Ran(k, m) \/ (k = pos /\ m = sub))
  BY <1>1, RunGoesOn
<1>4. Exact(cur) /\ SolvedIn(cur, v)
  BY <1>2 DEF ContentInv, AllRight, Right
<1>5. Range(cur.inputs) \subseteq DOMAIN env
  <2>1. Step!Range(Step!Arguments(cur)) \subseteq DOMAIN env
    BY <1>1, <1>2 DEF Step!CanRun
  <2>2. Step!Arguments(cur) = cur.inputs
    BY <1>4, ExactOps, SameStepOperators
  <2> QED  BY <2>1, <2>2, SameStepOperators
<1>6. env' = Base!Assign(env, cur)
  BY <1>1, <1>2, SameStepOperators
<1>7. /\ DOMAIN env' = DOMAIN env \cup Range(cur.outputs)
      /\ \A t \in DOMAIN env \ Range(cur.outputs) : env'[t] = env[t]
  <2> HIDE DEF cur
  <2> QED  BY <1>4, <1>6, AssignExact
<1>8. /\ MadeInStep' = MadeInStep /\ ReadInStep' = ReadInStep /\ StaleReads' = StaleReads
      /\ Provided' = Provided /\ ValuesOf(graph)' = v
  BY DEF MadeInStep, ReadInStep, StaleReads, Provided, Layers, ValuesOf
<1>9. Reached' = Reached \cup Range(cur.outputs)
  <2>1. Range(cur.outputs) \subseteq MadeInStep
    <3>1. Range(cur.outputs) \subseteq WrittenBy(SubOps(op))
      BY <1>2 DEF WrittenBy
    <3>2. WrittenBy(SubOps(op)) \subseteq MadeInStep
      BY <1>2 DEF MadeInStep
    <3> QED  BY <3>1, <3>2
  <2>2. ASSUME NEW t \in Reached' PROVE t \in Reached \cup Range(cur.outputs)
    <3>0. PICK k \in DOMAIN fused_graph.ops : \E m \in DOMAIN SubOps(fused_graph.ops[k]) :
             Ran(k, m)' /\ t \in Range(SubOps(fused_graph.ops[k])[m].outputs)
      BY <2>2 DEF Reached
    <3>1. PICK m \in DOMAIN SubOps(fused_graph.ops[k]) :
             Ran(k, m)' /\ t \in Range(SubOps(fused_graph.ops[k])[m].outputs)
      BY <3>0
    <3>2. CASE Ran(k, m)
      BY <3>1, <3>2, RanReaches
    <3>3. CASE k = pos /\ m = sub
      BY <3>1, <3>3
    <3> QED  BY <1>3, <3>1, <3>2, <3>3
  <2>3. ASSUME NEW t \in Reached PROVE t \in Reached'
    <3>0. PICK k \in DOMAIN fused_graph.ops : \E m \in DOMAIN SubOps(fused_graph.ops[k]) :
             Ran(k, m) /\ t \in Range(SubOps(fused_graph.ops[k])[m].outputs)
      BY <2>3 DEF Reached
    <3>1. PICK m \in DOMAIN SubOps(fused_graph.ops[k]) :
             Ran(k, m) /\ t \in Range(SubOps(fused_graph.ops[k])[m].outputs)
      BY <3>0
    <3>2. t \in MadeInStep /\ Ran(k, m)'
      BY <1>3, <2>3, <3>1 DEF Reached
    <3> QED  BY <1>8, <3>1, <3>2 DEF Reached
  <2>4. ASSUME NEW t \in Range(cur.outputs) PROVE t \in Reached'
    <3>1. PICK k \in DOMAIN fused_graph.ops : k = pos
      BY <1>2
    <3>2. PICK m \in DOMAIN SubOps(fused_graph.ops[k]) : m = sub
      BY <1>2, <3>1
    <3>3. Ran(k, m)' /\ t \in Range(SubOps(fused_graph.ops[k])[m].outputs)
      BY <1>3, <2>4, <3>1, <3>2
    <3> QED  BY <1>8, <2>1, <2>4, <3>3 DEF Reached
  <2> QED  BY <2>2, <2>3, <2>4
<1>10. ASSUME StaleReads = {}
       PROVE  \A t \in Range(cur.inputs) : env[t] = v[t]
  <2> SUFFICES ASSUME NEW t \in Range(cur.inputs) PROVE env[t] = v[t]
    OBVIOUS
  <2>1. t \in DOMAIN env /\ t \in Range(graph.graph_inputs) \cup External(graph) \cup Reached
    BY <1>1, <1>2, <1>5, <1>10, ReadsAre
  <2>2. CASE t \in Reached
    BY <1>10, <2>2 DEF Executing
  <2>3. CASE t \notin Reached
    <3>1. env[t] = Given(t)
      BY <2>1, <2>3 DEF Executing
    <3>2. graph \in Graphs /\ Verified(graph)
      BY DEF ScanInv, GraphAccepted
    <3>3. v[t] = Given(t)
      BY <2>1, <2>3, <3>2, ValuesSolve
    <3> QED  BY <3>1, <3>3
  <2> QED  BY <2>2, <2>3
<1> HIDE DEF cur, v
<1>11. DOMAIN env' = Provided' \cup Reached'
  BY <1>7, <1>8, <1>9 DEF Executing
<1>12. \A t \in DOMAIN env' \ Reached' : env'[t] = Given(t)
  <2>1. \A t \in DOMAIN env \ Reached : env[t] = Given(t)
    BY DEF Executing
  <2> QED  BY <1>7, <1>9, <2>1
<1>13. ASSUME StaleReads = {} PROVE \A t \in Reached' : env'[t] = v[t]
  <2>1. \A t \in Range(cur.outputs) : env'[t] = v[t]
    BY <1>4, <1>6, <1>10, <1>13, RunComputes
  <2>2. \A t \in Reached : env[t] = v[t] /\ t \in DOMAIN env
    BY <1>13 DEF Executing, v
  <2> QED  BY <1>7, <1>9, <2>1, <2>2
<1>14. ASSUME NEW k \in DOMAIN fused_graph.ops, NEW m \in DOMAIN SubOps(fused_graph.ops[k]), Ran(k, m)'
       PROVE  Range(SubOps(fused_graph.ops[k])[m].inputs) \subseteq DOMAIN env'
  <2>1. CASE Ran(k, m)
    <3>1. Range(SubOps(fused_graph.ops[k])[m].inputs) \subseteq DOMAIN env
      BY <2>1 DEF Executing
    <3> QED  BY <1>7, <3>1
  <2>2. CASE k = pos /\ m = sub
    <3>1. SubOps(fused_graph.ops[k])[m] = cur
      BY <2>2 DEF cur
    <3> QED  BY <1>5, <1>7, <3>1
  <2> QED  BY <1>3, <1>14, <2>1, <2>2
<1>15. StaleReads' = {} => \A t \in Reached' : env'[t] = ValuesOf(graph')[t]
  BY <1>8, <1>13 DEF ValuesOf
<1> QED  BY <1>1, <1>3, <1>11, <1>12, <1>14, <1>15 DEF Executing

\* What an op looks up in vain is neither provided nor made by any op.
LEMMA RaiseIsMissing ==
    ASSUME ScanInv, StageInv, ContentInv, phase = "step", Base!Implemented(graph), Executing,
           Step!Raise
    PROVE  Missing(ReadInStep) # {}
<1> DEFINE op == fused_graph.ops[pos]
           cur == SubOps(op)[sub]
<1>1. Step!AtOp /\ ~ Step!CanRun(Step!CurrentOp)
  BY SMTT(30) DEF Step!Raise
<1>2. /\ pos \in DOMAIN fused_graph.ops /\ sub \in DOMAIN SubOps(op) /\ Step!CurrentOp = cur
  BY <1>1, StepAt
<1>3. Exact(cur)
  BY <1>2 DEF ContentInv, AllRight, Right
<1>4. PICK t \in Range(cur.inputs) : t \notin DOMAIN env
  <2>1. Step!HasImplementation(cur) /\ Step!Arguments(cur) = cur.inputs
    BY <1>3, ExactOps, SameStepOperators
  <2>2. ~ (Step!Range(Step!Arguments(cur)) \subseteq DOMAIN env)
    BY <1>1, <1>2, <2>1 DEF Step!CanRun
  <2>3. ~ (Range(cur.inputs) \subseteq DOMAIN env)
    BY <2>1, <2>2, SameStepOperators
  <2> QED  BY <2>3
<1>5. t \notin Provided /\ t \notin Reached
  BY <1>4 DEF Executing
<1>6. t \in Range(graph.graph_inputs) \cup External(graph) \cup StaleReads
  BY <1>1, <1>2, <1>4, <1>5, ReadsAre
<1>7. t \notin MadeInStep
  <2>1. Verified(graph)
    BY DEF ScanInv, GraphAccepted
  <2> QED  BY <1>6, <2>1, GivenNotMade, MadeAreWritten
<1>8. t \in ReadInStep
  <2>1. t \in ReadBy(SubOps(op))
    BY <1>2, <1>4 DEF ReadBy
  <2> QED  BY <1>2, <2>1 DEF ReadInStep
<1> QED  BY <1>5, <1>7, <1>8 DEF Missing

LEMMA ExecutionStarts ==
    ASSUME ExecInv, StartStep, ContentInv', StageInv'
    PROVE  phase' = "step" => Executing'
<1> SUFFICES ASSUME phase' = "step" PROVE Executing'
  OBVIOUS
<1>1. /\ phase = "cse" /\ env' = StepTensors /\ num_layers' = num_layers
      /\ pos' = pos /\ sub' = sub /\ status' = status
  BY DEF StartStep, Leave
<1>2. pos' = 1 /\ sub' = 1 /\ status' = "running"
  BY <1>1 DEF ExecInv
<1>3. /\ DOMAIN env' = Provided' /\ \A t \in DOMAIN env' : env'[t] = Given(t)
  <2>1. Provided' = Provided
    BY <1>1 DEF Provided, Layers
  <2> QED  BY <1>1, <2>1 DEF StepTensors
<1>4. fused_graph'.ops \in Seq(Range(fused_graph'.ops)) /\ AllFit(fused_graph'.ops, DOMAIN remap')
  BY DEF StageInv, ContentInv
<1>5. Len(fused_graph'.ops) \in Nat /\ DOMAIN fused_graph'.ops = 1..Len(fused_graph'.ops)
  BY <1>4, PositionsOfList
<1>6. \A k \in DOMAIN fused_graph'.ops :
         /\ Len(SubOps(fused_graph'.ops[k])) \in Nat /\ Len(SubOps(fused_graph'.ops[k])) > 0
         /\ DOMAIN SubOps(fused_graph'.ops[k]) = 1..Len(SubOps(fused_graph'.ops[k]))
  BY <1>4, PositionsOfList DEF AllFit, Fits
<1>7. /\ pos' \in 1..(Len(fused_graph'.ops) + 1) /\ sub' \in Nat \ {0}
      /\ pos' <= Len(fused_graph'.ops) => sub' <= Len(SubOps(fused_graph'.ops[pos']))
  <2>1. pos' <= Len(fused_graph'.ops) => pos' \in DOMAIN fused_graph'.ops
    BY <1>2, <1>5
  <2> QED  BY <1>2, <1>5, <1>6, <2>1
<1>8. ASSUME NEW k \in DOMAIN fused_graph'.ops, NEW m \in DOMAIN SubOps(fused_graph'.ops[k])
      PROVE  ~ Ran(k, m)'
  BY <1>2, <1>5, <1>6 DEF Ran
<1>9. Reached' = {}
  BY <1>8 DEF Reached
<1> QED  BY <1>2, <1>3, <1>7, <1>8, <1>9 DEF Executing

LEMMA ExecSteps ==
    ASSUME ScanInv, StageInv, ContentInv, ExecInv, [PipelineNext]_allVars, StageInv', ContentInv'
    PROVE  ExecInv'
<1>1. CASE FuseOps \/ StartDce \/ EliminateDeadCode \/ StartCse \/ EliminateCommonSubexpressions
  <2>1. phase' # "step" /\ UNCHANGED <<pos, sub, status>> /\ phase # "step"
    BY <1>1 DEF FuseOps, Fuse, StartDce, EliminateDeadCode, StartCse,
                EliminateCommonSubexpressions, Leave, stepVars
  <2> QED  BY <2>1 DEF ExecInv
<1>2. CASE StartStep
  <2>1. phase # "step" /\ UNCHANGED <<pos, sub, status>>
    BY <1>2 DEF StartStep
  <2>2. phase' = "step" => Executing'
    BY <1>2, ExecutionStarts
  <2> QED  BY <2>1, <2>2 DEF ExecInv
<1>3. CASE ExecuteStep
  <2>1. /\ phase = "step" /\ phase' = "step" /\ UNCHANGED <<graph, fused_graph, remap, num_layers>>
        /\ Step!Next
    BY <1>3 DEF ExecuteStep, vars, cseVars
  <2>2. ASSUME Base!Implemented(graph) PROVE Executing'
    <3>1. Executing
      BY <2>1, <2>2 DEF ExecInv
    <3>2. CASE Step!RunOp
      BY <2>1, <2>2, <3>1, <3>2, RunKeepsExecuting
    <3>3. ASSUME UNCHANGED <<pos, sub, env>>
          PROVE  /\ Reached' = Reached /\ Provided' = Provided /\ StaleReads' = StaleReads
                 /\ Missing(ReadInStep)' = Missing(ReadInStep)
                 /\ ValuesOf(graph)' = ValuesOf(graph)
                 /\ \A k, m : Ran(k, m)' <=> Ran(k, m)
      BY <2>1, <3>3 DEF Reached, Ran, MadeInStep, ReadInStep, Missing, Provided, Layers, StaleReads,
                        ValuesOf
    <3>4. CASE Step!Raise
      <4>1. Missing(ReadInStep) # {}
        BY <2>1, <2>2, <3>1, <3>4, RaiseIsMissing
      <4>2. status' = "raised" /\ UNCHANGED <<pos, sub, env>>
        BY <3>4 DEF Step!Raise
      <4> QED  BY <2>1, <3>1, <3>3, <4>1, <4>2 DEF Executing
    <3>5. CASE Step!Return
      <4>1. status' = "returned" /\ UNCHANGED <<pos, sub, env>> /\ pos > Len(fused_graph.ops)
        BY <3>5 DEF Step!Return
      <4> QED  BY <2>1, <3>1, <3>3, <4>1 DEF Executing
    <3>6. CASE Step!Terminated
      <4>1. UNCHANGED <<pos, sub, env, status>>
        BY <3>6 DEF Step!Terminated, Step!vars
      <4> QED  BY <2>1, <3>1, <3>3, <4>1 DEF Executing
    <3> QED  BY <2>1, <3>2, <3>4, <3>5, <3>6 DEF Step!Next
  <2> QED  BY <2>1, <2>2 DEF ExecInv
<1>4. CASE ReadResults \/ UNCHANGED allVars
  <2>1. UNCHANGED <<graph, fused_graph, remap, phase, pos, sub, env, status>> /\ num_layers' = num_layers
    BY <1>4 DEF ReadResults, allVars, engineVars, vars, cseVars, stepVars
  <2>2. /\ Reached' = Reached /\ Provided' = Provided /\ StaleReads' = StaleReads
        /\ Missing(ReadInStep)' = Missing(ReadInStep)
        /\ ValuesOf(graph)' = ValuesOf(graph)
        /\ \A k, m : Ran(k, m)' <=> Ran(k, m)
    BY <2>1 DEF Reached, Ran, MadeInStep, ReadInStep, Missing, Provided, Layers, StaleReads, ValuesOf
  <2>3. Executing => Executing'
    BY <2>1, <2>2 DEF Executing
  <2> QED  BY <2>1, <2>3 DEF ExecInv
<1> QED  BY <1>1, <1>2, <1>3, <1>4 DEF PipelineNext

LEMMA StepStaysRight == PipelineSpec => [](StageInv /\ ContentInv /\ ExecInv)
<1>1. PipelineInit => ExecInv
  BY DEF PipelineInit, ExecInv
<1>2. /\ ScanInv /\ StageInv /\ ContentInv /\ ExecInv /\ StageInv' /\ ContentInv'
      /\ [PipelineNext]_allVars
      => ExecInv'
  BY ExecSteps
<1> QED  BY <1>1, <1>2, ScanStaysRight, StagesStayRight, ContentStaysRight, PTL DEF PipelineSpec

\* What has been looked up stays so: nothing runs after a step has returned.
LEMMA AnswerSteps ==
    ASSUME AnswerInv, [PipelineNext]_allVars
    PROVE  AnswerInv'
<1>1. CASE FuseOps \/ StartDce \/ EliminateDeadCode \/ StartCse \/ EliminateCommonSubexpressions
              \/ StartStep
  <2>1. phase # "step" /\ result' = result
    BY <1>1 DEF FuseOps, StartDce, EliminateDeadCode, StartCse, EliminateCommonSubexpressions,
                StartStep
  <2> QED  BY <2>1 DEF AnswerInv
<1>2. CASE ExecuteStep
  <2>1. phase' = phase /\ result' = result /\ num_layers' = num_layers /\ Step!Next
    BY <1>2 DEF ExecuteStep
  <2>2. StepResults' = StepResults
    BY <2>1 DEF StepResults, Layers
  <2>3. ASSUME status = "returned" PROVE status' = status /\ env' = env
    <3>1. Step!Terminated
      BY <2>1, <2>3 DEF Step!Next, Step!RunOp, Step!Raise, Step!Return, Step!AtOp
    <3> QED  BY <3>1 DEF Step!Terminated, Step!vars
  <2> QED  BY <2>1, <2>2, <2>3 DEF AnswerInv
<1>3. CASE ReadResults
  <2>1. /\ phase = "step" /\ status = "returned"
        /\ result' = IF StepResults \subseteq DOMAIN env THEN "found" ELSE "missing"
        /\ UNCHANGED <<phase, status, env, num_layers>>
    BY <1>3 DEF ReadResults, engineVars, stepVars
  <2>2. StepResults' = StepResults
    BY <2>1 DEF StepResults, Layers
  <2> QED  BY <2>1, <2>2 DEF AnswerInv
<1>4. CASE UNCHANGED allVars
  <2>1. UNCHANGED <<phase, status, env, num_layers, result>>
    BY <1>4 DEF allVars, engineVars, stepVars
  <2>2. StepResults' = StepResults
    BY <2>1 DEF StepResults, Layers
  <2> QED  BY <2>1, <2>2 DEF AnswerInv
<1> QED  BY <1>1, <1>2, <1>3, <1>4 DEF PipelineNext

LEMMA AnswersStay == PipelineSpec => []AnswerInv
<1>1. PipelineInit => AnswerInv
  BY DEF PipelineInit, AnswerInv
<1>2. AnswerInv /\ [PipelineNext]_allVars => AnswerInv'
  BY AnswerSteps
<1> QED  BY <1>1, <1>2, PTL DEF PipelineSpec

\* When the ops have all run, everything is there that is provided or made,
\* and nothing that was read is missing.
LEMMA AllRan ==
    ASSUME StageInv, ContentInv, ExecInv, Base!Implemented(graph), status = "returned"
    PROVE  /\ phase = "step" /\ Executing /\ Reached = MadeInStep
           /\ DOMAIN env = Provided \cup MadeInStep /\ ReadInStep \subseteq DOMAIN env
<1>1. phase = "step" /\ Executing
  BY DEF ExecInv
<1>2. \A k \in DOMAIN fused_graph.ops : \A m : Ran(k, m)
  <2>1. Len(fused_graph.ops) \in Nat /\ DOMAIN fused_graph.ops = 1..Len(fused_graph.ops)
    BY <1>1, PositionsOfList DEF StageInv
  <2>2. pos > Len(fused_graph.ops) /\ pos \in Nat
    BY <1>1, <2>1 DEF Executing
  <2>3. \A k \in DOMAIN fused_graph.ops : k < pos
    BY <2>1, <2>2
  <2> QED  BY <2>3 DEF Ran
<1>3. Reached = MadeInStep
  <2>1. ASSUME NEW t \in MadeInStep PROVE t \in Reached
    <3>1. PICK k \in DOMAIN fused_graph.ops : t \in WrittenBy(SubOps(fused_graph.ops[k]))
      BY <2>1 DEF MadeInStep
    <3>2. PICK m \in DOMAIN SubOps(fused_graph.ops[k]) :
             t \in Range(SubOps(fused_graph.ops[k])[m].outputs)
      BY <3>1 DEF WrittenBy
    <3> QED  BY <1>2, <3>2, RanReaches
  <2> QED  BY <2>1 DEF Reached
<1>4. ASSUME NEW t \in ReadInStep PROVE t \in DOMAIN env
  <2>1. PICK k \in DOMAIN fused_graph.ops : t \in ReadBy(SubOps(fused_graph.ops[k]))
    BY <1>4 DEF ReadInStep
  <2>2. PICK m \in DOMAIN SubOps(fused_graph.ops[k]) :
           t \in Range(SubOps(fused_graph.ops[k])[m].inputs)
    BY <2>1 DEF ReadBy
  <2> QED  BY <1>1, <1>2, <2>2 DEF Executing
<1> QED  BY <1>1, <1>3, <1>4 DEF Executing

\* With a base graph that suits the step, only dropped tensors can be missing.
LEMMA SuitableMiss ==
    ASSUME ScanInv, StageInv, ContentInv, phase = "step", SuitsStep(graph)
    PROVE  Missing(ReadInStep) \subseteq StaleReads /\ Missing(StepResults) = {}
<1>1. /\ MadeInStep = WrittenBy(fused_graph.ops) /\ MadeInStep \subseteq WrittenBy(graph.ops)
  BY MadeAreWritten
<1>2. Verified(fused_graph) /\ Serves(fused_graph) /\ Verified(graph)
  BY DEF StageInv, ScanInv, GraphAccepted
<1>3. ASSUME NEW t \in Missing(ReadInStep) PROVE t \in StaleReads
  <2>1. t \in ReadInStep /\ t \notin Provided /\ t \notin MadeInStep
    BY <1>3 DEF Missing
  <2>2. PICK k \in DOMAIN fused_graph.ops : t \in ReadBy(SubOps(fused_graph.ops[k]))
    BY <2>1 DEF ReadInStep
  <2> DEFINE op == fused_graph.ops[k]
  <2>3. PICK m \in DOMAIN SubOps(op) : t \in Range(SubOps(op)[m].inputs)
    BY <2>2 DEF ReadBy
  <2>4. t \notin Range(op.inputs)
    <3> SUFFICES ASSUME t \in Range(op.inputs) PROVE FALSE
      OBVIOUS
    <3>1. t \in DOMAIN fused_graph.shapes
      BY <1>2, VerifiedGives
    <3>2. t \in External(fused_graph)
      BY <1>1, <2>1, <3>1 DEF External
    <3> QED  BY <1>2, <2>1, <3>2 DEF Serves, SuitsStep
  <2>5. t \notin EarlierIn(SubOps(op), m)
    <3>1. EarlierIn(SubOps(op), m) \subseteq WrittenBy(SubOps(op))
      BY DEF EarlierIn, WrittenBy
    <3>2. WrittenBy(SubOps(op)) \subseteq MadeInStep
      BY DEF MadeInStep
    <3> QED  BY <2>1, <3>1, <3>2
  <2>6. t \in DOMAIN remap
    <3>1. Fits(op, DOMAIN remap)
      BY DEF ContentInv, AllFit
    <3> QED  BY <2>3, <2>4, <2>5, <3>1 DEF Fits
  <2>7. op.kind = "fused"
    <3> SUFFICES ASSUME op.kind # "fused" PROVE FALSE
      OBVIOUS
    <3>1. SubOps(op) = <<op>>
      BY OneOp
    <3>2. SubOps(op)[m] = op
      BY <2>3, <3>1, OneOp
    <3> QED  BY <2>3, <2>4, <3>2
  <2> QED  BY <2>2, <2>6, <2>7 DEF StaleReads
<1>4. StepResults \subseteq MadeInStep
  <2> SUFFICES ASSUME NEW t \in StepResults PROVE t \in MadeInStep
    OBVIOUS
  <2>1. t \in WrittenBy(graph.ops) /\ t \in Range(graph.graph_outputs)
    BY DEF SuitsStep
  <2>2. Range(fused_graph.graph_outputs)
           \subseteq WrittenBy(fused_graph.ops) \cup Range(fused_graph.graph_inputs)
    BY <1>2 DEF Verified, CollectGraphErrors, UnproducedOutputs
  <2>3. t \notin Range(graph.graph_inputs)
    BY <1>2, <2>1, GivenNotMade
  <2> QED  BY <1>1, <1>2, <2>1, <2>2, <2>3 DEF Serves
<1> QED  BY <1>3, <1>4 DEF Missing

\* A step raises exactly when something it reads, an op's input or a result,
\* is neither provided nor made; of a base graph that suits the step that is a
\* tensor which common-subexpression elimination has dropped and a fused op
\* still reads inside.
THEOREM RaisesOnlyOnMissing == PipelineSpec => []RaisesExactlyOnMissing
<1>1. ASSUME ScanInv, StageInv, ContentInv, ExecInv, AnswerInv PROVE RaisesExactlyOnMissing
  <2> SUFFICES ASSUME phase = "step", Base!Implemented(graph)
               PROVE  /\ status = "raised" => Missing(ReadInStep) # {}
                      /\ status = "returned" => Missing(ReadInStep) = {}
                      /\ result = "missing" => Missing(StepResults) # {}
                      /\ result = "found" => Missing(StepResults) = {}
                      /\ SuitsStep(graph) =>
                            Missing(ReadInStep) \subseteq StaleReads /\ Missing(StepResults) = {}
    BY DEF RaisesExactlyOnMissing
  <2>1. status = "raised" => Missing(ReadInStep) # {}
    BY <1>1 DEF ExecInv, Executing
  <2>2. status = "returned" =>
           DOMAIN env = Provided \cup MadeInStep /\ ReadInStep \subseteq DOMAIN env
    BY <1>1, AllRan
  <2>3. status = "returned" => Missing(ReadInStep) = {}
    BY <2>2 DEF Missing
  <2>4. /\ result = "missing" => Missing(StepResults) # {}
        /\ result = "found" => Missing(StepResults) = {}
    BY <1>1, <2>2 DEF AnswerInv, Missing
  <2>5. SuitsStep(graph) =>
           Missing(ReadInStep) \subseteq StaleReads /\ Missing(StepResults) = {}
    BY <1>1, SuitableMiss
  <2> QED  BY <2>1, <2>3, <2>4, <2>5
<1> QED  BY <1>1, ScanStaysRight, StepStaysRight, AnswersStay, PTL

\* No result is looked up under the name of a tensor that step provides.
LEMMA ResultsAreNotProvided == StepResults \cap Provided = {}
<1>1. \A n, l : /\ CacheIoNames(n, l).k_in[1] = "cache_k_in" /\ CacheIoNames(n, l).v_in[1] = "cache_v_in"
                /\ CacheIoNames(n, l).k_out[1] = "cache_k_out" /\ CacheIoNames(n, l).v_out[1] = "cache_v_out"
  BY DEF CacheIoNames
<1>2. \A t \in StepResults : t[1] \in {"output", "cache_k_out", "cache_v_out"}
  BY <1>1 DEF StepResults
<1>3. \A n, l : \A t \in WeightNames(n, l) :
         t[1] \in {"w_norm1", "w_qkv", "w_o", "w_norm2", "w_up", "w_down"}
  BY DEF WeightNames
<1>4. \A t \in Provided :
         t[1] \in {"x", "w_norm1", "w_qkv", "w_o", "w_norm2", "w_up", "w_down", "cache_k_in", "cache_v_in"}
  <2> SUFFICES ASSUME NEW t \in Provided
               PROVE  t[1] \in {"x", "w_norm1", "w_qkv", "w_o", "w_norm2", "w_up", "w_down",
                                "cache_k_in", "cache_v_in"}
    OBVIOUS
  <2>1. \/ t = <<"x", 0>>
        \/ \E l \in Layers : t \in WeightNames(num_layers, l)
        \/ \E l \in Layers :
              t \in {CacheIoNames(num_layers, l).k_in, CacheIoNames(num_layers, l).v_in}
    BY DEF Provided
  <2> QED  BY <1>1, <1>3, <2>1
<1> QED  BY <1>2, <1>4

\* The passes are semantics-preserving, whatever the ops compute: a step that
\* finds its results has them, and every output an op of the base graph makes,
\* with the base graph's value.
THEOREM StepIsRight == PipelineSpec => []StepComputesBaseOutputs
<1>1. ASSUME ScanInv, StageInv, ContentInv, ExecInv, AnswerInv PROVE StepComputesBaseOutputs
  <2> SUFFICES ASSUME result = "found", Base!Implemented(graph), StaleReads \cap Provided = {},
                      NEW t \in StepResults \cup (Range(graph.graph_outputs) \cap WrittenBy(graph.ops))
               PROVE  t \in DOMAIN env /\ env[t] = BaseValues[t]
    BY DEF StepComputesBaseOutputs
  <2>1. status = "returned" /\ StepResults \subseteq DOMAIN env
    BY <1>1 DEF AnswerInv
  <2>2. /\ phase = "step" /\ Executing /\ Reached = MadeInStep
        /\ DOMAIN env = Provided \cup MadeInStep /\ ReadInStep \subseteq DOMAIN env
    BY <1>1, <2>1, AllRan
  <2>3. MadeInStep = WrittenBy(fused_graph.ops) /\ StaleReads \cap MadeInStep = {}
    BY <1>1, <2>2, MadeAreWritten
  <2>4. StaleReads = {}
    <3>1. StaleReads \subseteq ReadInStep
      BY DEF StaleReads, ReadInStep
    <3> QED  BY <2>2, <2>3, <3>1
  <2>5. t \in Reached
    <3>1. CASE t \in StepResults
      BY <2>1, <2>2, <3>1, ResultsAreNotProvided
    <3>2. CASE t \in Range(graph.graph_outputs) \cap WrittenBy(graph.ops)
      <4>1. Verified(fused_graph) /\ Serves(fused_graph) /\ Verified(graph)
        BY <1>1, <2>2 DEF StageInv, ScanInv, GraphAccepted
      <4>2. Range(fused_graph.graph_outputs)
               \subseteq WrittenBy(fused_graph.ops) \cup Range(fused_graph.graph_inputs)
        BY <4>1 DEF Verified, CollectGraphErrors, UnproducedOutputs
      <4>3. t \notin Range(graph.graph_inputs)
        BY <3>2, <4>1, GivenNotMade
      <4> QED  BY <2>2, <2>3, <3>2, <4>1, <4>2, <4>3 DEF Serves
    <3> QED  BY <3>1, <3>2
  <2>6. t \in DOMAIN env /\ env[t] = ValuesOf(graph)[t]
    BY <2>2, <2>4, <2>5 DEF Executing
  <2> QED  BY <2>6 DEF BaseValues, ValuesOf
<1> QED  BY <1>1, ScanStaysRight, StepStaysRight, AnswersStay, PTL

----------------------------------------------------------------------------
(***************************************************************************)
(* The summary's account, through pruning and deduplication.               *)
(***************************************************************************)

LEMMA WeighPicked ==
    ASSUME NEW w, NEW ops, ops \in Seq(Range(ops)), NEW P \in SUBSET DOMAIN ops,
           \A k \in DOMAIN ops : w[ops[k].name] \in Nat
    PROVE  Weighed(w, NamesOf(D!OpsAmong(ops, P))) = Total([k \in DOMAIN ops |-> w[ops[k].name]], P)
<1> DEFINE picked == D!OpsAmong(ops, P)
           M == 1..D!Cardinality(P)
           names == NamesOf(picked)
           h == [k \in M |-> D!NthOf(P, k)]
           f == [k \in DOMAIN names |-> w[names[k]]]
           g == [k \in DOMAIN ops |-> w[ops[k].name]]
<1>1. /\ D!Cardinality(P) \in Nat
      /\ DOMAIN picked = M
      /\ \A k \in M : D!NthOf(P, k) \in P /\ picked[k] = ops[D!NthOf(P, k)]
      /\ \A j, k \in M : j < k <=> D!NthOf(P, j) < D!NthOf(P, k)
      /\ \A p \in P : \E k \in M : D!NthOf(P, k) = p
  BY SameLists, NoGraphs, D!PickedOps
<1>2. IsFiniteSet(M)
  BY <1>1, PositionsCounted
<1>3. \A j, k \in M : h[j] = h[k] => j = k
  <2>1. \A k \in M : k \in Int
    BY <1>1
  <2>2. P \subseteq Int
    BY PositionsOfList
  <2>3. \A j, k \in M : j < k \/ k < j \/ j = k
    BY <2>1
  <2>4. \A k \in M : h[k] = D!NthOf(P, k) /\ h[k] \in Int
    BY <1>1, <2>2
  <2>5. \A a, b \in Int : a < b => a # b
    OBVIOUS
  <2> HIDE DEF M, h
  <2> QED  BY <1>1, <2>3, <2>4, <2>5
<1>4. {h[k] : k \in M} = P
  <2>1. \A k \in M : h[k] = D!NthOf(P, k)
    OBVIOUS
  <2> HIDE DEF M, h
  <2> QED  BY <1>1, <2>1
<1>5. DOMAIN names = M /\ \A k \in M : names[k] = picked[k].name
  BY <1>1 DEF NamesOf
<1> HIDE DEF picked, names, M
<1>6. \A k \in M : f[k] \in Int /\ f[k] = g[h[k]]
  BY <1>1, <1>5
<1>7. Weighed(w, names) = Total(f, M)
  BY <1>5 DEF Weighed
<1> HIDE DEF f, g, h
<1>8. Total(g, {h[k] : k \in M}) = Total(f, M)
  BY <1>2, <1>3, <1>6, TotalRenamed
<1> QED  BY <1>4, <1>7, <1>8 DEF g, names, picked

LEMMA WeighParts ==
    ASSUME NEW w, NEW ops, ops \in Seq(Range(ops)), NEW P \in SUBSET DOMAIN ops,
           \A k \in DOMAIN ops : w[ops[k].name] \in Nat
    PROVE  Weighed(w, NamesOf(D!OpsAmong(ops, P)))
              + Weighed(w, NamesOf(D!OpsAmong(ops, (DOMAIN ops) \ P)))
              = Weighed(w, NamesOf(ops))
<1> DEFINE g == [k \in DOMAIN ops |-> w[ops[k].name]]
           Q == (DOMAIN ops) \ P
<1>1. Weighed(w, NamesOf(D!OpsAmong(ops, P))) = Total(g, P)
  BY WeighPicked
<1>2. Weighed(w, NamesOf(D!OpsAmong(ops, Q))) = Total(g, Q)
  <2>1. Q \in SUBSET DOMAIN ops
    OBVIOUS
  <2> HIDE DEF Q
  <2> QED  BY <2>1, WeighPicked
<1>3. Weighed(w, NamesOf(ops)) = Total(g, DOMAIN ops)
  <2>1. DOMAIN NamesOf(ops) = DOMAIN ops /\ \A k \in DOMAIN ops : NamesOf(ops)[k] = ops[k].name
    BY DEF NamesOf
  <2>2. [k \in DOMAIN NamesOf(ops) |-> w[NamesOf(ops)[k]]] = g
    BY <2>1
  <2> QED  BY <2>1, <2>2 DEF Weighed
<1>4. IsFiniteSet(P) /\ IsFiniteSet(Q) /\ P \cup Q = DOMAIN ops /\ P \cap Q = {}
  <2>1. IsFiniteSet(DOMAIN ops)
    BY PositionsOfList, PositionsCounted
  <2> QED  BY <2>1, FS_Subset
<1>5. \A k \in P \cup Q : g[k] \in Int
  BY <1>4
<1> HIDE DEF g, Q
<1>6. Total(g, P \cup Q) = Total(g, P) + Total(g, Q)
  BY <1>4, <1>5, TotalUnion
<1> QED  BY <1>1, <1>2, <1>3, <1>4, <1>6 DEF Q

DceKept ==
    /\ \A k \in DOMAIN D!Pruned.ops :
          \E p \in keep : p \in DOMAIN fused_graph.ops /\ D!Pruned.ops[k] = fused_graph.ops[p]
    /\ NamedWell(D!Pruned.ops)
    /\ NamesListed(Dce!Removed)
    /\ FusedNames(D!Pruned.ops) = FusedNames(fused_graph.ops) \ Range(Dce!Removed)
    /\ Weighed(NameRuns, NamesOf(D!Pruned.ops)) + Weighed(NameRuns, Dce!Removed)
          = Weighed(NameRuns, NamesOf(fused_graph.ops))

LEMMA DceRemoves ==
    ASSUME TypeOK, D!IInv, D!Finished, NamedWell(fused_graph.ops)
    PROVE  DceKept
<1> DEFINE ops == fused_graph.ops
           P == keep
           Q == (DOMAIN ops) \ keep
           kept == D!OpsAmong(ops, P)
           dead == D!OpsAmong(ops, Q)
           n == D!Cardinality(P)
           m == D!Cardinality(Q)
<1>1. /\ ops \in Seq(Range(ops)) /\ P \in SUBSET DOMAIN ops /\ Q \in SUBSET DOMAIN ops
      /\ P \subseteq Int /\ Q \subseteq Int
  <2>1. IsGraph(fused_graph) /\ D!TypeOK
    BY SameGraphs DEF D!IInv
  <2>2. ops \in Seq(Range(ops)) /\ dce_i = 0
    BY <2>1 DEF IsGraph, D!Finished
  <2>3. Len(ops) \in Nat /\ DOMAIN ops = 1..Len(ops)
    BY <2>2, PositionsOfList
  <2>4. P \subseteq (0 + 1)..Len(ops)
    BY <2>1, <2>2 DEF D!TypeOK
  <2> QED  BY <2>2, <2>3, <2>4
<1>2. D!Pruned.ops = kept
  <2>1. D!IsGraph(fused_graph)
    BY DEF D!IInv
  <2> QED  BY <2>1, NoGraphs, D!PrunedFields
<1>3. Dce!Removed = NamesOf(dead)
  <2>1. Dce!Removed = [k \in DOMAIN dead |-> dead[k].name]
    BY SameDceSteps DEF Dce!Removed
  <2> QED  BY <2>1 DEF NamesOf
<1>4. /\ n \in Nat /\ DOMAIN kept = 1..n
      /\ \A k \in 1..n : D!NthOf(P, k) \in P /\ kept[k] = ops[D!NthOf(P, k)]
      /\ \A j, k \in 1..n : j < k <=> D!NthOf(P, j) < D!NthOf(P, k)
      /\ \A p \in P : \E k \in 1..n : D!NthOf(P, k) = p
  <2> HIDE DEF P
  <2> QED  BY <1>1, SameLists, NoGraphs, D!PickedOps
<1>5. /\ m \in Nat /\ DOMAIN dead = 1..m
      /\ \A k \in 1..m : D!NthOf(Q, k) \in Q /\ dead[k] = ops[D!NthOf(Q, k)]
      /\ \A p \in Q : \E k \in 1..m : D!NthOf(Q, k) = p
  <2> HIDE DEF Q
  <2> QED  BY <1>1, SameLists, NoGraphs, D!PickedOps
<1>6. Weighed(NameRuns, NamesOf(kept)) + Weighed(NameRuns, NamesOf(dead))
         = Weighed(NameRuns, NamesOf(ops))
  <2>1. \A k \in DOMAIN ops : NameRuns[ops[k].name] \in Nat
    BY RecordsAre DEF NamedWell
  <2>2. Q = (DOMAIN ops) \ P
    OBVIOUS
  <2> HIDE DEF P, Q, ops
  <2> QED  BY <1>1, <2>1, <2>2, WeighParts
<1> HIDE DEF kept, dead, n, m, P, Q, ops
<1>7. \A j, k \in DOMAIN ops : ops[k].kind = "fused" /\ ops[j].name = ops[k].name => j = k
  BY DEF NamedWell, NamesApart, ops
<1>8. \A k \in DOMAIN ops : ops[k].name \in AnyName
  BY DEF NamedWell, ops
<1>9. ASSUME NEW j \in 1..n, NEW k \in 1..n, kept[k].kind = "fused", kept[j].name = kept[k].name
      PROVE  j = k
  <2>1. D!NthOf(P, j) = D!NthOf(P, k)
    BY <1>1, <1>4, <1>7, <1>9
  <2>2. D!NthOf(P, k) \in Int
    BY <1>1, <1>4
  <2>3. ~ (D!NthOf(P, k) < D!NthOf(P, k))
    BY <2>2
  <2>4. ~ (j < k) /\ ~ (k < j)
    BY <1>4, <2>1, <2>3
  <2> QED  BY <1>4, <2>4
<1>10. NamedWell(kept)
  BY <1>1, <1>4, <1>8, <1>9 DEF NamedWell, NamesApart
<1>11. DOMAIN NamesOf(dead) = 1..m /\ \A k \in 1..m : NamesOf(dead)[k] = dead[k].name
  BY <1>5 DEF NamesOf
<1>12. NamesListed(NamesOf(dead))
  <2>1. NamesOf(dead) \in [1..m -> Range(NamesOf(dead))]
    <3>1. NamesOf(dead) = [k \in 1..m |-> dead[k].name]
      BY <1>5 DEF NamesOf
    <3> QED  BY <3>1, <1>11 DEF Range
  <2>2. Range(NamesOf(dead)) \subseteq AnyName
    <3>1. ASSUME NEW k \in 1..m PROVE NamesOf(dead)[k] \in AnyName
      <4>1. D!NthOf(Q, k) \in DOMAIN ops /\ dead[k] = ops[D!NthOf(Q, k)]
        BY <1>1, <1>5
      <4>2. dead[k].name \in AnyName
        BY <1>8, <4>1
      <4> QED  BY <1>11, <4>2
    <3> QED  BY <1>11, <3>1 DEF Range
  <2> QED  BY <1>5, <2>1, <2>2, SeqDef DEF NamesListed
<1>13. FusedNames(kept) = FusedNames(ops) \ Range(NamesOf(dead))
  <2>1. ASSUME NEW k \in 1..n, kept[k].kind = "fused"
        PROVE  kept[k].name \in FusedNames(ops) /\ kept[k].name \notin Range(NamesOf(dead))
    <3>1. D!NthOf(P, k) \in DOMAIN ops /\ kept[k] = ops[D!NthOf(P, k)]
      BY <1>1, <1>4
    <3>2. kept[k].name \in FusedNames(ops)
      BY <2>1, <3>1 DEF FusedNames
    <3>3. ASSUME NEW l \in 1..m, dead[l].name = kept[k].name PROVE FALSE
      <4>1. D!NthOf(Q, l) = D!NthOf(P, k)
        BY <1>1, <1>5, <1>7, <2>1, <3>1, <3>3
      <4>2. D!NthOf(Q, l) \notin P
        BY <1>5 DEF Q, P
      <4> QED  BY <1>4, <4>1, <4>2
    <3> QED  BY <3>2, <3>3, <1>11 DEF Range
  <2>2. ASSUME NEW p \in DOMAIN ops, ops[p].kind = "fused", ops[p].name \notin Range(NamesOf(dead))
        PROVE  ops[p].name \in FusedNames(kept)
    <3>1. p \in P
      <4>1. p \notin Q
        BY <1>5, <1>11, <2>2 DEF Range
      <4> QED  BY <4>1 DEF Q, P
    <3>2. PICK k \in 1..n : D!NthOf(P, k) = p
      BY <1>4, <3>1
    <3> QED  BY <1>4, <2>2, <3>2 DEF FusedNames
  <2> QED  BY <1>4, <2>1, <2>2 DEF FusedNames
<1> QED  BY <1>1, <1>2, <1>3, <1>4, <1>6, <1>10, <1>12, <1>13 DEF DceKept, ops, P

LEMMA CseKeepsAccount ==
    ASSUME TypeOK, C!IInv, C!KeyedByContent, C!DropDuplicate \/ C!KeepCanonical, records' = records,
           AllFit(fused_graph.ops, {}), AllFit(cse_ops, DOMAIN remap),
           NamedWell(fused_graph.ops), NothingIsIdle, CseAccount
    PROVE  CseAccount'
<1> DEFINE ops == fused_graph.ops
           op == ops[cse_i]
           W(s) == Weighed(NameRuns, s)
<1>1. C!Scanning /\ cse_i' = cse_i + 1 /\ fused_graph' = fused_graph
  BY DEF C!DropDuplicate, C!DropFor, C!KeepCanonical, C!KeepAs
<1>2. /\ cse_i \in DOMAIN ops /\ IsOp(op)
      /\ ops \in Seq(Range(ops)) /\ cse_ops \in Seq(Range(cse_ops))
  <2>1. cse_i \in DOMAIN ops /\ IsOp(op)
    BY <1>1, CseOp
  <2>2. IsGraph(fused_graph) /\ cse_ops \in Seq(Range(cse_ops))
    BY SameGraphs, SameLists DEF C!IInv, C!ListsAreLists
  <2> QED  BY <2>1, <2>2 DEF IsGraph
<1>3. /\ PassedRuns(cse_i) = PassedRuns(cse_i - 1) + NameRuns[op.name]
      /\ PassedRuns(cse_i - 1) \in Nat /\ NameRuns[op.name] \in Nat
      /\ op.name \in AnyName
  BY <1>2, OnePassed DEF NamedWell
<1>4. cse_i \in Nat /\ (cse_i + 1) - 1 = cse_i /\ DOMAIN ops \subseteq Nat
  <2>1. DOMAIN ops = 1..Len(ops)
    BY <1>2, PositionsOfList
  <2> HIDE DEF ops
  <2> QED  BY <1>2, <2>1
<1>5. NameRuns' = NameRuns /\ PassedRuns(cse_i - 1)' = PassedRuns(cse_i)
  <2>1. NameRuns' = NameRuns
    BY DEF NameRuns, RunsOf, Listed
  <2> QED  BY <1>1, <1>4, <2>1 DEF PassedRuns
<1>6. \A k \in DOMAIN ops : k < cse_i' <=> k < cse_i \/ k = cse_i
  BY <1>1, <1>4
<1>7. CASE C!DropDuplicate
  <2>1. cse_ops' = cse_ops /\ cse_removed' = Append(cse_removed, op.name)
    BY <1>7 DEF C!DropDuplicate, C!DropFor
  <2>2. op.kind # "fused"
    BY <1>2, <1>7, FusedStays DEF NothingIsIdle
  <2>3. /\ W(cse_removed') = W(cse_removed) + NameRuns[op.name] /\ W(cse_removed) \in Nat
        /\ NamesListed(cse_removed')
    BY <1>3, <2>1, WeighNames DEF CseAccount
  <2>4. W(NamesOf(cse_ops)) \in Nat
    BY <1>2, WeighOps DEF CseAccount
  <2> HIDE DEF W, op, ops
  <2>5. W(NamesOf(cse_ops')) + W(cse_removed') = PassedRuns(cse_i)
    BY <1>3, <2>1, <2>3, <2>4 DEF CseAccount, W
  <2>6. \A n \in DOMAIN cse_ops : \E k \in DOMAIN ops : k < cse_i' /\ KindAndName(cse_ops[n], ops[k])
    BY <1>6 DEF CseAccount, ops
  <2>7. ASSUME NEW k \in DOMAIN ops, k < cse_i', ops[k].kind = "fused"
        PROVE  \E n \in DOMAIN cse_ops : KindAndName(cse_ops[n], ops[k])
    <3>1. k < cse_i
      BY <1>6, <2>2, <2>7 DEF op
    <3> QED  BY <2>7, <3>1 DEF CseAccount, ops
  <2>8. /\ NamedWell(cse_ops)' /\ NamesListed(cse_removed)'
        /\ (Weighed(NameRuns, NamesOf(cse_ops)) + Weighed(NameRuns, cse_removed) = PassedRuns(cse_i - 1))'
    BY <1>5, <2>1, <2>3, <2>5 DEF CseAccount, W
  <2> QED  BY <1>1, <2>1, <2>6, <2>7, <2>8 DEF CseAccount, ops
<1>8. CASE C!KeepCanonical
  <2> DEFINE kept == C!Rewired(op)
  <2>1. cse_ops' = Append(cse_ops, kept) /\ cse_removed' = cse_removed
    BY <1>8 DEF C!KeepCanonical, C!KeepAs
  <2>2. kept.kind = op.kind /\ kept.name = op.name
    BY <1>2, RewiredOp DEF MkOp
  <2> HIDE DEF kept
  <2>3. /\ W(NamesOf(cse_ops')) = W(NamesOf(cse_ops)) + NameRuns[op.name]
        /\ W(NamesOf(cse_ops)) \in Nat
    <3>1. NamesOf(cse_ops') = Append(NamesOf(cse_ops), op.name)
      BY <1>2, <2>1, <2>2, NamesAppended
    <3>2. NamesListed(NamesOf(cse_ops))
      BY <1>2, WeighOps DEF CseAccount
    <3> QED  BY <1>3, <3>1, <3>2, WeighNames
  <2>4. W(cse_removed) \in Nat
    BY <1>3, WeighNames DEF CseAccount
  <2>5. /\ \A n \in DOMAIN cse_ops' :
              (n \in DOMAIN cse_ops /\ cse_ops'[n] = cse_ops[n])
                 \/ (n \notin DOMAIN cse_ops /\ cse_ops'[n] = kept)
        /\ \E n \in DOMAIN cse_ops' : cse_ops'[n] = kept
        /\ \A n \in DOMAIN cse_ops : n \in DOMAIN cse_ops' /\ cse_ops'[n] = cse_ops[n]
        /\ \A n, j \in DOMAIN cse_ops' : n \notin DOMAIN cse_ops /\ j \notin DOMAIN cse_ops => n = j
    <3>1. /\ DOMAIN cse_ops' = 1..(Len(cse_ops) + 1)
          /\ \A k \in 1..Len(cse_ops) : cse_ops'[k] = cse_ops[k]
          /\ cse_ops'[Len(cse_ops) + 1] = kept
      BY <1>2, <2>1, AppendedAt
    <3>2. Len(cse_ops) \in Nat /\ DOMAIN cse_ops = 1..Len(cse_ops)
      BY <1>2, PositionsOfList
    <3> QED  BY <3>1, <3>2
  <2> HIDE DEF W, op, ops
  <2>6. W(NamesOf(cse_ops')) + W(cse_removed') = PassedRuns(cse_i)
    <3>1. W(NamesOf(cse_ops)) + W(cse_removed) = PassedRuns(cse_i - 1)
      BY SMTT(30) DEF CseAccount, W
    <3> QED  BY <1>3, <2>1, <2>3, <2>4, <3>1
  <2>7. \A n \in DOMAIN cse_ops : \E k \in DOMAIN ops : k < cse_i /\ KindAndName(cse_ops[n], ops[k])
    BY DEF CseAccount, ops
  <2>8. KindAndName(kept, op) /\ op = ops[cse_i]
    BY <2>2 DEF KindAndName, op
  <2>9. \A n \in DOMAIN cse_ops' : \E k \in DOMAIN ops : k < cse_i' /\ KindAndName(cse_ops'[n], ops[k])
    BY <1>2, <1>6, <2>5, <2>7, <2>8
  <2>10. ASSUME NEW k \in DOMAIN ops, k < cse_i', ops[k].kind = "fused"
         PROVE  \E n \in DOMAIN cse_ops' : KindAndName(cse_ops'[n], ops[k])
    <3>1. CASE k = cse_i
      BY <2>5, <2>8, <3>1
    <3>2. CASE k # cse_i
      <4>1. k < cse_i
        BY <1>6, <2>10, <3>2
      <4>2. \E n \in DOMAIN cse_ops : KindAndName(cse_ops[n], ops[k])
        BY <2>10, <4>1 DEF CseAccount, ops
      <4> QED  BY <2>5, <4>2
    <3> QED  BY <3>1, <3>2
  <2>11. ASSUME NEW n \in DOMAIN cse_ops
         PROVE  /\ cse_ops[n].name = kept.name => cse_ops[n].kind # "fused" /\ kept.kind # "fused"
    <3> SUFFICES ASSUME cse_ops[n].name = kept.name
                 PROVE  cse_ops[n].kind # "fused" /\ kept.kind # "fused"
      OBVIOUS
    <3>1. PICK k \in DOMAIN ops : k < cse_i /\ KindAndName(cse_ops[n], ops[k])
      BY <2>7
    <3>2. ops[k].name = op.name /\ k # cse_i
      BY <1>4, <2>8, <3>1 DEF KindAndName
    <3>3. ops[k].kind # "fused" /\ op.kind # "fused"
      BY <1>2, <2>8, <3>2 DEF NamedWell, NamesApart, ops
    <3> QED  BY <2>8, <3>1, <3>3 DEF KindAndName
  <2>12. NamedWell(cse_ops')
    <3>1. NamesApart(cse_ops')
      <4> SUFFICES ASSUME NEW j \in DOMAIN cse_ops', NEW k \in DOMAIN cse_ops',
                          cse_ops'[k].kind = "fused", cse_ops'[j].name = cse_ops'[k].name
                   PROVE  j = k
        BY SMTT(30) DEF NamesApart
      <4>1. CASE j \in DOMAIN cse_ops /\ k \in DOMAIN cse_ops
        BY <2>5, <4>1 DEF CseAccount, NamedWell, NamesApart
      <4>2. CASE j \in DOMAIN cse_ops /\ k \notin DOMAIN cse_ops
        BY <2>5, <2>11, <4>2
      <4>3. CASE j \notin DOMAIN cse_ops /\ k \in DOMAIN cse_ops
        BY <2>5, <2>11, <4>3
      <4>4. CASE j \notin DOMAIN cse_ops /\ k \notin DOMAIN cse_ops
        BY <2>5, <4>4
      <4> QED  BY <4>1, <4>2, <4>3, <4>4
    <3>2. \A k \in DOMAIN cse_ops' : cse_ops'[k].name \in AnyName
      BY <1>3, <2>5, <2>8 DEF CseAccount, NamedWell, KindAndName
    <3> QED  BY <3>1, <3>2 DEF NamedWell
  <2>13. /\ NamedWell(cse_ops)' /\ NamesListed(cse_removed)'
         /\ (Weighed(NameRuns, NamesOf(cse_ops)) + Weighed(NameRuns, cse_removed) = PassedRuns(cse_i - 1))'
    BY <1>5, <2>1, <2>6, <2>12 DEF CseAccount, W
  <2> QED  BY <1>1, <2>1, <2>9, <2>10, <2>13 DEF CseAccount, ops
<1> QED  BY <1>7, <1>8, SMTT(30)

LEMMA CseLeaves ==
    ASSUME TypeOK, C!IInv, C!Finished, NamedWell(fused_graph.ops), CseAccount
    PROVE  /\ FusedNames(cse_ops) = FusedNames(fused_graph.ops)
           /\ Weighed(NameRuns, NamesOf(cse_ops)) + Weighed(NameRuns, cse_removed)
                 = Weighed(NameRuns, NamesOf(fused_graph.ops))
           /\ Weighed(NameRuns, NamesOf(cse_ops)) \in Nat
           /\ Weighed(NameRuns, cse_removed) \in Nat
<1> DEFINE ops == fused_graph.ops
           n == Len(ops)
<1>1. /\ ops \in Seq(Range(ops)) /\ cse_ops \in Seq(Range(cse_ops))
      /\ cse_i \in 1..(n + 1)
  BY SameGraphs, SameLists DEF C!IInv, C!ListsAreLists, C!TypeOK, IsGraph
<1>2. n \in Nat /\ DOMAIN ops = 1..n
  BY <1>1, PositionsOfList
<1>3. cse_i - 1 = n /\ \A k \in DOMAIN ops : k < cse_i
  <2>1. cse_i > n
    BY DEF C!Finished
  <2> HIDE DEF n, ops
  <2> QED  BY <1>1, <1>2, <2>1
<1>4. FusedNames(cse_ops) = FusedNames(ops)
  <2>1. FusedNames(cse_ops) \subseteq FusedNames(ops)
    <3> SUFFICES ASSUME NEW m \in DOMAIN cse_ops, cse_ops[m].kind = "fused"
                 PROVE  cse_ops[m].name \in FusedNames(ops)
      BY DEF FusedNames
    <3>1. PICK k \in DOMAIN ops : KindAndName(cse_ops[m], ops[k])
      BY DEF CseAccount
    <3> QED  BY <3>1 DEF KindAndName, FusedNames
  <2>2. FusedNames(ops) \subseteq FusedNames(cse_ops)
    <3> SUFFICES ASSUME NEW k \in DOMAIN ops, ops[k].kind = "fused"
                 PROVE  ops[k].name \in FusedNames(cse_ops)
      BY DEF FusedNames
    <3>1. PICK m \in DOMAIN cse_ops : KindAndName(cse_ops[m], ops[k])
      BY <1>3 DEF CseAccount
    <3> QED  BY <3>1 DEF KindAndName, FusedNames
  <2> QED  BY <2>1, <2>2
<1>5. PassedRuns(n) = Weighed(NameRuns, NamesOf(ops))
  <2>1. DOMAIN NamesOf(ops) = DOMAIN ops /\ \A k \in DOMAIN ops : NamesOf(ops)[k] = ops[k].name
    BY SMTT(30) DEF NamesOf
  <2>2. [k \in DOMAIN NamesOf(ops) |-> NameRuns[NamesOf(ops)[k]]]
           = [j \in DOMAIN ops |-> NameRuns[ops[j].name]]
    BY <2>1
  <2> QED  BY <1>2, <2>1, <2>2 DEF Weighed, PassedRuns
<1>6. Weighed(NameRuns, NamesOf(cse_ops)) \in Nat
  BY <1>1, WeighOps DEF CseAccount
<1>7. Weighed(NameRuns, cse_removed) \in Nat
  <2>1. \A x \in Range(cse_removed) : NameRuns[x] \in Nat
    BY RecordsAre DEF CseAccount, NamesListed
  <2> QED  BY <2>1, WeighIn DEF CseAccount, NamesListed
<1> QED  BY <1>3, <1>4, <1>5, <1>6, <1>7 DEF CseAccount

LEMMA AccountSteps ==
    ASSUME ScanInv, ScanAccount, FusedNamesIdentify, StageInv, ContentInv, AccountInv,
           [PipelineNext]_allVars
    PROVE  AccountInv'
<1>1. CASE FuseOps
  BY <1>1 DEF FuseOps, AccountInv
<1>2. CASE StartDce
  <2>1. FusedGraph.ops = new_ops /\ Verified(FusedGraph)
    BY <1>2, FusedGraphServes DEF StartDce
  <2>2. /\ phase' = "dce" /\ fused_graph' = FusedGraph /\ graph' = graph /\ keep' = {}
        /\ UNCHANGED vars
    BY <1>2, <2>1 DEF StartDce, Leave, vars
  <2>3. Len(graph.ops) \in Nat
    BY GraphsAssumption, LenProperties DEF ScanInv, TypeOK, IsBaseGraph
  <2>4. /\ NamedWell(new_ops) /\ FusedNames(new_ops) = Listed
        /\ Weighed(NameRuns, NamesOf(new_ops)) = Len(graph.ops)
    BY <1>2, <2>3, ScanIsAccounted DEF StartDce, ScanInv
  <2>5. DceAccount'
    BY <2>1, <2>2, <2>4, RecordsStay DEF DceAccount
  <2> QED  BY <2>1, <2>2, <2>4, <2>5 DEF AccountInv
<1>3. CASE EliminateDeadCode
  <2>1. /\ phase = "dce" /\ phase' = "dce" /\ fused_graph' = fused_graph /\ graph' = graph
        /\ UNCHANGED vars
        /\ Dce!KeepLive \/ Dce!SkipDead
    BY <1>3 DEF EliminateDeadCode, vars
  <2>2. \A k \in keep' : Range(fused_graph.ops[k].outputs) # {}
    <3>1. CASE Dce!KeepLive
      <4>1. keep' = keep \cup {dce_i} /\ Range(fused_graph.ops[dce_i].outputs) # {}
        BY <3>1, SameLists DEF Dce!KeepLive, Dce!IsLive
      <4> QED  BY <2>1, <4>1 DEF AccountInv, DceAccount
    <3>2. CASE Dce!SkipDead
      <4>1. keep' = keep
        BY <3>2 DEF Dce!SkipDead
      <4> QED  BY <2>1, <4>1 DEF AccountInv, DceAccount
    <3> QED  BY <2>1, <3>1, <3>2
  <2>3. DceAccount'
    <3>1. DceAccount
      BY <2>1 DEF AccountInv
    <3>2. Listed' = Listed /\ NameRuns' = NameRuns
      BY <2>1, RecordsStay
    <3> QED  BY <2>1, <2>2, <3>1, <3>2 DEF DceAccount
  <2>4. NamedWell(fused_graph.ops)'
    BY <2>1 DEF AccountInv
  <2> QED  BY <2>1, <2>3, <2>4 DEF AccountInv
<1>4. CASE StartCse
  <2>1. /\ phase = "dce" /\ D!IInv /\ D!Finished /\ C!Starts
        /\ fused_graph' = D!Pruned /\ graph' = graph /\ cseVars' = cseVars
        /\ phase' \in {"cse", "rejected"} /\ UNCHANGED vars /\ dce_removed' = Dce!Removed
    BY <1>4, SameDceSteps DEF StartCse, Leave, StageInv, vars
  <2>2. NamedWell(fused_graph.ops) /\ DceAccount
    BY <2>1 DEF AccountInv
  <2>3. DceKept
    BY <2>1, <2>2, DceRemoves DEF ScanInv
  <2>4. NamedWell(fused_graph.ops)'
    BY <2>1, <2>3 DEF DceKept
  <2>5. PrunedAccount'
    BY <2>1, <2>2, <2>3, RecordsStay DEF DceKept, DceAccount, PrunedAccount
  <2>6. (LeftAndGone = Len(graph.ops))'
    BY <2>1, <2>2, <2>3, RecordsStay DEF DceKept, DceAccount, LeftAndGone
  <2>7. NothingIsIdle'
    BY <2>1, <2>2, <2>3 DEF DceKept, DceAccount, NothingIsIdle
  <2>8. CseAccount'
    <3>1. cse_ops' = <<>> /\ cse_removed' = <<>> /\ cse_i' = 1
      BY <2>1 DEF C!Starts, cseVars
    <3>2. DOMAIN <<>> = {} /\ NamesOf(<<>>) = <<>> /\ NamesListed(<<>>)
      <4>1. DOMAIN <<>> = {} /\ Range(<<>>) = {}
        BY EmptySeq DEF Range
      <4>2. NamesOf(<<>>) = <<>>
        BY <4>1 DEF NamesOf
      <4>3. <<>> \in Seq({})
        BY EmptySeq
      <4> QED  BY <4>1, <4>2, <4>3 DEF NamesListed
    <3>3. NamedWell(<<>>)
      BY <3>2 DEF NamedWell, NamesApart
    <3>4. \A k \in DOMAIN fused_graph'.ops : ~ (k < 1)
      <4>1. D!Pruned.ops \in Seq(Range(D!Pruned.ops))
        <5>1. IsGraph(D!Pruned)
          BY <2>1, NoGraphs, D!PrunedIsGraph, SameGraphs
        <5> QED  BY <5>1 DEF IsGraph
      <4>2. DOMAIN D!Pruned.ops = 1..Len(D!Pruned.ops) /\ Len(D!Pruned.ops) \in Nat
        BY <4>1, PositionsOfList
      <4> QED  BY <2>1, <4>2
    <3>5. PassedRuns(cse_i - 1)' = 0
      <4>1. cse_i' - 1 = 0 /\ 1..0 = {}
        BY <3>1
      <4> QED  BY <4>1, TotalEmpty DEF PassedRuns
    <3>6. Weighed(NameRuns, <<>>)' = 0 /\ 0 + 0 = 0
      BY WeighNothing
    <3> QED  BY <3>1, <3>2, <3>3, <3>4, <3>5, <3>6 DEF CseAccount
  <2> QED  BY <2>1, <2>4, <2>5, <2>6, <2>7, <2>8 DEF AccountInv
<1>5. CASE EliminateCommonSubexpressions
  <2>1. /\ phase = "cse" /\ phase' = "cse" /\ fused_graph' = fused_graph /\ graph' = graph
        /\ records' = records /\ UNCHANGED vars /\ dce_removed' = dce_removed
        /\ C!DropDuplicate \/ C!KeepCanonical
    BY <1>5, SameCseSteps DEF EliminateCommonSubexpressions, vars, dceVars
  <2>2. CseAccount'
    BY <2>1, CseKeepsAccount DEF StageInv, ContentInv, AccountInv, ScanInv
  <2>3. PrunedAccount' /\ NothingIsIdle' /\ (LeftAndGone = Len(graph.ops))'
    BY <2>1, RecordsStay DEF AccountInv, PrunedAccount, NothingIsIdle, LeftAndGone
  <2>4. NamedWell(fused_graph.ops)'
    BY <2>1 DEF AccountInv
  <2> QED  BY <2>1, <2>2, <2>3, <2>4 DEF AccountInv
<1>6. CASE StartStep
  <2>1. /\ phase = "cse" /\ C!IInv /\ C!Finished /\ fused_graph' = C!Deduped
        /\ graph' = graph /\ UNCHANGED vars /\ cse_removed' = cse_removed
        /\ dce_removed' = dce_removed /\ phase' \in {"step", "rejected"}
    BY <1>6, SameCseSteps DEF StartStep, Leave, StageInv, vars, cseVars, dceVars
  <2>2. C!Deduped.ops = cse_ops
    BY <2>1, NoGraphs, C!DedupedFields
  <2>3. /\ NamedWell(fused_graph.ops) /\ CseAccount /\ PrunedAccount
        /\ LeftAndGone = Len(graph.ops)
    BY <2>1 DEF AccountInv
  <2>4. /\ FusedNames(cse_ops) = FusedNames(fused_graph.ops)
        /\ Weighed(NameRuns, NamesOf(cse_ops)) + Weighed(NameRuns, cse_removed)
              = Weighed(NameRuns, NamesOf(fused_graph.ops))
        /\ Weighed(NameRuns, NamesOf(cse_ops)) \in Nat
        /\ Weighed(NameRuns, cse_removed) \in Nat
    BY <2>1, <2>3, CseLeaves DEF ScanInv
  <2>5. Weighed(NameRuns, dce_removed) \in Nat
    <3>1. \A x \in Range(dce_removed) : NameRuns[x] \in Nat
      BY <2>3, RecordsAre DEF PrunedAccount, NamesListed, ScanInv
    <3> QED  BY <2>3, <3>1, WeighIn DEF PrunedAccount, NamesListed
  <2>6. NamedWell(fused_graph.ops)' /\ NamesListed(cse_removed)'
    BY <2>1, <2>2, <2>3 DEF CseAccount
  <2>7. PrunedAccount'
    BY <2>1, <2>2, <2>3, <2>4, RecordsStay DEF PrunedAccount
  <2>8. Weighed(NameRuns, NamesOf(cse_ops)) + Weighed(NameRuns, dce_removed)
           + Weighed(NameRuns, cse_removed) = Len(graph.ops)
    BY <2>3, <2>4, <2>5 DEF LeftAndGone
  <2>9. (LeftAndGone + Weighed(NameRuns, cse_removed) = Len(graph.ops))'
    BY <2>1, <2>2, <2>8, RecordsStay DEF LeftAndGone
  <2> QED  BY <2>1, <2>6, <2>7, <2>9 DEF AccountInv
<1>7. CASE ExecuteStep
  <2>1. /\ phase = "step" /\ phase' = "step" /\ fused_graph' = fused_graph /\ graph' = graph
        /\ cse_removed' = cse_removed /\ dce_removed' = dce_removed /\ UNCHANGED vars
    BY <1>7 DEF ExecuteStep, vars, cseVars, dceVars
  <2>2. PrunedAccount' /\ (LeftAndGone + Weighed(NameRuns, cse_removed) = Len(graph.ops))'
    BY <2>1, RecordsStay DEF AccountInv, PrunedAccount, LeftAndGone
  <2> QED  BY <2>1, <2>2 DEF AccountInv
<1>8. CASE UNCHANGED engineVars
  <2>1. /\ phase' = phase /\ fused_graph' = fused_graph /\ graph' = graph /\ keep' = keep
        /\ cse_ops' = cse_ops /\ cse_i' = cse_i
        /\ cse_removed' = cse_removed /\ dce_removed' = dce_removed /\ UNCHANGED vars
    BY <1>8 DEF engineVars, vars, cseVars, dceVars
  <2>2. /\ PrunedAccount' <=> PrunedAccount
        /\ DceAccount' <=> DceAccount
        /\ NothingIsIdle' <=> NothingIsIdle
        /\ LeftAndGone' = LeftAndGone
    BY <2>1, RecordsStay DEF PrunedAccount, DceAccount, NothingIsIdle, LeftAndGone
  <2>3. CseAccount' <=> CseAccount
    <3>1. PassedRuns(cse_i - 1)' = PassedRuns(cse_i - 1)
      BY <2>1, RecordsStay DEF PassedRuns
    <3> QED  BY <2>1, <3>1, RecordsStay DEF CseAccount
  <2>4. Weighed(NameRuns, cse_removed)' = Weighed(NameRuns, cse_removed)
    BY <2>1, RecordsStay
  <2> QED  BY <2>1, <2>2, <2>3, <2>4 DEF AccountInv
<1> QED  BY <1>1, <1>2, <1>3, <1>4, <1>5, <1>6, <1>7, <1>8, QuietSteps DEF PipelineNext

LEMMA AccountStays == PipelineSpec => []AccountInv
<1>1. PipelineInit => AccountInv
  BY DEF PipelineInit, AccountInv
<1>2. /\ ScanInv /\ (ScanAccount /\ FusedNamesIdentify) /\ StageInv /\ ContentInv /\ AccountInv
      /\ [PipelineNext]_allVars
      => AccountInv'
  BY AccountSteps
<1> QED  BY <1>1, <1>2, ScanStaysRight, ScanAccounts, StagesStayRight, ContentStaysRight, PTL
            DEF PipelineSpec

\* Whatever the later passes removed, the records of the fusion pass and the
\* names those passes report account for every op of the base graph and for
\* every fused op of the executed one.
THEOREM SummaryAccounts == PipelineSpec => []SummaryAccountsForEveryOp
<1>1. ASSUME ScanInv, StageInv, AccountInv PROVE SummaryAccountsForEveryOp
  <2> DEFINE ops == fused_graph.ops
             gone == dce_removed \o cse_removed
             K == {k \in DOMAIN ops : ops[k].kind = "fused"}
             all == MapThenSumSet(LAMBDA k : SummaryRuns(ops[k].name), DOMAIN ops)
             lost == MapThenSumSet(LAMBDA n : SummaryRuns(gone[n]), DOMAIN gone)
  <2> SUFFICES ASSUME phase = "step"
               PROVE  /\ SummaryListed \ Range(dce_removed) = {ops[k].name : k \in K}
                      /\ Cardinality(SummaryListed \ Range(dce_removed)) = Cardinality(K)
                      /\ FusionSummary.original_op_count = all + lost
    BY DEF SummaryAccountsForEveryOp, SummaryListed, SummaryRuns
  <2>1. /\ TypeOK /\ ops \in Seq(Range(ops)) /\ NamedWell(ops)
        /\ FusedNames(ops) = Listed \ Range(dce_removed)
        /\ NamesListed(dce_removed) /\ NamesListed(cse_removed)
        /\ LeftAndGone + Weighed(NameRuns, cse_removed) = Len(graph.ops)
    <3>1. TypeOK /\ ops \in Seq(Range(ops))
      BY <1>1 DEF ScanInv, StageInv
    <3>2. /\ NamedWell(ops) /\ PrunedAccount /\ NamesListed(cse_removed)
          /\ LeftAndGone + Weighed(NameRuns, cse_removed) = Len(graph.ops)
      BY <1>1 DEF AccountInv
    <3> QED  BY <3>1, <3>2 DEF PrunedAccount
  <2>2. SummaryListed = Listed /\ FusionSummary.original_op_count = Len(graph.ops)
    BY SummaryReports
  <2>3. SummaryListed \ Range(dce_removed) = {ops[k].name : k \in K}
    BY <2>1, <2>2 DEF FusedNames
  <2>4. Cardinality(SummaryListed \ Range(dce_removed)) = Cardinality(K)
    BY <2>1, <2>2, NamesCounted DEF NamedWell
  <2>5. all = Weighed(NameRuns, NamesOf(ops))
    BY <2>1, RunsInOps
  <2>6. /\ \A x \in Range(dce_removed) \cup Range(cse_removed) : NameRuns[x] \in Nat
        /\ dce_removed \in Seq(Range(dce_removed)) /\ cse_removed \in Seq(Range(cse_removed))
    BY <2>1, RecordsAre DEF NamesListed
  <2>7. Weighed(NameRuns, gone) = Weighed(NameRuns, dce_removed) + Weighed(NameRuns, cse_removed)
    BY <2>6, WeighBoth
  <2>8. NamesListed(gone)
    <3>1. dce_removed \in Seq(AnyName) /\ cse_removed \in Seq(AnyName)
      <4>1. ASSUME NEW s, NamesListed(s) PROVE s \in Seq(AnyName)
        <5>1. s \in [1..Len(s) -> AnyName] /\ Len(s) \in Nat
          BY <4>1, PositionsOfList DEF NamesListed, Range
        <5> QED  BY <5>1, SeqDef
      <4> QED  BY <2>1, <4>1
    <3>2. gone \in Seq(AnyName)
      BY <3>1, ConcatProperties
    <3> HIDE DEF gone
    <3>3. gone \in Seq(Range(gone)) /\ Range(gone) \subseteq AnyName
      BY <3>2, OwnRange, LenProperties, ElementOfSeq DEF Range
    <3> QED  BY <3>3 DEF NamesListed
  <2>9. lost = Weighed(NameRuns, gone)
    BY <2>1, <2>8, RunsInAll
  <2>10. /\ Weighed(NameRuns, NamesOf(ops)) \in Nat /\ Weighed(NameRuns, dce_removed) \in Nat
         /\ Weighed(NameRuns, cse_removed) \in Nat
    BY <2>1, <2>6, WeighOps, WeighIn
  <2> HIDE DEF all, lost
  <2>11. Len(graph.ops) = all + lost
    BY <2>1, <2>5, <2>7, <2>9, <2>10 DEF LeftAndGone
  <2> QED  BY <2>2, <2>3, <2>4, <2>11
<1> QED  BY <1>1, ScanStaysRight, StagesStayRight, AccountStays, PTL

----------------------------------------------------------------------------
(***************************************************************************)
(* The traffic's account, through pruning and deduplication.               *)
(***************************************************************************)

LEMMA NothingRemoved ==
    ASSUME D!IInv, D!Finished, Dce!Removed = <<>>
    PROVE  Range(fused_graph.ops) \subseteq Range(D!Pruned.ops)
<1> DEFINE ops == fused_graph.ops
           P == keep
           Q == (DOMAIN ops) \ keep
           kept == D!OpsAmong(ops, P)
           dead == D!OpsAmong(ops, Q)
           n == D!Cardinality(P)
           m == D!Cardinality(Q)
<1>1. ops \in Seq(Range(ops)) /\ P \in SUBSET DOMAIN ops /\ Q \in SUBSET DOMAIN ops
  <2>1. IsGraph(fused_graph) /\ D!TypeOK
    BY SameGraphs DEF D!IInv
  <2>2. ops \in Seq(Range(ops)) /\ dce_i = 0
    BY <2>1 DEF IsGraph, D!Finished
  <2>3. Len(ops) \in Nat /\ DOMAIN ops = 1..Len(ops)
    BY <2>2, PositionsOfList
  <2>4. P \subseteq (0 + 1)..Len(ops)
    BY <2>1, <2>2 DEF D!TypeOK
  <2> QED  BY <2>2, <2>3, <2>4
<1>2. D!Pruned.ops = kept
  <2>1. D!IsGraph(fused_graph)
    BY DEF D!IInv
  <2> QED  BY <2>1, NoGraphs, D!PrunedFields
<1>3. DOMAIN dead = {}
  <2>1. Dce!Removed = [k \in DOMAIN dead |-> dead[k].name]
    BY SameDceSteps DEF Dce!Removed
  <2>2. DOMAIN Dce!Removed = DOMAIN dead
    BY <2>1
  <2> QED  BY <2>2, EmptySeq
<1>4. /\ DOMAIN kept = 1..n
      /\ \A k \in 1..n : kept[k] = ops[D!NthOf(P, k)]
      /\ \A p \in P : \E k \in 1..n : D!NthOf(P, k) = p
  <2> HIDE DEF P
  <2> QED  BY <1>1, SameLists, NoGraphs, D!PickedOps
<1>5. DOMAIN dead = 1..m /\ \A p \in Q : \E k \in 1..m : D!NthOf(Q, k) = p
  <2> HIDE DEF Q
  <2> QED  BY <1>1, SameLists, NoGraphs, D!PickedOps
<1>6. Q = {}
  BY <1>3, <1>5
<1>7. P = DOMAIN ops
  BY <1>1, <1>6
<1> HIDE DEF kept, n, P, ops
<1>8. \A p \in DOMAIN ops : \E k \in DOMAIN kept : kept[k] = ops[p]
  BY <1>4, <1>7
<1> QED  BY <1>2, <1>8 DEF Range, ops

LEMMA DropKeepsReaders ==
    ASSUME ScanInv, Finished, C!IInv, C!KeyedByContent, C!DropDuplicate, new_ops' = new_ops,
           AllFit(fused_graph.ops, {}), AllFit(cse_ops, DOMAIN remap), NothingIsIdle,
           Range(fused_graph.ops) \subseteq Range(new_ops), CseReaders
    PROVE  CseReaders'
<1> DEFINE op == fused_graph.ops[cse_i]
           c == seen[C!Key(op)]
           At(t) == CHOOSE k \in DOMAIN op.outputs : op.outputs[k] = t
<1>1. /\ C!Scanning
      /\ remap' = [t \in DOMAIN remap \cup Range(op.outputs) |->
                      IF t \in Range(op.outputs) THEN c.outputs[At(t)] ELSE remap[t]]
      /\ cse_i' = cse_i + 1 /\ cse_ops' = cse_ops /\ fused_graph' = fused_graph
  <2>1. C!Range(op.outputs) = Range(op.outputs)
    BY SameLists
  <2> QED  BY <2>1 DEF C!DropDuplicate, C!DropFor
<1>2. cse_i \in DOMAIN fused_graph.ops /\ IsOp(op)
  BY <1>1, CseOp
<1>3. /\ \E n \in DOMAIN cse_ops : c = cse_ops[n]
      /\ c.kind = op.kind /\ c.inputs = C!ReplacedIn(op.inputs)
      /\ c.outputs \in Seq(Range(c.outputs)) /\ Len(c.outputs) = Len(op.outputs)
  BY CanonicalOp
<1>4. \A t \in Range(op.outputs) : At(t) \in DOMAIN op.outputs
  BY DEF Range
<1>5. DOMAIN c.outputs = DOMAIN op.outputs
  BY <1>2, <1>3, PositionsOfList DEF IsOp
<1>6. op.kind # "fused"
  <2>1. Range(op.outputs) # {}
    BY <1>2 DEF NothingIsIdle
  <2> QED  BY <2>1, FusedStays
<1> HIDE DEF At, c, op
<1>7. Range(op.outputs) \cap FusedMade = {}
  <2>1. op \in Range(fused_graph.ops)
    BY <1>2 DEF Range, op
  <2>2. PICK n \in DOMAIN new_ops : op = new_ops[n]
    BY <2>1 DEF Range
  <2>3. SameWork(op, new_ops[n])
    BY <2>2 DEF SameWork
  <2> QED  BY <1>6, <2>3, OthersMakeOthers
<1>8. PICK d \in DOMAIN cse_ops : c = cse_ops[d]
  BY <1>3
<1>9. Range(c.outputs) \cap FusedMade = {}
  <2>1. PICK n \in DOMAIN new_ops : SameWork(c, new_ops[n])
    BY <1>8 DEF CseReaders, MadeByNew
  <2> QED  BY <1>3, <1>6, <2>1, OthersMakeOthers
<1>10. ASSUME NEW u \in DOMAIN remap' PROVE u \notin FusedMade /\ remap'[u] \notin FusedMade
  <2>1. CASE u \in Range(op.outputs)
    <3>1. remap'[u] = c.outputs[At(u)] /\ At(u) \in DOMAIN c.outputs
      BY <1>1, <1>4, <1>5, <1>10, <2>1
    <3>2. remap'[u] \in Range(c.outputs)
      BY <3>1 DEF Range
    <3> QED  BY <1>7, <1>9, <2>1, <3>2
  <2>2. CASE u \notin Range(op.outputs)
    <3>1. u \in DOMAIN remap /\ remap'[u] = remap[u]
      BY <1>1, <1>10, <2>2
    <3> QED  BY <3>1 DEF CseReaders
  <2> QED  BY <2>1, <2>2
<1>11. Range(op.inputs) \cap FusedMade \subseteq ReadBy(cse_ops)
  <2> SUFFICES ASSUME NEW j \in DOMAIN op.inputs, op.inputs[j] \in FusedMade
               PROVE  op.inputs[j] \in ReadBy(cse_ops)
    BY DEF Range
  <2>1. DOMAIN c.inputs = DOMAIN op.inputs /\ c.inputs[j] = C!Replaced(op.inputs[j])
    BY <1>2, <1>3, ReplacedList DEF IsOp
  <2>2. C!Replaced(op.inputs[j]) = op.inputs[j]
    BY DEF C!Replaced, CseReaders
  <2>3. op.inputs[j] \in Range(cse_ops[d].inputs)
    BY <1>8, <2>1, <2>2 DEF Range
  <2> QED  BY <2>3 DEF ReadBy
<1>12. cse_i \in Int /\ \A k \in DOMAIN fused_graph.ops : k \in Int
  <2>1. fused_graph.ops \in Seq(Range(fused_graph.ops))
    BY SameGraphs DEF C!IInv, IsGraph
  <2>2. DOMAIN fused_graph.ops = 1..Len(fused_graph.ops)
    BY <2>1, PositionsOfList
  <2> QED  BY <1>2, <2>2
<1>13. ASSUME NEW k \in DOMAIN fused_graph.ops, k < cse_i + 1
       PROVE  Range(fused_graph.ops[k].inputs) \cap FusedMade \subseteq ReadBy(cse_ops)
  <2>1. k < cse_i \/ k = cse_i
    BY <1>12, <1>13
  <2> QED  BY <1>11, <2>1 DEF CseReaders, op
<1>14. FusedMade' = FusedMade
  BY DEF FusedMade
<1>15. MadeByNew(cse_ops)' /\ ReadBy(cse_ops') \cap FusedMade \subseteq ReadBy(new_ops')
  BY <1>1 DEF CseReaders, MadeByNew
<1> QED  BY <1>1, <1>10, <1>13, <1>14, <1>15 DEF CseReaders

LEMMA KeepKeepsReaders ==
    ASSUME C!IInv, C!KeepCanonical, new_ops' = new_ops,
           Range(fused_graph.ops) \subseteq Range(new_ops), CseReaders
    PROVE  CseReaders'
<1> DEFINE op == fused_graph.ops[cse_i]
           kept == C!Rewired(op)
           l == Len(cse_ops)
<1>1. /\ C!Scanning /\ cse_ops' = Append(cse_ops, kept) /\ remap' = remap
      /\ cse_i' = cse_i + 1 /\ fused_graph' = fused_graph
  BY DEF C!KeepCanonical, C!KeepAs
<1>2. cse_i \in DOMAIN fused_graph.ops /\ IsOp(op)
  BY <1>1, CseOp
<1>3. /\ kept.kind = op.kind /\ kept.outputs = op.outputs /\ kept.attrs = op.attrs
      /\ kept.inputs = C!ReplacedIn(op.inputs)
  <2>1. kept = MkOp(op.name, op.kind, C!ReplacedIn(op.inputs), op.outputs, op.attrs)
    BY <1>2, RewiredOp
  <2> QED  BY <2>1 DEF MkOp
<1>4. /\ DOMAIN kept.inputs = DOMAIN op.inputs
      /\ \A j \in DOMAIN op.inputs : kept.inputs[j] = C!Replaced(op.inputs[j])
  BY <1>2, <1>3, ReplacedList DEF IsOp
<1>5. cse_ops \in Seq(Range(cse_ops))
  BY SameLists DEF C!IInv, C!ListsAreLists
<1>6. l \in Nat /\ DOMAIN cse_ops = 1..l
  BY <1>5, PositionsOfList
<1> HIDE DEF kept, op
<1>7. /\ DOMAIN cse_ops' = 1..(l + 1)
      /\ \A k \in 1..l : cse_ops'[k] = cse_ops[k]
      /\ cse_ops'[l + 1] = kept
  BY <1>1, <1>5, AppendedAt
<1> HIDE DEF l
<1>8. \A k \in DOMAIN cse_ops' : (k \in DOMAIN cse_ops /\ cse_ops'[k] = cse_ops[k]) \/ cse_ops'[k] = kept
  BY <1>6, <1>7
<1>9. ReadBy(cse_ops') = ReadBy(cse_ops) \cup Range(kept.inputs)
  <2>1. \A k \in DOMAIN cse_ops : k \in DOMAIN cse_ops' /\ cse_ops'[k] = cse_ops[k]
    BY <1>6, <1>7
  <2>2. l + 1 \in DOMAIN cse_ops' /\ cse_ops'[l + 1] = kept
    BY <1>6, <1>7
  <2>3. ASSUME NEW t \in ReadBy(cse_ops') PROVE t \in ReadBy(cse_ops) \cup Range(kept.inputs)
    <3>1. PICK k \in DOMAIN cse_ops' : t \in Range(cse_ops'[k].inputs)
      BY DEF ReadBy
    <3> QED  BY <1>8, <3>1 DEF ReadBy
  <2>4. ASSUME NEW t \in ReadBy(cse_ops) PROVE t \in ReadBy(cse_ops')
    <3>1. PICK k \in DOMAIN cse_ops : t \in Range(cse_ops[k].inputs)
      BY DEF ReadBy
    <3> QED  BY <2>1, <3>1 DEF ReadBy
  <2>5. Range(kept.inputs) \subseteq ReadBy(cse_ops')
    BY <2>2 DEF ReadBy
  <2> QED  BY <2>3, <2>4, <2>5
<1>10. PICK n \in DOMAIN new_ops : op = new_ops[n]
  <2>1. op \in Range(fused_graph.ops)
    BY <1>2 DEF Range, op
  <2> QED  BY <2>1 DEF Range
<1>11. MadeByNew(cse_ops)'
  <2>1. SameWork(kept, new_ops[n])
    BY <1>3, <1>10 DEF SameWork
  <2> QED  BY <1>8, <2>1 DEF CseReaders, MadeByNew
<1>12. \A j \in DOMAIN op.inputs :
          \/ kept.inputs[j] = op.inputs[j]
          \/ op.inputs[j] \notin FusedMade /\ kept.inputs[j] \notin FusedMade
  BY <1>4 DEF CseReaders, C!Replaced
<1>13. Range(kept.inputs) \cap FusedMade = Range(op.inputs) \cap FusedMade
  BY <1>4, <1>12 DEF Range
<1>14. Range(op.inputs) \subseteq ReadBy(new_ops)
  BY <1>10 DEF ReadBy
<1>15. ReadBy(cse_ops') \cap FusedMade \subseteq ReadBy(new_ops)
  BY <1>9, <1>13, <1>14 DEF CseReaders
<1>16. cse_i \in Int /\ \A k \in DOMAIN fused_graph.ops : k \in Int
  <2>1. fused_graph.ops \in Seq(Range(fused_graph.ops))
    BY SameGraphs DEF C!IInv, IsGraph
  <2>2. DOMAIN fused_graph.ops = 1..Len(fused_graph.ops)
    BY <2>1, PositionsOfList
  <2> QED  BY <1>2, <2>2
<1>17. ASSUME NEW k \in DOMAIN fused_graph.ops, k < cse_i + 1
       PROVE  Range(fused_graph.ops[k].inputs) \cap FusedMade \subseteq ReadBy(cse_ops')
  <2>1. k < cse_i \/ k = cse_i
    BY <1>16, <1>17
  <2>2. CASE k < cse_i
    BY <1>9, <2>2 DEF CseReaders
  <2>3. CASE k = cse_i
    BY <1>9, <1>13, <2>3 DEF op
  <2> QED  BY <2>1, <2>2, <2>3
<1>18. FusedMade' = FusedMade
  BY DEF FusedMade
<1>19. \A u \in DOMAIN remap' : u \notin FusedMade /\ remap'[u] \notin FusedMade
  BY <1>1 DEF CseReaders
<1> QED  BY <1>1, <1>11, <1>15, <1>17, <1>18, <1>19 DEF CseReaders

LEMMA ReadersSteps ==
    ASSUME ScanInv, StageInv, ContentInv, AccountInv, ReadersInv, [PipelineNext]_allVars
    PROVE  ReadersInv'
<1>1. CASE FuseOps
  BY <1>1 DEF FuseOps, ReadersInv
<1>2. CASE StartDce
  <2>1. FusedGraph.ops = new_ops /\ Verified(FusedGraph)
    BY <1>2, FusedGraphServes DEF StartDce
  <2>2. /\ phase' = "dce" /\ fused_graph' = FusedGraph /\ Finished /\ i' = i /\ graph' = graph
        /\ new_ops' = new_ops
    BY <1>2, <2>1 DEF StartDce, Leave, vars
  <2> QED  BY <2>1, <2>2 DEF ReadersInv, Finished
<1>3. CASE EliminateDeadCode
  <2>1. /\ phase = "dce" /\ phase' = "dce" /\ fused_graph' = fused_graph /\ i' = i /\ graph' = graph
        /\ new_ops' = new_ops
    BY <1>3 DEF EliminateDeadCode, vars
  <2> QED  BY <2>1 DEF ReadersInv, Finished
<1>4. CASE StartCse
  <2>1. /\ phase = "dce" /\ D!IInv /\ D!Finished /\ C!Starts
        /\ fused_graph' = D!Pruned /\ cseVars' = cseVars
        /\ phase' \in {"cse", "rejected"} /\ dce_removed' = Dce!Removed
        /\ i' = i /\ graph' = graph /\ new_ops' = new_ops
    BY <1>4, SameDceSteps DEF StartCse, Leave, StageInv, vars
  <2>2. fused_graph.ops = new_ops /\ Finished
    BY <2>1 DEF ReadersInv
  <2>3. Range(D!Pruned.ops) \subseteq Range(fused_graph.ops)
    BY <2>1, NoGraphs, D!PrunedIsGraph, SameLists
  <2>4. dce_removed' = <<>> => Range(new_ops) \subseteq Range(D!Pruned.ops)
    BY <2>1, <2>2, NothingRemoved
  <2>5. PartOfNew'
    BY <2>1, <2>2, <2>3, <2>4 DEF PartOfNew
  <2>6. CseReaders'
    <3>1. cse_ops' = <<>> /\ remap' = <<>> /\ cse_i' = 1
      BY <2>1 DEF C!Starts, cseVars
    <3>2. \A k \in DOMAIN fused_graph'.ops : ~ (k < 1)
      <4>1. D!Pruned.ops \in Seq(Range(D!Pruned.ops))
        <5>1. IsGraph(D!Pruned)
          BY <2>1, NoGraphs, D!PrunedIsGraph, SameGraphs
        <5> QED  BY <5>1 DEF IsGraph
      <4>2. DOMAIN D!Pruned.ops = 1..Len(D!Pruned.ops) /\ Len(D!Pruned.ops) \in Nat
        BY <4>1, PositionsOfList
      <4> QED  BY <2>1, <4>2
    <3>3. DOMAIN <<>> = {} /\ ReadBy(<<>>) = {}
      <4>1. DOMAIN <<>> = {}
        BY EmptySeq
      <4> QED  BY <4>1 DEF ReadBy
    <3> QED  BY <3>1, <3>2, <3>3 DEF CseReaders, MadeByNew
  <2>7. Finished'
    BY <2>1, <2>2 DEF Finished
  <2> QED  BY <2>1, <2>5, <2>6, <2>7 DEF ReadersInv
<1>5. CASE EliminateCommonSubexpressions
  <2>1. /\ phase = "cse" /\ phase' = "cse" /\ fused_graph' = fused_graph
        /\ dce_removed' = dce_removed /\ (C!DropDuplicate \/ C!KeepCanonical)
        /\ i' = i /\ graph' = graph /\ new_ops' = new_ops
    BY <1>5, SameCseSteps DEF EliminateCommonSubexpressions, vars, dceVars
  <2>2. Finished /\ PartOfNew /\ CseReaders
    BY <2>1 DEF ReadersInv
  <2>3. C!IInv /\ C!KeyedByContent
    BY <2>1 DEF StageInv
  <2>4. AllFit(fused_graph.ops, {}) /\ AllFit(cse_ops, DOMAIN remap)
    BY <2>1 DEF ContentInv
  <2>5. NothingIsIdle
    BY <2>1 DEF AccountInv
  <2>6. CseReaders'
    <3>1. Range(fused_graph.ops) \subseteq Range(new_ops)
      BY <2>2 DEF PartOfNew
    <3>2. CASE C!DropDuplicate
      BY <2>1, <2>2, <2>3, <2>4, <2>5, <3>1, <3>2, DropKeepsReaders
    <3>3. CASE C!KeepCanonical
      BY <2>1, <2>2, <2>3, <3>1, <3>3, KeepKeepsReaders
    <3> QED  BY <2>1, <3>2, <3>3
  <2>7. Finished' /\ PartOfNew'
    <3>1. /\ fused_graph' = fused_graph /\ dce_removed' = dce_removed
          /\ i' = i /\ graph' = graph /\ new_ops' = new_ops
      BY <2>1
    <3>2. Finished'
      BY <2>2, <3>1 DEF Finished
    <3>3. PartOfNew'
      BY <2>2, <3>1 DEF PartOfNew
    <3> QED  BY <3>2, <3>3
  <2> QED  BY <2>1, <2>6, <2>7 DEF ReadersInv
<1>6. CASE StartStep
  <2>1. /\ phase = "cse" /\ C!IInv /\ C!Finished /\ fused_graph' = C!Deduped
        /\ dce_removed' = dce_removed /\ phase' \in {"step", "rejected"}
        /\ i' = i /\ graph' = graph /\ new_ops' = new_ops
    BY <1>6, SameCseSteps DEF StartStep, Leave, StageInv, vars, dceVars
  <2>2. C!Deduped.ops = cse_ops
    BY <2>1, NoGraphs, C!DedupedFields
  <2>3. Finished /\ PartOfNew /\ CseReaders
    BY <2>1 DEF ReadersInv
  <2>4. \A k \in DOMAIN fused_graph.ops : k < cse_i
    <3>1. fused_graph.ops \in Seq(Range(fused_graph.ops)) /\ cse_i \in 1..(Len(fused_graph.ops) + 1)
      BY <2>1, SameGraphs DEF C!IInv, C!TypeOK, IsGraph
    <3>2. DOMAIN fused_graph.ops = 1..Len(fused_graph.ops) /\ Len(fused_graph.ops) \in Nat
      BY <3>1, PositionsOfList
    <3> QED  BY <2>1, <3>1, <3>2 DEF C!Finished
  <2>5. ReadBy(fused_graph.ops) \cap FusedMade \subseteq ReadBy(cse_ops)
    BY <2>3, <2>4 DEF CseReaders, ReadBy
  <2>6. Range(new_ops) \subseteq Range(fused_graph.ops) => ReadBy(new_ops) \subseteq ReadBy(fused_graph.ops)
    <3> SUFFICES ASSUME Range(new_ops) \subseteq Range(fused_graph.ops), NEW n \in DOMAIN new_ops
                 PROVE  Range(new_ops[n].inputs) \subseteq ReadBy(fused_graph.ops)
      BY DEF ReadBy
    <3>1. PICK k \in DOMAIN fused_graph.ops : fused_graph.ops[k] = new_ops[n]
      BY DEF Range
    <3> QED  BY <3>1 DEF ReadBy
  <2>7. dce_removed = <<>> => ReadBy(new_ops) \cap FusedMade \subseteq ReadBy(cse_ops)
    BY <2>3, <2>5, <2>6 DEF PartOfNew
  <2>8. FusedMade' = FusedMade
    BY <2>1 DEF FusedMade
  <2>9. MadeByNew(fused_graph.ops)'
    BY <2>1, <2>2, <2>3 DEF CseReaders, MadeByNew
  <2>10. StepReaders'
    BY <2>1, <2>2, <2>3, <2>7, <2>8, <2>9 DEF CseReaders, StepReaders
  <2>11. Finished'
    BY <2>1, <2>3 DEF Finished
  <2> QED  BY <2>1, <2>10, <2>11 DEF ReadersInv
<1>7. CASE ExecuteStep
  <2>1. /\ phase = "step" /\ phase' = "step" /\ fused_graph' = fused_graph
        /\ dce_removed' = dce_removed /\ i' = i /\ graph' = graph /\ new_ops' = new_ops
    BY <1>7 DEF ExecuteStep, vars, dceVars
  <2>2. StepReaders' /\ Finished'
    BY <2>1 DEF ReadersInv, StepReaders, MadeByNew, FusedMade, Finished
  <2> QED  BY <2>1, <2>2 DEF ReadersInv
<1>8. CASE UNCHANGED engineVars
  <2>1. /\ phase' = phase /\ fused_graph' = fused_graph /\ cse_ops' = cse_ops /\ cse_i' = cse_i
        /\ remap' = remap /\ dce_removed' = dce_removed
        /\ i' = i /\ graph' = graph /\ new_ops' = new_ops
    BY <1>8 DEF engineVars, vars, cseVars, dceVars
  <2>2. FusedMade' = FusedMade /\ (Finished' <=> Finished) /\ (PartOfNew' <=> PartOfNew)
    BY <2>1 DEF FusedMade, Finished, PartOfNew
  <2>3. StepReaders' <=> StepReaders
    BY <2>1, <2>2 DEF StepReaders, MadeByNew
  <2>4. CseReaders' <=> CseReaders
    BY <2>1, <2>2 DEF CseReaders, MadeByNew
  <2> QED  BY <2>1, <2>2, <2>3, <2>4 DEF ReadersInv
<1> QED  BY <1>1, <1>2, <1>3, <1>4, <1>5, <1>6, <1>7, <1>8, QuietSteps DEF PipelineNext

LEMMA ReadersStay == PipelineSpec => []ReadersInv
<1>1. PipelineInit => ReadersInv
  BY DEF PipelineInit, ReadersInv
<1>2. ScanInv /\ StageInv /\ ContentInv /\ AccountInv /\ ReadersInv /\ [PipelineNext]_allVars
      => ReadersInv'
  BY ReadersSteps
<1> QED  BY <1>1, <1>2, ScanStaysRight, StagesStayRight, ContentStaysRight, AccountStays, PTL
            DEF PipelineSpec

\* The traffic that a step reports as saved is never more than the executed
\* graph saves, and it is exactly that where dead-code elimination removed
\* nothing: the pass that deduplicates ops moves no reader to or from a tensor
\* that a fused op makes.
THEOREM TrafficIsHonest == PipelineSpec => []TrafficNeverOverstated
<1>1. ASSUME ScanInv, FusedWhereMatched, StageInv, ExecInv, ReadersInv
      PROVE  TrafficNeverOverstated
  <2> DEFINE S == DOMAIN fused_graph.ops
             really == MapThenSumSet(ReallySaved, S)
  <2> SUFFICES ASSUME status = "returned"
               PROVE  Saved <= really /\ (Saved < really => dce_removed # <<>>)
    BY DEF TrafficNeverOverstated
  <2>1. phase = "step"
    BY <1>1 DEF ExecInv
  <2>2. Finished /\ StepReaders /\ Verified(fused_graph) /\ fused_graph.ops \in Seq(Range(fused_graph.ops))
    BY <1>1, <2>1 DEF StageInv, ReadersInv
  <2>3. IsFiniteSet(S)
    <3>1. S = 1..Len(fused_graph.ops) /\ Len(fused_graph.ops) \in Nat
      BY <2>2, PositionsOfList
    <3> QED  BY <3>1, PositionsCounted
  <2>4. Saved = Total(CountedOf, S) /\ really = Total(ReallySavedOf, S)
    BY <2>3, SavedTotals
  <2>5. \A k \in S : /\ CountedOf[k] \in Int /\ ReallySavedOf[k] \in Int
                     /\ CountedOf[k] <= ReallySavedOf[k]
                     /\ dce_removed = <<>> => CountedOf[k] = ReallySavedOf[k]
    BY <1>1, <2>2, CountedIsSaved DEF CountedOf, ReallySavedOf
  <2> HIDE DEF S, really
  <2>6. Saved <= really
    BY <2>3, <2>4, <2>5, TotalCompare
  <2>7. dce_removed = <<>> => Saved = really
    BY <2>3, <2>4, <2>5, TotalSame
  <2>8. Saved \in Int /\ really \in Int
    BY <2>3, <2>4, <2>5, TotalSplit
  <2> QED  BY <2>6, <2>7, <2>8
<1> QED  BY <1>1, ScanStaysRight, FusesMatches, StagesStayRight, StepStaysRight, ReadersStay, PTL
=============================================================================

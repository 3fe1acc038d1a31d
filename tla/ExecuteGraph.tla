---------------------------- MODULE ExecuteGraph ----------------------------
(***************************************************************************)
(* execute_graph and execute_op of src/codegen/fused_ops.py: the reference *)
(* backend runs a graph's ops in list order, and a fused op's sub-ops in   *)
(* their order, over a private copy of the tensors it is given.            *)
(*                                                                         *)
(* What an op computes is a parameter, so the properties hold for every    *)
(* arithmetic: Compute(kind, param, args, k) is the k-th value an op of    *)
(* that kind makes of its arguments, Given(t) the tensor the caller        *)
(* provides under the name t.                                              *)
(***************************************************************************)
EXTENDS Verify

CONSTANTS Graphs,             \* the graphs a caller may execute
          Compute(_, _, _, _),
          Given(_)

ASSUME GraphsAssumption == \A g \in Graphs : IsBaseGraph(g)

VARIABLES graph,    \* the graph being executed
          pos,      \* the op it has reached
          sub,      \* the sub-op it has reached inside a fused op
          env,      \* the tensors present so far, by name
          status    \* "running", "returned", or "raised" by an exception

vars == <<graph, pos, sub, env, status>>
----------------------------------------------------------------------------
\* OP_FUNCS: how many inputs and outputs the implementation of each kind
\* indexes.  Any further ones it ignores, except that _kv_cache_update
\* unpacks its list of inputs and wants exactly four.
NumInputs ==
    [rmsnorm |-> 2, matmul |-> 2, split_qkv |-> 1, rope |-> 2, kv_cache_update |-> 4,
     attn_qk |-> 2, attn_softmax |-> 1, attn_av |-> 2, reshape |-> 1, add |-> 2, gelu |-> 1]

NumOutputs ==
    [rmsnorm |-> 1, matmul |-> 1, split_qkv |-> 3, rope |-> 2, kv_cache_update |-> 2,
     attn_qk |-> 1, attn_softmax |-> 1, attn_av |-> 1, reshape |-> 1, add |-> 1, gelu |-> 1]

\* The keys of the dims dict a step executes with.
StepDims == {"batch", "seq_len", "next_seq_len", "hidden_dim", "n_heads", "head_dim",
             "qkv_dim", "ffn_dim"}

\* The implementation finds everything it looks up but the tensors.
HasImplementation(op) ==
    /\ op.kind \in DOMAIN NumInputs
    /\ op.kind = "kv_cache_update" => Len(op.inputs) = 4
    /\ op.kind = "rope" => op.attrs.param \in StepDims
    /\ Len(op.inputs) >= NumInputs[op.kind]
    /\ Len(op.outputs) >= NumOutputs[op.kind]

\* The tensors it reads, and those it assigns.
Arguments(op) == SubSeq(op.inputs, 1, NumInputs[op.kind])
Results(op) == SubSeq(op.outputs, 1, NumOutputs[op.kind])

\* Mutant of Assign: the environment is replaced, not updated.
AssignOnly(e, op) ==
    LET args == [k \in DOMAIN Arguments(op) |-> e[Arguments(op)[k]]] IN
    [t \in Range(Results(op)) |-> Compute(op.kind, op.attrs.param, args, 1)]

\* The environment after op: of two results under one name the later stays.
Assign(e, op) ==
    LET args == [k \in DOMAIN Arguments(op) |-> e[Arguments(op)[k]]]
        LastAt(t) == CHOOSE k \in DOMAIN Results(op) :
                        /\ Results(op)[k] = t
                        /\ \A j \in DOMAIN Results(op) : Results(op)[j] = t => j <= k
    IN [t \in DOMAIN e \cup Range(Results(op)) |->
            IF t \in Range(Results(op))
            THEN Compute(op.kind, op.attrs.param, args, LastAt(t))
            ELSE e[t]]
----------------------------------------------------------------------------
\* The tensors the verifier takes to be there from the start: the graph's
\* inputs and its external tensors, the parameters.
InitialTensors(g) == [t \in Range(g.graph_inputs) \cup External(g) |-> Given(t)]

Init ==
    /\ graph \in Graphs
    /\ pos = 1
    /\ sub = 1
    /\ env = InitialTensors(graph)
    /\ status = "running"

AtOp == status = "running" /\ pos <= Len(graph.ops)

CurrentOp ==
    LET op == graph.ops[pos] IN
    IF op.kind = "fused" THEN op.attrs.sub_ops[sub] ELSE op

\* Mutant of Advance: a fused op is begun again after its last sub-op.
AdvanceAgain ==
    LET op == graph.ops[pos] IN
    IF op.kind = "fused"
    THEN pos' = pos /\ sub' = (sub % Len(op.attrs.sub_ops)) + 1
    ELSE pos' = pos + 1 /\ sub' = 1

\* The position after the current op: the next sub-op, or the next op.
Advance ==
    LET op == graph.ops[pos] IN
    IF op.kind = "fused" /\ sub < Len(op.attrs.sub_ops)
    THEN pos' = pos /\ sub' = sub + 1
    ELSE pos' = pos + 1 /\ sub' = 1

CanRun(op) ==
    /\ HasImplementation(op)
    /\ Range(Arguments(op)) \subseteq DOMAIN env

RunOp ==
    /\ AtOp
    /\ CanRun(CurrentOp)
    /\ env' = Assign(env, CurrentOp)
    /\ Advance
    /\ UNCHANGED <<graph, status>>

\* A lookup of the tensor dict, of OP_FUNCS, of dims or of the op's lists
\* fails; the exception leaves execute_graph and the copy is dropped.
Raise ==
    /\ AtOp
    /\ ~ CanRun(CurrentOp)
    /\ status' = "raised"
    /\ UNCHANGED <<graph, pos, sub, env>>

Return ==
    /\ status = "running"
    /\ pos > Len(graph.ops)
    /\ status' = "returned"
    /\ UNCHANGED <<graph, pos, sub, env>>

Halted == status # "running"
Terminated == Halted /\ UNCHANGED vars

Next == RunOp \/ Raise \/ Return \/ Terminated

\* execute_graph is a sequential loop: nothing can delay its next op.
Spec == Init /\ [][Next]_vars /\ WF_vars(Next)
----------------------------------------------------------------------------
(***************************************************************************)
(* Properties.                                                             *)
(***************************************************************************)

\* The type invariant: the position stays inside the graph, and the copy of
\* the tensors never loses one it was given nor gains one no op writes.
TypeOK ==
    /\ pos \in 1..(Len(graph.ops) + 1)
    /\ sub \in Nat \ {0}
    /\ pos <= Len(graph.ops) => sub <= Len(SubOps(graph.ops[pos]))
    /\ DOMAIN InitialTensors(graph) \subseteq DOMAIN env
    /\ DOMAIN env \subseteq DOMAIN InitialTensors(graph) \cup WrittenBy(graph.ops)
    /\ status \in {"running", "returned", "raised"}

\* Every op, fused ones by their sub-ops, lists exactly the tensors the
\* implementation of its kind uses.
Implemented(g) ==
    \A k \in DOMAIN g.ops : \A m \in DOMAIN SubOps(g.ops[k]) :
        LET op == SubOps(g.ops[k])[m] IN
        /\ HasImplementation(op)
        /\ Arguments(op) = op.inputs
        /\ Results(op) = op.outputs

\* What verify.py is for: a graph it accepts never makes a later stage fail
\* with "an opaque KeyError".
VerifiedNeverRaises ==
    Verified(graph) /\ Implemented(graph) => status # "raised"

\* Conversely, invariant 3 is not stricter than it must be: a graph with a
\* use-before-def error never runs to its end.
UseBeforeDefRaises ==
    Implemented(graph) /\ UsedBeforeDef(graph) # {} => status # "returned"

\* Invariants 1 and 2: in a graph the verifier accepts "a tensor name
\* uniquely identifies the value", so no step changes a tensor once present.
TensorsAreStable ==
    [][Verified(graph) => \A t \in DOMAIN env :
          t \in DOMAIN env' /\ env'[t] = env[t]]_vars

\* The producer of a tensor, as Graph.producer_index finds it.
Producer(g, t) ==
    CHOOSE k \in DOMAIN g.ops :
        /\ t \in Range(g.ops[k].outputs)
        /\ \A j \in DOMAIN g.ops : t \in Range(g.ops[j].outputs) => j <= k

\* A graph of plain ops read as a system of equations, with no order of
\* execution: a given tensor equals what the caller provides, any other one
\* the result of its producer on the values of its producer's inputs.
Solves(e, g, t) ==
    IF t \notin WrittenBy(g.ops) THEN e[t] = Given(t)
    ELSE LET op == g.ops[Producer(g, t)]
             k == CHOOSE m \in DOMAIN op.outputs : op.outputs[m] = t
         IN /\ Range(op.inputs) \subseteq DOMAIN e
            /\ e[t] = Compute(op.kind, op.attrs.param,
                              [j \in DOMAIN op.inputs |-> e[op.inputs[j]]], k)

\* Running an accepted graph in list order solves its equations: no tensor
\* was computed from a value that something changed or replaced later.
TensorsSolveEquations ==
    Verified(graph) /\ Implemented(graph)
        => \A t \in DOMAIN env : Solves(env, graph, t)
=============================================================================

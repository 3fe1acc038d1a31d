--------------------------- MODULE MCExecuteGraph ---------------------------
(***************************************************************************)
(* Values for the constants of ExecuteGraph.  Computed values are terms,   *)
(* so two tensors are equal only when they are computed the same way.      *)
(***************************************************************************)
EXTENDS ExecuteGraph, MCGraphs

MCGiven(t) == <<"given", t>>
MCCompute(kind, param, args, k) == <<kind, param, args, k>>

\* Graphs nobody verified: any two or three ops over a few tensors, with
\* all or some of them declared and A a graph input or not.
A == <<"a", 0>>
B == <<"b", 0>>
C == <<"c", 0>>

Loose(ops, S) ==
    {[ops |-> ops, shapes |-> [t \in D |-> <<"batch", "hidden_dim">>],
      graph_inputs |-> ins, graph_outputs |-> <<A>>] : D \in {S, S \ {B}}, ins \in {<<>>, <<A>>}}

\* Ops whose lists are too short, or longer than the implementation's.
Malformed(k) ==
    {Plain(k, "add", <<A>>, <<B>>), Plain(k, "gelu", <<A>>, <<A, B>>),
     Plain(k, "rope", <<A, A>>, <<A, B>>)}

Gelus(k, S) == {Plain(k, "gelu", <<a>>, <<b>>) : a \in S, b \in S}
Ropes(k, S) ==
    {[Plain(k, "rope", <<a, b>>, <<c, d>>) EXCEPT !.attrs.param = "seq_len"] :
        a \in S, b \in S, c \in S, d \in S}

TwoLooseOps ==
    UNION {Loose(<<a, b>>, {A, B}) :
        a \in Gelus(1, {A, B}) \cup Ropes(1, {A, B}),
        b \in Gelus(2, {A, B}) \cup Ropes(2, {A, B}) \cup Malformed(2)}

\* A two-output op that may write one tensor twice, behind another op.
LateRopes ==
    UNION {Loose(<<a, b>>, {A, B, C}) :
        a \in Gelus(1, {A, B}),
        b \in {[Plain(2, "rope", <<d, d>>, <<C, e>>) EXCEPT !.attrs.param = "seq_len"] :
                  d \in {A, B}, e \in {A, B, C}}}

ThreeLooseOps ==
    UNION {Loose(<<a, b, c>>, {A, B, C}) :
        a \in Gelus(1, {A, B, C}), b \in Gelus(2, {A, B, C}), c \in Gelus(3, {A, B, C})}

MCGraphsSet ==
    TwoLooseOps \cup LateRopes \cup ThreeLooseOps \cup AttentionGraphs \cup {BuildDecodeStepGraph(1)}
MCTensor == TensorsOf(MCGraphsSet)
MCName == NamesOf(MCGraphsSet)
MCParam == {"", "eps", "seq_len"}
=============================================================================

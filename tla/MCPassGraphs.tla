---------------------------- MODULE MCPassGraphs ----------------------------
(***************************************************************************)
(* Graphs with ops nothing needs and ops that repeat one another, for the  *)
(* clean-up passes.                                                        *)
(***************************************************************************)
EXTENDS MCGraphs

\* The second tensor of a two-output op at position k.
T2(k) == <<"t2", k>>

Available(k) == {X} \cup {T(j) : j \in 1..(k - 1)}
Gelus(k) == {Plain(k, "gelu", <<d>>, <<T(k)>>) : d \in Available(k)}
Adds(k) == {Plain(k, "add", <<d, e>>, <<T(k)>>) : d \in Available(k), e \in Available(k)}
Norms(k) ==
    {[Plain(k, "rmsnorm", <<d, W>>, <<T(k)>>) EXCEPT !.attrs.param = p] :
        d \in Available(k), p \in {"", "eps"}}
Ropes(k) ==
    {[Plain(k, "rope", <<d, d>>, <<T(k), T2(k)>>) EXCEPT !.attrs.param = "seq_len"] :
        d \in Available(k)}

\* The outputs a graph of n ops may declare: one or two of its tensors, and
\* perhaps an input.
OutputLists(n) ==
    {<<T(j)>> : j \in 1..n} \cup {<<T(n), X>>, <<T(n), T(1)>>}

\* Every graph of four such one-output ops.
Chains ==
    {GraphOf(<<a, b, c, d>>, outs) : a \in Gelus(1), b \in Gelus(2) \cup Adds(2),
        c \in Gelus(3), d \in Gelus(4) \cup Adds(4), outs \in OutputLists(4)}

\* Two ops that may differ in their attributes only.
NormPairs ==
    {GraphOf(<<a, b, c>>, <<T(3)>>) : a \in Norms(1), b \in Norms(2), c \in Adds(3)}

\* Two two-output ops, read by either output or by none.
Pairs ==
    {GraphOf(<<a, b, Plain(3, "add", <<d, e>>, <<T(3)>>)>>, outs) : a \in Ropes(1), b \in Ropes(2),
        d \in {X, T(1), T2(1), T(2), T2(2)}, e \in {T2(1), T2(2)},
        outs \in {<<T(3)>>, <<T2(1)>>, <<T2(2)>>, <<T(3), T2(2)>>}}
=============================================================================

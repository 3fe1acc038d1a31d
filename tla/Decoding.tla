------------------------------ MODULE Decoding ------------------------------
(***************************************************************************)
(* What a decoding session promises its caller, without graphs, plans or   *)
(* caches: every request's context grows by one token at a time, in order, *)
(* each token once, until the caller has all it wants.                     *)
(***************************************************************************)
EXTENDS Naturals, Sequences

CONSTANTS Request,      \* the sequences the caller decodes
          MaxTokens     \* bound: the tokens it decodes of each

VARIABLE context        \* the tokens each request's caches hold

Init == context = [r \in Request |-> <<>>]

Decode(r) ==
    /\ Len(context[r]) < MaxTokens
    /\ context' = [context EXCEPT ![r] = Append(@, <<r, Len(@) + 1>>)]

Done == \A r \in Request : Len(context[r]) = MaxTokens
Terminated == Done /\ UNCHANGED context

Next == (\E r \in Request : Decode(r)) \/ Terminated

\* What may happen, without what must.
Safely == Init /\ [][Next]_context

Spec == Safely /\ WF_context(Next)
=============================================================================

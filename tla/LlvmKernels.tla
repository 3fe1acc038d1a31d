---------------------------- MODULE LlvmKernels -----------------------------
(***************************************************************************)
(* src/codegen/llvm_kernels.py: the generated elementwise and matmul       *)
(* loops, one step per basic block, and the wrappers that call them.       *)
(*                                                                         *)
(* Registers are Width-bit two's complement integers (32 in the code).  An *)
(* array is known by its shape, an element by its flat index; a product    *)
(* accumulates the pairs of elements it adds up, in order.                 *)
(***************************************************************************)
EXTENDS DispatchJit, SequencesExt

CONSTANT Calls      \* the calls a caller makes of the compiled kernels

VARIABLES call,         \* the call: its kernel and the arguments
          pc,           \* the basic block to run, or how the call ended
          i,            \* the elementwise loop's counter
          m, n, k,      \* the matmul loops' counters
          acc,          \* the dot product so far
          out           \* the result's memory, by flat index

vars == <<call, pc, i, m, n, k, acc, out>>

\* What an element holds that nothing has written.
Uninitialised == <<-1>>

\* _KERNELS: whether a kernel needs alpha.
NeedsAlpha == [add |-> FALSE, mul |-> FALSE, axpy |-> TRUE]

SizeOf(shape) == FoldLeft(LAMBDA size, dim : size * dim, 1, shape)

\* Two array arguments, of these shapes.  That an array has a natural number of
\* elements is arithmetic of a fold, which the provers cannot do.
ASSUME CallsAssumption ==
    \A c \in Calls :
        /\ c.kernel \in DOMAIN NeedsAlpha \cup {"matmul"}
        /\ c.x \in Seq(Nat) /\ c.y \in Seq(Nat)
        /\ SizeOf(c.x) \in Nat

\* An index that lies in an array of that many elements.
Inside(index, size) == 0 <= index /\ index < size

IsElementwise == call.kernel \in DOMAIN NeedsAlpha
----------------------------------------------------------------------------
Init ==
    /\ call \in Calls
    /\ pc = "called"
    /\ i = 0 /\ m = 0 /\ n = 0 /\ k = 0
    /\ acc = <<>>
    /\ out = <<>>

\* What a wrapper accepts: equal shapes, and alpha where it is needed; two
\* matrices that can be multiplied.
Accepted ==
    IF IsElementwise
    THEN call.x = call.y /\ (NeedsAlpha[call.kernel] => call.alpha)
    ELSE Len(call.x) = 2 /\ Len(call.y) = 2 /\ call.x[2] = call.y[1]

\* It raises ValueError on anything else.
Reject ==
    /\ pc = "called"
    /\ ~ Accepted
    /\ pc' = "raised"
    /\ UNCHANGED <<call, i, m, n, k, acc, out>>

\* The kernel is entered with a fresh result of that many elements.
Enter(block, size, element) ==
    /\ out' = [index \in 0..(size - 1) |-> element]
    /\ pc' = block
    /\ UNCHANGED <<call, i, m, n, k, acc>>

\* The result comes from np.empty_like.
EnterElementwise ==
    /\ pc = "called" /\ IsElementwise /\ Accepted
    /\ Enter("loop.cond", SizeOf(call.x), Uninitialised)

\* The result comes from np.zeros: sums of no products.
EnterMatmul ==
    /\ pc = "called" /\ ~ IsElementwise /\ Accepted
    /\ Enter("m.cond", call.x[1] * call.y[2], <<>>)

\* An access outside an array: from here on anything may happen.
GoAstray ==
    /\ pc' = "undefined"
    /\ UNCHANGED <<call, i, m, n, k, acc, out>>

\* The arguments as the native code receives them.
Size == Wrap(SizeOf(call.x))
M == Wrap(call.x[1])
N == Wrap(call.y[2])
K == Wrap(call.x[2])
----------------------------------------------------------------------------
LoopCond ==
    /\ pc = "loop.cond"
    /\ pc' = IF i < Size THEN "loop.body" ELSE "returned"
    /\ UNCHANGED <<call, i, m, n, k, acc, out>>

LoopBody ==
    /\ pc = "loop.body"
    /\ IF Inside(i, SizeOf(call.x))
       THEN /\ out' = [out EXCEPT ![i] = <<i>>]
            /\ i' = Wrap(i + 1)
            /\ pc' = "loop.cond"
            /\ UNCHANGED <<call, m, n, k, acc>>
       ELSE GoAstray

MCond ==
    /\ pc = "m.cond"
    /\ IF m < M THEN pc' = "n.cond" /\ n' = 0
                ELSE pc' = "returned" /\ UNCHANGED n
    /\ UNCHANGED <<call, i, m, k, acc, out>>

\* The end of a row goes through m.latch.
NCond ==
    /\ pc = "n.cond"
    /\ IF n < N THEN pc' = "k.cond" /\ k' = 0 /\ acc' = <<>> /\ UNCHANGED m
                ELSE pc' = "m.cond" /\ m' = Wrap(m + 1) /\ UNCHANGED <<k, acc>>
    /\ UNCHANGED <<call, i, n, out>>

KCond ==
    /\ pc = "k.cond"
    /\ pc' = IF k < K THEN "k.body" ELSE "k.end"
    /\ UNCHANGED <<call, i, m, n, k, acc, out>>

\* Mutant of Flat: the columns are multiplied by the stride.
FlatByColumn(row, stride, col) == Wrap(Wrap(col * stride) + row)

\* row * stride + col.
Flat(row, stride, col) == Wrap(Wrap(row * stride) + col)

KBody ==
    /\ pc = "k.body"
    /\ LET a_idx == Flat(m, K, k)
           b_idx == Flat(k, N, n)
       IN IF /\ Inside(a_idx, call.x[1] * call.x[2])
             /\ Inside(b_idx, call.y[1] * call.y[2])
          THEN /\ acc' = Append(acc, <<a_idx, b_idx>>)
               /\ k' = Wrap(k + 1)
               /\ pc' = "k.cond"
               /\ UNCHANGED <<call, i, m, n, out>>
          ELSE GoAstray

\* C[m,n] = acc, and the next column if next is 1.
StoreAndAdd(next) ==
    /\ pc = "k.end"
    /\ LET c_idx == Flat(m, N, n) IN
       IF c_idx \in DOMAIN out
       THEN /\ out' = [out EXCEPT ![c_idx] = acc]
            /\ n' = Wrap(n + next)
            /\ pc' = "n.cond"
            /\ UNCHANGED <<call, i, m, k, acc>>
       ELSE GoAstray

\* Mutant of KEnd: n.latch does not count.
KEndUncounted == StoreAndAdd(0)

KEnd == StoreAndAdd(1)

Ended == pc \in {"returned", "raised", "undefined"}
Terminated == Ended /\ UNCHANGED vars

Next ==
    \/ Reject \/ EnterElementwise \/ EnterMatmul
    \/ LoopCond \/ LoopBody
    \/ MCond \/ NCond \/ KCond \/ KBody \/ KEnd
    \/ Terminated

\* Native code runs on until it returns.
Spec == Init /\ [][Next]_vars /\ WF_vars(Next)
----------------------------------------------------------------------------
(***************************************************************************)
(* Properties.                                                             *)
(***************************************************************************)

\* Every element of the result is what numpy computes: element by element,
\* or the dot product of its row and column over all of the inner dimension.
Exact ==
    IF IsElementwise
    THEN \A index \in DOMAIN out : out[index] = <<index>>
    ELSE \A row \in 0..(call.x[1] - 1), col \in 0..(call.y[2] - 1) :
            out[row * call.y[2] + col]
                = [j \in 1..call.x[2] |->
                      <<row * call.x[2] + (j - 1), (j - 1) * call.y[2] + col>>]

\* Every extent the wrapper passes on keeps its value in a register.
SizesFit ==
    IF IsElementwise THEN Fits(SizeOf(call.x))
    ELSE \A dim \in {call.x[1], call.x[2], call.y[2]} : Fits(dim)

\* Every array can be indexed.
ArraysFit ==
    /\ SizesFit
    /\ ~ IsElementwise =>
          /\ Fits(call.x[1] * call.x[2])
          /\ Fits(call.y[1] * call.y[2])
          /\ Fits(call.x[1] * call.y[2])

\* Within the registers' width no access leaves an array.  And a call that
\* returns has computed every element exactly as soon as the extents alone
\* fit: with arrays too large to index it goes astray on the first index that
\* wraps and never returns a wrong result.  (Of an extent that does not fit
\* nothing is promised.)
FittingCallsAreExact ==
    /\ pc = "undefined" => ~ ArraysFit
    /\ pc = "returned" /\ SizesFit => Exact

\* The loops end for every extent, negative ones and 0 included.
KernelHalts == <>Ended
=============================================================================

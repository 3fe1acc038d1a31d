------------------------- MODULE LlvmKernelsProofs --------------------------
(***************************************************************************)
(* The generated loops compute what numpy does, in registers of any width  *)
(* and for arrays of any extents, as far as the extents fit.               *)
(***************************************************************************)
EXTENDS LlvmKernels, SequenceTheorems, TLAPS

\* The least number a register cannot hold.
Limit == 2^(Width - 1)

\* The pairs a dot product adds up, the first of them, up to its row's end.
Terms(row, col, upto) ==
    [j \in 1..upto |-> <<row * call.x[2] + (j - 1), (j - 1) * call.y[2] + col>>]

\* The result's element holds its dot product.
Computed(row, col) == out[row * call.y[2] + col] = Terms(row, col, call.x[2])

\* The basic blocks of the three loops of the product, the inner ones first.
InK == {"k.cond", "k.body", "k.end"}
InN == InK \cup {"n.cond"}
InM == InN \cup {"m.cond"}

\* An elementwise loop has written the elements it has passed.
ElementsWritten ==
    pc \in {"loop.cond", "loop.body", "returned"} =>
        /\ i \in 0..SizeOf(call.x)
        /\ DOMAIN out = 0..(SizeOf(call.x) - 1)
        /\ \A index \in 0..(i - 1) : out[index] = <<index>>
        /\ pc = "loop.body" => i < SizeOf(call.x)
        /\ pc = "returned" => i = SizeOf(call.x)

\* A product has stored the rows it has passed, and the columns of this one.
RowsStored ==
    pc \in InM \cup {"returned"} =>
        /\ DOMAIN out = 0..(call.x[1] * call.y[2] - 1)
        /\ m \in 0..call.x[1]
        /\ \A row \in 0..(m - 1), col \in 0..(call.y[2] - 1) : Computed(row, col)
        /\ pc \in InN =>
              /\ m < call.x[1] /\ n \in 0..call.y[2]
              /\ \A col \in 0..(n - 1) : Computed(m, col)
        /\ pc \in InK =>
              /\ n < call.y[2] /\ k \in 0..call.x[2]
              /\ acc = Terms(m, n, k)
        /\ pc = "k.body" => k < call.x[2]
        /\ pc = "k.end" => k = call.x[2]
        /\ pc = "returned" => m = call.x[1]

\* No index has wrapped yet: what has been read and written lies below the
\* limit, so the next of each kind of index reaches at most the limit itself.
IndicesExact ==
    LET MM == call.x[1]
        KK == call.x[2]
        NN == call.y[2]
    IN /\ pc \in InM =>
             /\ m * NN <= Limit
             /\ KK > 0 /\ NN > 0 => m * KK <= Limit
             /\ KK > 0 /\ NN > 0 /\ m > 0 => KK * NN <= Limit
       /\ pc \in InN =>
             /\ m * NN + n <= Limit
             /\ KK > 0 /\ n > 0 => (m + 1) * KK <= Limit /\ (KK - 1) * NN + n <= Limit
       /\ pc \in InK /\ k > 0 =>
             m * KK + k <= Limit /\ (k - 1) * NN + n < Limit

\* The invariant of the running kernel.
KInv ==
    /\ call \in Calls
    /\ pc = "called" => i = 0 /\ m = 0
    /\ pc \notin {"called", "raised"} => Accepted
    /\ pc \in {"loop.cond", "loop.body"} => IsElementwise
    /\ pc \in InM => ~ IsElementwise
    /\ pc = "undefined" => ~ ArraysFit
    /\ Accepted /\ SizesFit => IF IsElementwise THEN ElementsWritten ELSE RowsStored /\ IndicesExact
----------------------------------------------------------------------------
\* Every index of a matrix is that of one row and one column.
LEMMA IndexUnique ==
    ASSUME NEW cols \in Nat \ {0}, NEW q \in Int, NEW p \in Int,
           NEW r \in 0..(cols - 1), NEW t \in 0..(cols - 1), q * cols + r = p * cols + t
    PROVE  q = p /\ r = t
<1>1. q * cols \in Int /\ p * cols \in Int
  OBVIOUS
<1>2. ASSUME q < p PROVE FALSE
  <2>1. (q + 1) * cols <= p * cols /\ (q + 1) * cols = q * cols + cols
    BY <1>2
  <2> QED  BY <1>1, <2>1
<1>3. ASSUME p < q PROVE FALSE
  <2>1. (p + 1) * cols <= q * cols /\ (p + 1) * cols = p * cols + cols
    BY <1>3
  <2> QED  BY <1>1, <2>1
<1> QED  BY <1>1, <1>2, <1>3

\* How a row's first index grows: by a row's length, and never beyond the end.
LEMMA RowsInOrder ==
    ASSUME NEW cols \in Nat, NEW row \in Nat
    PROVE  /\ row * cols \in Nat
           /\ (row + 1) * cols = row * cols + cols
           /\ \A rows \in Nat : row < rows => row * cols + cols <= rows * cols
<1>1. row * cols \in Nat /\ (row + 1) * cols = row * cols + cols
  OBVIOUS
<1>2. ASSUME NEW rows \in Nat, row < rows PROVE row * cols + cols <= rows * cols
  <2>1. (row + 1) * cols <= rows * cols
    <3>1. rows - (row + 1) \in Nat
      BY <1>2
    <3>2. (rows - (row + 1)) * cols \in Nat
      BY <3>1
    <3>3. (rows - (row + 1)) * cols = rows * cols - (row + 1) * cols
      OBVIOUS
    <3>4. rows * cols \in Int /\ (row + 1) * cols \in Int
      OBVIOUS
    <3> QED  BY <3>2, <3>3, <3>4
  <2> QED  BY <1>1, <2>1
<1> QED  BY <1>1, <1>2

\* What a register holds of a number that is up to twice too large, or that
\* it holds already.
LEMMA WrapProperties ==
    ASSUME NEW x \in Int, - Limit <= x, x < 2 * Limit
    PROVE  Wrap(x) = IF x < Limit THEN x ELSE x - 2 * Limit
<1> DEFINE w == 2^Width
<1>1. Limit \in Nat \ {0} /\ w = 2 * Limit /\ w \in Nat \ {0}
  BY WidthAssumption DEF Limit
<1> HIDE DEF w
<1>2. /\ x % w \in 0..(w - 1) /\ x \div w \in Int
      /\ (x \div w) * w + (x % w) = x
  <2>1. x % w \in 0..(w - 1)
    BY <1>1
  <2>2. x \div w \in Int
    BY <1>1
  <2>3. x = w * (x \div w) + (x % w)
    BY <1>1
  <2> QED  BY <1>1, <2>1, <2>2, <2>3
<1>3. CASE x >= 0
  <2>1. x \in 0..(w - 1) /\ 0 * w + x = x /\ 0 \in Int
    BY <1>1, <1>3
  <2>2. x % w = x
    BY <1>1, <1>2, <2>1, IndexUnique
  <2>3. (IF x % w >= Limit THEN (x % w) - w ELSE x % w) = IF x < Limit THEN x ELSE x - 2 * Limit
    BY <1>1, <2>2
  <2> QED  BY <2>3 DEF Wrap, Limit, w
<1>4. CASE x < 0
  <2>1. x + w \in 0..(w - 1) /\ (-1) * w + (x + w) = x /\ -1 \in Int
    BY <1>1, <1>4
  <2>2. x % w = x + w
    BY <1>1, <1>2, <2>1, IndexUnique
  <2>3. (IF x % w >= Limit THEN (x % w) - w ELSE x % w) = IF x < Limit THEN x ELSE x - 2 * Limit
    BY <1>1, <1>4, <2>2
  <2> QED  BY <2>3 DEF Wrap, Limit, w
<1> QED  BY <1>3, <1>4

\* A flat index less than twice the limit is exact below it, and negative from
\* there on, whichever of its two operations wraps.
LEMMA FlatProperties ==
    ASSUME NEW row \in Nat, NEW stride \in Nat, NEW col \in Nat, col < Limit,
           row * stride + col < 2 * Limit
    PROVE  LET index == row * stride + col IN
           /\ index \in Nat
           /\ Flat(row, stride, col) = IF index < Limit THEN index ELSE index - 2 * Limit
<1> DEFINE p == row * stride
<1>1. Limit \in Nat \ {0} /\ p \in Nat
  BY WidthAssumption DEF Limit
<1>2. p + col < 2 * Limit
  OBVIOUS
<1> HIDE DEF p
<1>3. Wrap(p) = IF p < Limit THEN p ELSE p - 2 * Limit
  BY <1>1, <1>2, WrapProperties
<1>4. Wrap(Wrap(p) + col) = IF p + col < Limit THEN p + col ELSE p + col - 2 * Limit
  <2>1. CASE p < Limit
    BY <1>1, <1>2, <1>3, <2>1, WrapProperties
  <2>2. CASE p >= Limit
    <3>1. Wrap(p) + col = p + col - 2 * Limit
      BY <1>1, <1>3, <2>2
    <3>2. /\ p + col - 2 * Limit \in Int /\ - Limit <= p + col - 2 * Limit
          /\ p + col - 2 * Limit < 0 /\ p + col - 2 * Limit < 2 * Limit
      BY <1>1, <1>2, <2>2
    <3>3. Wrap(p + col - 2 * Limit) = p + col - 2 * Limit
      BY <1>1, <3>2, WrapProperties
    <3> QED  BY <1>1, <2>2, <3>1, <3>3
  <2> QED  BY <1>1, <2>1, <2>2
<1> QED  BY <1>1, <1>4 DEF Flat, p
----------------------------------------------------------------------------
\* The arrays of a product.
LEMMA MatmulCall ==
    ASSUME call \in Calls, Accepted, ~ IsElementwise
    PROVE  /\ call.x[1] \in Nat /\ call.x[2] \in Nat /\ call.y[2] \in Nat
           /\ call.y[1] = call.x[2]
<1>1. /\ call.x \in Seq(Nat) /\ call.y \in Seq(Nat)
      /\ Len(call.x) = 2 /\ Len(call.y) = 2 /\ call.x[2] = call.y[1]
  BY CallsAssumption DEF Accepted
<1> QED  BY <1>1, ElementOfSeq

\* Extents that fit reach the native code as they are.
LEMMA MatmulRegisters ==
    ASSUME call \in Calls, Accepted, ~ IsElementwise, SizesFit
    PROVE  /\ M = call.x[1] /\ N = call.y[2] /\ K = call.x[2]
           /\ call.x[1] < Limit /\ call.x[2] < Limit /\ call.y[2] < Limit
           /\ Limit \in Nat \ {0}
<1>1. Limit \in Nat \ {0}
  BY WidthAssumption DEF Limit
<1>2. ASSUME NEW dim \in {call.x[1], call.x[2], call.y[2]}
      PROVE  dim < Limit /\ Wrap(dim) = dim
  <2>1. dim \in Nat
    BY MatmulCall
  <2>2. dim < Limit
    BY DEF SizesFit, Fits, Limit
  <2> QED  BY <1>1, <2>1, <2>2, WrapProperties
<1> QED  BY <1>1, <1>2 DEF M, N, K

\* So does an element count.
LEMMA ElementwiseRegister ==
    ASSUME call \in Calls, IsElementwise, SizesFit
    PROVE  /\ SizeOf(call.x) \in Nat /\ Size = SizeOf(call.x) /\ SizeOf(call.x) < Limit
           /\ Limit \in Nat \ {0}
<1> DEFINE size == SizeOf(call.x)
<1>1. Limit \in Nat \ {0} /\ size \in Nat
  BY WidthAssumption, CallsAssumption DEF Limit
<1>2. size < Limit
  BY DEF SizesFit, Fits, Limit
<1>3. Size = Wrap(size)
  BY DEF Size
<1> HIDE DEF size
<1>4. Wrap(size) = size
  BY <1>1, <1>2, WrapProperties
<1>5. size \in Nat /\ Size = size /\ size < Limit
  BY <1>1, <1>2, <1>3, <1>4
<1> QED  BY <1>1, <1>5 DEF size

\* A register that counts up to an extent never wraps.
LEMMA CountsUp ==
    ASSUME NEW x \in Nat, x < Limit
    PROVE  Wrap(x + 1) = IF x + 1 < Limit THEN x + 1 ELSE - Limit
<1>1. Limit \in Nat \ {0}
  BY WidthAssumption DEF Limit
<1> QED  BY <1>1, WrapProperties

\* No step changes the call, nor what is asked of it.
LEMMA SameCall ==
    ASSUME call' = call
    PROVE  /\ Accepted' <=> Accepted
           /\ IsElementwise' <=> IsElementwise
           /\ SizesFit' <=> SizesFit
           /\ ArraysFit' <=> ArraysFit
BY DEF Accepted, IsElementwise, SizesFit, ArraysFit
----------------------------------------------------------------------------
\* The wrappers.
LEMMA InitKeeps == Init => KInv
BY DEF Init, KInv, InM, InN, InK, ElementsWritten, RowsStored, IndicesExact

LEMMA RejectKeeps == ASSUME KInv, Reject PROVE KInv'
<1>1. call' = call /\ pc' = "raised"
  BY DEF Reject
<1> QED  BY <1>1, SameCall DEF KInv, InM, InN, InK, ElementsWritten, RowsStored, IndicesExact

LEMMA EnterElementwiseKeeps == ASSUME KInv, EnterElementwise PROVE KInv'
<1>1. /\ call' = call /\ pc' = "loop.cond" /\ i' = 0 /\ IsElementwise /\ Accepted
      /\ out' = [index \in 0..(SizeOf(call.x) - 1) |-> Uninitialised]
  BY DEF EnterElementwise, Enter, KInv
<1>2. ASSUME SizesFit PROVE ElementsWritten'
  <2>1. SizeOf(call.x) \in Nat
    BY <1>1, <1>2, ElementwiseRegister DEF KInv
  <2> QED  BY <1>1, <2>1 DEF ElementsWritten
<1> QED  BY <1>1, <1>2, SameCall DEF KInv, InM, InN, InK

LEMMA EnterMatmulKeeps == ASSUME KInv, EnterMatmul PROVE KInv'
<1>1. /\ call' = call /\ pc' = "m.cond" /\ m' = 0 /\ ~ IsElementwise /\ Accepted
      /\ out' = [index \in 0..(call.x[1] * call.y[2] - 1) |-> <<>>]
  BY DEF EnterMatmul, Enter, KInv
<1>2. /\ call.x[1] \in Nat /\ call.x[2] \in Nat /\ call.y[2] \in Nat
      /\ Limit \in Nat \ {0}
  BY <1>1, MatmulCall, WidthAssumption DEF KInv, Limit
<1>3. RowsStored'
  BY <1>1, <1>2 DEF RowsStored, InN, InM, InK
<1>4. IndicesExact'
  <2>1. 0 * call.y[2] = 0 /\ 0 * call.x[2] = 0 /\ Limit >= 0
    BY <1>2
  <2>2. Limit' = Limit
    BY DEF Limit
  <2> QED  BY <1>1, <2>1, <2>2 DEF IndicesExact, InN, InM, InK
<1> QED  BY <1>1, <1>3, <1>4, SameCall DEF KInv, InM, InN, InK
----------------------------------------------------------------------------
\* The elementwise loop.
LEMMA LoopCondKeeps == ASSUME KInv, LoopCond PROVE KInv'
<1>1. /\ call' = call /\ i' = i /\ out' = out /\ IsElementwise /\ Accepted
      /\ pc = "loop.cond" /\ pc' = IF i < Size THEN "loop.body" ELSE "returned"
  BY DEF LoopCond, KInv
<1>2. ASSUME SizesFit PROVE ElementsWritten'
  BY <1>1, <1>2, ElementwiseRegister DEF KInv, ElementsWritten
<1> QED  BY <1>1, <1>2, SameCall DEF KInv, InM, InN, InK

LEMMA LoopBodyKeeps == ASSUME KInv, LoopBody PROVE KInv'
<1>1. call' = call /\ pc = "loop.body" /\ IsElementwise /\ Accepted /\ call \in Calls
  BY DEF LoopBody, GoAstray, KInv
<1>2. CASE Inside(i, SizeOf(call.x))
  <2>1. out' = [out EXCEPT ![i] = <<i>>] /\ i' = Wrap(i + 1) /\ pc' = "loop.cond"
    BY <1>2 DEF LoopBody
  <2>2. ASSUME SizesFit PROVE ElementsWritten'
    <3> DEFINE size == SizeOf(call.x)
    <3>1. size \in Nat /\ size < Limit /\ Limit \in Nat
      BY <1>1, <2>2, ElementwiseRegister
    <3>2. /\ i \in 0..size /\ i < size /\ DOMAIN out = 0..(size - 1)
          /\ \A index \in 0..(i - 1) : out[index] = <<index>>
      BY <1>1, <2>2 DEF KInv, ElementsWritten
    <3>3. size' = size
      BY <1>1
    <3> HIDE DEF size
    <3>4. i' = i + 1 /\ i \in Nat
      BY <2>1, <3>1, <3>2, CountsUp
    <3>5. /\ i' \in 0..size /\ DOMAIN out' = 0..(size - 1)
          /\ \A index \in 0..(i' - 1) : out'[index] = <<index>>
      BY <2>1, <3>1, <3>2, <3>4
    <3> QED  BY <2>1, <3>3, <3>5 DEF ElementsWritten, size
  <2> QED  BY <1>1, <2>1, <2>2, SameCall DEF KInv, InM, InN, InK
<1>3. CASE ~ Inside(i, SizeOf(call.x))
  <2>1. pc' = "undefined"
    BY <1>3 DEF LoopBody, GoAstray
  <2>2. ~ SizesFit
    <3> SUFFICES ASSUME SizesFit PROVE FALSE
      OBVIOUS
    <3>1. SizeOf(call.x) \in Nat
      BY <1>1, ElementwiseRegister
    <3>2. i \in 0..SizeOf(call.x) /\ i < SizeOf(call.x)
      BY <1>1 DEF KInv, ElementsWritten
    <3> QED  BY <1>3, <3>1, <3>2 DEF Inside
  <2> QED  BY <1>1, <2>1, <2>2, SameCall DEF KInv, InM, InN, InK, ArraysFit
<1> QED  BY <1>2, <1>3
----------------------------------------------------------------------------
\* The loops of the product: what their invariant says, in numbers.
LEMMA ProductProperties ==
    ASSUME KInv, SizesFit, pc \in InM
    PROVE  /\ ~ IsElementwise /\ Accepted /\ call \in Calls /\ RowsStored /\ IndicesExact
           /\ call.x[1] \in Nat /\ call.x[2] \in Nat /\ call.y[2] \in Nat
           /\ call.x[1] < Limit /\ call.x[2] < Limit /\ call.y[2] < Limit
           /\ M = call.x[1] /\ N = call.y[2] /\ K = call.x[2]
           /\ Limit \in Nat \ {0} /\ Limit' = Limit
           /\ m \in Nat
<1>1. ~ IsElementwise /\ Accepted /\ call \in Calls /\ RowsStored /\ IndicesExact
  BY DEF KInv, InM, InN, InK
<1>2. call.x[1] \in Nat /\ call.x[2] \in Nat /\ call.y[2] \in Nat
  BY <1>1, MatmulCall
<1>3. m \in Nat
  BY <1>1, <1>2 DEF RowsStored
<1> QED  BY <1>1, <1>2, <1>3, MatmulRegisters DEF Limit

LEMMA MCondKeeps == ASSUME KInv, MCond PROVE KInv'
<1>1. /\ call' = call /\ m' = m /\ k' = k /\ out' = out /\ acc' = acc
      /\ pc = "m.cond" /\ pc \in InM
      /\ IF m < M THEN pc' = "n.cond" /\ n' = 0 ELSE pc' = "returned"
  BY DEF MCond, InM
<1>2. ~ IsElementwise /\ Accepted /\ call \in Calls
  BY <1>1 DEF KInv, InM
<1>3. ASSUME SizesFit PROVE RowsStored' /\ IndicesExact'
  <2>1. RowsStored'
    BY <1>1, <1>3, ProductProperties, SMTT(30) DEF RowsStored, Computed, Terms, InM, InN, InK
  <2>2. m * call.y[2] \in Nat
    BY <1>1, <1>3, ProductProperties
  <2>3. IndicesExact'
    BY <1>1, <1>3, <2>2, ProductProperties DEF IndicesExact, InM, InN, InK
  <2> QED  BY <2>1, <2>3
<1> QED  BY <1>1, <1>2, <1>3, SameCall DEF KInv, InM, InN, InK

LEMMA KCondKeeps == ASSUME KInv, KCond PROVE KInv'
<1>1. /\ call' = call /\ m' = m /\ n' = n /\ k' = k /\ out' = out /\ acc' = acc
      /\ pc = "k.cond" /\ pc \in InM
      /\ pc' = IF k < K THEN "k.body" ELSE "k.end"
  BY DEF KCond, InM, InN, InK
<1>2. ~ IsElementwise /\ Accepted /\ call \in Calls
  BY <1>1 DEF KInv, InM, InN, InK
<1>3. ASSUME SizesFit PROVE RowsStored' /\ IndicesExact'
  <2>1. RowsStored'
    BY <1>1, <1>3, ProductProperties, SMTT(30) DEF RowsStored, Computed, Terms, InM, InN, InK
  <2>2. IndicesExact'
    BY <1>1, <1>3, ProductProperties DEF IndicesExact, InM, InN, InK
  <2> QED  BY <2>1, <2>2
<1> QED  BY <1>1, <1>2, <1>3, SameCall DEF KInv, InM, InN, InK

LEMMA NCondKeeps == ASSUME KInv, NCond PROVE KInv'
<1> DEFINE KK == call.x[2]
           NN == call.y[2]
<1>1. call' = call /\ out' = out /\ n' = n /\ pc = "n.cond" /\ pc \in InM
  BY DEF NCond, InM, InN
<1>2. ~ IsElementwise /\ Accepted /\ call \in Calls
  BY <1>1 DEF KInv, InM, InN
<1>3. ASSUME SizesFit, n < N PROVE pc' \in InM /\ RowsStored' /\ IndicesExact'
  <2>1. m' = m /\ k' = 0 /\ acc' = <<>> /\ pc' = "k.cond"
    BY <1>3 DEF NCond
  <2>2. Terms(m, n, 0) = <<>>
    BY DEF Terms
  <2>3. RowsStored'
    BY <1>1, <1>3, <2>1, <2>2, ProductProperties
    DEF RowsStored, Computed, Terms, InM, InN, InK
  <2>4. IndicesExact'
    BY <1>1, <1>3, <2>1, ProductProperties DEF IndicesExact, InM, InN, InK
  <2> QED  BY <2>1, <2>3, <2>4 DEF InM, InN, InK
<1>4. ASSUME SizesFit, ~ n < N PROVE RowsStored' /\ IndicesExact'
  <2>1. m' = Wrap(m + 1) /\ k' = k /\ acc' = acc /\ pc' = "m.cond"
    BY <1>4 DEF NCond
  <2>2. /\ m < call.x[1] /\ n = NN
        /\ \A row \in 0..(m - 1), col \in 0..(NN - 1) : Computed(row, col)
        /\ \A col \in 0..(n - 1) : Computed(m, col)
        /\ DOMAIN out = 0..(call.x[1] * call.y[2] - 1)
    <3>1. RowsStored /\ N = NN /\ NN \in Nat
      BY <1>1, <1>4, ProductProperties
    <3>2. /\ m < call.x[1] /\ n \in 0..NN
          /\ \A row \in 0..(m - 1), col \in 0..(NN - 1) : Computed(row, col)
          /\ \A col \in 0..(n - 1) : Computed(m, col)
          /\ DOMAIN out = 0..(call.x[1] * call.y[2] - 1)
      BY <1>1, <3>1 DEF RowsStored, InM, InN
    <3>3. n = NN
      BY <1>4, <3>1, <3>2
    <3> QED  BY <3>2, <3>3
  <2>3. /\ m' = m + 1 /\ m' \in 0..call.x[1] /\ m \in Nat /\ KK \in Nat /\ NN \in Nat
        /\ Limit \in Nat /\ Limit' = Limit
    <3>1. /\ m \in Nat /\ KK \in Nat /\ NN \in Nat /\ call.x[1] \in Nat
          /\ call.x[1] < Limit /\ Limit \in Nat /\ Limit' = Limit
      BY <1>1, <1>4, ProductProperties
    <3>2. m < Limit /\ m + 1 < Limit
      BY <2>2, <3>1
    <3>3. Wrap(m + 1) = m + 1
      BY <3>1, <3>2, CountsUp
    <3> QED  BY <2>1, <2>2, <3>1, <3>3
  <2>4. \A row \in 0..(m' - 1), col \in 0..(NN - 1) : Computed(row, col)
    BY <2>2, <2>3
  <2>5. RowsStored'
    BY <1>1, <2>1, <2>2, <2>3, <2>4 DEF RowsStored, Computed, Terms, InM, InN, InK
  <2>6. /\ m * NN + n <= Limit
        /\ KK > 0 /\ n > 0 => (m + 1) * KK <= Limit /\ (KK - 1) * NN + n <= Limit
    BY <1>1, <1>4, ProductProperties DEF IndicesExact, InM, InN
  <2>7. (m + 1) * NN = m * NN + NN /\ (KK - 1) * NN = KK * NN - NN
    BY <2>3
  <2>8. m * NN \in Int /\ KK * NN \in Int /\ (m + 1) * KK \in Int
    BY <2>3
  <2>9. /\ m' * NN <= Limit
        /\ KK > 0 /\ NN > 0 => m' * KK <= Limit /\ KK * NN <= Limit
    BY <2>2, <2>3, <2>6, <2>7, <2>8
  <2> QED  BY <1>1, <2>1, <2>3, <2>5, <2>9 DEF IndicesExact, InM, InN, InK
<1>5. pc' \in {"k.cond", "m.cond"}
  BY DEF NCond
<1> QED  BY <1>1, <1>2, <1>3, <1>4, <1>5, SameCall DEF KInv, InM, InN, InK

\* The three flat indices are as far as they have come below twice the limit.
LEMMA FactorIndices ==
    ASSUME KInv, SizesFit, pc = "k.body"
    PROVE  /\ m * call.x[2] + k \in Nat /\ k * call.y[2] + n \in Nat
           /\ k \in Nat /\ n \in Nat /\ k < call.x[2] /\ n < call.y[2]
           /\ Flat(m, K, k) = IF m * call.x[2] + k < Limit THEN m * call.x[2] + k
                              ELSE m * call.x[2] + k - 2 * Limit
           /\ Flat(k, N, n) = IF k * call.y[2] + n < Limit THEN k * call.y[2] + n
                              ELSE k * call.y[2] + n - 2 * Limit
           /\ m * call.x[2] + k <= Limit /\ k * call.y[2] + n < 2 * Limit
<1> DEFINE KK == call.x[2]
           NN == call.y[2]
<1>1. pc \in InM /\ pc \in InN /\ pc \in InK
  BY DEF InM, InN, InK
<1>2. /\ KK \in Nat /\ NN \in Nat /\ KK < Limit /\ NN < Limit /\ K = KK /\ N = NN
      /\ Limit \in Nat \ {0} /\ m \in Nat
  BY <1>1, ProductProperties
<1>3. k \in Nat /\ k < KK /\ n \in Nat /\ n < NN
  BY <1>1, <1>2, ProductProperties DEF RowsStored
<1>4. /\ m * KK <= Limit
      /\ k > 0 => m * KK + k <= Limit /\ (k - 1) * NN + n < Limit
  BY <1>1, <1>2, <1>3, ProductProperties DEF IndicesExact
<1>5. m * KK \in Nat /\ k * NN \in Nat /\ (k - 1) * NN = k * NN - NN
  BY <1>2, <1>3
<1> HIDE DEF KK, NN
<1>6. m * KK + k <= Limit
  BY <1>2, <1>3, <1>4, <1>5
<1>7. k * NN + n < 2 * Limit
  <2>1. CASE k = 0
    <3>1. k * NN = 0
      BY <1>2, <2>1
    <3> QED  BY <1>2, <1>3, <3>1
  <2>2. CASE k > 0
    BY <1>2, <1>3, <1>4, <1>5, <2>2
  <2> QED  BY <1>3, <2>1, <2>2
<1>8. m * KK + k < 2 * Limit /\ k < Limit /\ n < Limit
  BY <1>2, <1>3, <1>5, <1>6
<1>9. /\ Flat(m, K, k) = IF m * KK + k < Limit THEN m * KK + k ELSE m * KK + k - 2 * Limit
      /\ Flat(k, N, n) = IF k * NN + n < Limit THEN k * NN + n ELSE k * NN + n - 2 * Limit
  BY <1>2, <1>3, <1>7, <1>8, FlatProperties
<1>10. m * KK + k \in Nat /\ k * NN + n \in Nat
  BY <1>3, <1>5
<1> QED  BY <1>3, <1>6, <1>7, <1>9, <1>10 DEF KK, NN

\* The next pair of a dot product.
LEMMA TermsGrow ==
    ASSUME NEW row, NEW col, NEW upto \in Nat
    PROVE  Append(Terms(row, col, upto), <<row * call.x[2] + upto, upto * call.y[2] + col>>)
              = Terms(row, col, upto + 1)
<1> DEFINE term(j) == <<row * call.x[2] + (j - 1), (j - 1) * call.y[2] + col>>
<1>1. /\ Terms(row, col, upto) = [j \in 1..upto |-> term(j)]
      /\ Terms(row, col, upto + 1) = [j \in 1..(upto + 1) |-> term(j)]
  BY DEF Terms
<1>2. term(upto + 1) = <<row * call.x[2] + upto, upto * call.y[2] + col>>
  <2>1. (upto + 1) - 1 = upto
    OBVIOUS
  <2> QED  BY <2>1
<1> HIDE DEF term
<1>3. [j \in 1..upto |-> term(j)] \in Seq({term(j) : j \in 1..(upto + 1)})
  OBVIOUS
<1>4. Len([j \in 1..upto |-> term(j)]) = upto
  BY <1>3
<1>5. Append([j \in 1..upto |-> term(j)], term(upto + 1)) = [j \in 1..(upto + 1) |-> term(j)]
  BY <1>3, <1>4
<1> QED  BY <1>1, <1>2, <1>5

LEMMA KBodyKeeps == ASSUME KInv, KBody PROVE KInv'
<1> DEFINE KK == call.x[2]
           NN == call.y[2]
           a_idx == Flat(m, K, k)
           b_idx == Flat(k, N, n)
           inside == Inside(a_idx, call.x[1] * call.x[2]) /\ Inside(b_idx, call.y[1] * call.y[2])
<1>1. call' = call /\ pc = "k.body" /\ pc \in InM /\ pc \in InN /\ pc \in InK
  BY DEF KBody, GoAstray, InM, InN, InK
<1>2. ~ IsElementwise /\ Accepted /\ call \in Calls
  BY <1>1 DEF KInv
<1>3. CASE inside
  <2>1. /\ acc' = Append(acc, <<a_idx, b_idx>>) /\ k' = Wrap(k + 1) /\ pc' = "k.cond"
        /\ m' = m /\ n' = n /\ out' = out
    BY <1>3 DEF KBody
  <2>2. ASSUME SizesFit PROVE RowsStored' /\ IndicesExact'
    <3>1. /\ KK \in Nat /\ NN \in Nat /\ KK < Limit /\ Limit \in Nat \ {0} /\ Limit' = Limit
          /\ m \in Nat /\ k \in Nat /\ n \in Nat /\ k < KK /\ n < NN
      BY <1>1, <2>2, ProductProperties, FactorIndices
    <3>2. /\ a_idx = m * KK + k /\ m * KK + k < Limit
          /\ b_idx = k * NN + n /\ k * NN + n < Limit
          /\ m * KK + k \in Nat /\ k * NN + n \in Nat
      <4>1. 0 <= a_idx /\ 0 <= b_idx
        BY <1>3 DEF Inside
      <4> DEFINE x == m * KK
                 y == k * NN
      <4>2. /\ a_idx = IF x + k < Limit THEN x + k ELSE x + k - 2 * Limit
            /\ b_idx = IF y + n < Limit THEN y + n ELSE y + n - 2 * Limit
        BY <1>1, <2>2, FactorIndices
      <4>3. x + k \in Nat /\ y + n \in Nat /\ x + k <= Limit /\ y + n < 2 * Limit
        BY <1>1, <2>2, FactorIndices
      <4>4. x \in Nat /\ y \in Nat
        BY <3>1
      <4> HIDE DEF x, y, a_idx, b_idx
      <4>5. x + k < Limit /\ y + n < Limit /\ a_idx = x + k /\ b_idx = y + n
        BY <3>1, <4>1, <4>2, <4>3, <4>4
      <4> QED  BY <4>3, <4>5 DEF x, y
    <3>3. k' = k + 1
      <4>1. k < Limit /\ k + 1 < Limit
        BY <3>1
      <4> QED  BY <2>1, <3>1, <4>1, CountsUp
    <3>4. acc' = Terms(m, n, k + 1)
      <4>1. acc = Terms(m, n, k)
        BY <1>1, <2>2, ProductProperties DEF RowsStored
      <4>2. acc' = Append(Terms(m, n, k), <<m * KK + k, k * NN + n>>)
        BY <2>1, <3>2, <4>1
      <4> QED  BY <3>1, <4>2, TermsGrow
    <3>5. RowsStored'
      <4>1. k' \in 0..KK
        BY <3>1, <3>3
      <4>2. RowsStored
        BY <1>1, <2>2, ProductProperties
      <4>3. acc' = Terms(m, n, k)'
        BY <1>1, <2>1, <3>3, <3>4 DEF Terms
      <4>4. \A row, col : Computed(row, col)' = Computed(row, col)
        BY <1>1, <2>1 DEF Computed, Terms
      <4> QED  BY <1>1, <2>1, <4>1, <4>2, <4>3, <4>4 DEF RowsStored, InM, InN, InK
    <3>6. m * KK + (k + 1) <= Limit /\ ((k + 1) - 1) * NN + n < Limit
      <4>1. m * KK \in Nat /\ (k + 1) - 1 = k
        BY <3>1
      <4>2. m * KK + (k + 1) <= Limit
        BY <3>1, <3>2, <4>1
      <4> QED  BY <3>2, <4>1, <4>2
    <3>7. IndicesExact
      BY <1>1, <2>2, ProductProperties
    <3>8. IndicesExact'
      BY <1>1, <2>1, <3>1, <3>3, <3>6, <3>7 DEF IndicesExact, InM, InN, InK
    <3> QED  BY <3>5, <3>8
  <2> QED  BY <1>1, <1>2, <2>1, <2>2, SameCall DEF KInv, InM, InN, InK
<1>4. CASE ~ inside
  <2>1. pc' = "undefined"
    BY <1>4 DEF KBody, GoAstray
  <2>2. ~ ArraysFit
    <3> SUFFICES ASSUME ArraysFit PROVE FALSE
      OBVIOUS
    <3>1. SizesFit /\ call.x[1] * KK < Limit /\ call.y[1] * NN < Limit
      BY <1>2 DEF ArraysFit, Fits, Limit
    <3>2. /\ call.x[1] \in Nat /\ KK \in Nat /\ NN \in Nat /\ Limit \in Nat
          /\ m \in Nat /\ k \in Nat /\ n \in Nat /\ k < KK /\ n < NN /\ m < call.x[1]
      <4>1. /\ call.x[1] \in Nat /\ KK \in Nat /\ NN \in Nat /\ Limit \in Nat
            /\ m \in Nat /\ RowsStored
        BY <1>1, <3>1, ProductProperties
      <4>2. m < call.x[1]
        BY <1>1, <4>1 DEF RowsStored
      <4>3. k \in Nat /\ n \in Nat /\ k < KK /\ n < NN
        BY <1>1, <3>1, FactorIndices
      <4> QED  BY <4>1, <4>2, <4>3
    <3>3. call.y[1] = KK
      BY <1>2, MatmulCall
    <3> DEFINE x == m * KK
               y == k * NN
               ax == call.x[1] * KK
               by == KK * NN
    <3>4. x \in Nat /\ y \in Nat /\ x + KK <= ax /\ y + NN <= by
      BY <3>2, RowsInOrder
    <3>5. ax \in Nat /\ by \in Nat /\ ax < Limit /\ by < Limit
      BY <3>1, <3>2, <3>3
    <3>6. /\ a_idx = IF x + k < Limit THEN x + k ELSE x + k - 2 * Limit
          /\ b_idx = IF y + n < Limit THEN y + n ELSE y + n - 2 * Limit
      BY <1>1, <3>1, FactorIndices
    <3> HIDE DEF x, y, ax, by, a_idx, b_idx
    <3>7. 0 <= a_idx /\ a_idx < ax /\ 0 <= b_idx /\ b_idx < by
      BY <3>2, <3>4, <3>5, <3>6
    <3> QED  BY <1>4, <3>3, <3>7 DEF Inside, ax, by
  <2> QED  BY <1>1, <1>2, <2>1, <2>2, SameCall DEF KInv, InM, InN, InK, RowsStored, IndicesExact
<1> QED  BY <1>3, <1>4

LEMMA KEndKeeps == ASSUME KInv, KEnd PROVE KInv'
<1> DEFINE KK == call.x[2]
           NN == call.y[2]
           rows == call.x[1]
           c_idx == Flat(m, N, n)
<1>1. call' = call /\ pc = "k.end" /\ pc \in InM /\ pc \in InN /\ pc \in InK
  BY DEF KEnd, StoreAndAdd, GoAstray, InM, InN, InK
<1>2. ~ IsElementwise /\ Accepted /\ call \in Calls
  BY <1>1 DEF KInv
<1>3. ASSUME SizesFit
      PROVE  /\ rows \in Nat /\ KK \in Nat /\ NN \in Nat /\ NN < Limit
             /\ Limit \in Nat \ {0} /\ Limit' = Limit
             /\ m \in Nat /\ m < rows /\ n \in Nat /\ n < NN /\ k = KK
             /\ RowsStored /\ IndicesExact
  <2>1. /\ rows \in Nat /\ KK \in Nat /\ NN \in Nat /\ NN < Limit
        /\ Limit \in Nat \ {0} /\ Limit' = Limit
        /\ m \in Nat /\ RowsStored /\ IndicesExact
    BY <1>1, <1>3, ProductProperties
  <2>2. m < rows /\ n \in 0..NN /\ n < NN /\ k = KK
    BY <1>1, <2>1 DEF RowsStored
  <2> QED  BY <2>1, <2>2
<1>4. ASSUME SizesFit
      PROVE  /\ c_idx = IF m * NN + n < Limit THEN m * NN + n ELSE m * NN + n - 2 * Limit
             /\ m * NN \in Nat /\ m * NN + n <= Limit
  <2>1. m * NN \in Nat /\ m * NN + n <= Limit
    BY <1>1, <1>3, <1>4 DEF IndicesExact
  <2>2. m * NN + n < 2 * Limit /\ n < Limit
    BY <1>3, <1>4, <2>1
  <2>3. N = NN
    BY <1>1, <1>4, ProductProperties
  <2> QED  BY <1>3, <1>4, <2>1, <2>2, <2>3, FlatProperties
<1>5. CASE c_idx \in DOMAIN out
  <2>1. /\ out' = [out EXCEPT ![c_idx] = acc] /\ n' = Wrap(n + 1) /\ pc' = "n.cond"
        /\ m' = m /\ k' = k /\ acc' = acc
    BY <1>5 DEF KEnd, StoreAndAdd
  <2>2. ASSUME SizesFit PROVE RowsStored' /\ IndicesExact'
    <3>1. DOMAIN out = 0..(rows * NN - 1) /\ rows * NN \in Nat
      BY <1>1, <1>3, <2>2 DEF RowsStored
    <3>2. c_idx = m * NN + n /\ m * NN + n < Limit
      <4> DEFINE x == m * NN
                 size == rows * NN
      <4>1. /\ c_idx = IF x + n < Limit THEN x + n ELSE x + n - 2 * Limit
            /\ x \in Nat /\ x + n <= Limit
        BY <1>4, <2>2
      <4>2. c_idx \in 0..(size - 1) /\ size \in Nat
        BY <1>5, <3>1
      <4> HIDE DEF x, size, c_idx
      <4>3. c_idx = x + n /\ x + n < Limit
        BY <1>3, <2>2, <4>1, <4>2
      <4> QED  BY <4>3 DEF x
    <3>3. n' = n + 1
      <4>1. n < Limit /\ n + 1 < Limit
        BY <1>3, <2>2
      <4> QED  BY <1>3, <2>1, <2>2, <4>1, CountsUp
    <3>4. acc = Terms(m, n, KK)
      BY <1>1, <1>3, <2>2 DEF RowsStored
    <3>5. ASSUME NEW row \in 0..m, NEW col \in 0..(NN - 1), row # m \/ col # n,
                 row < m \/ col < n
          PROVE  row * NN + col # c_idx
      <4>1. NN \in Nat \ {0} /\ row \in Int /\ m \in Int /\ n \in 0..(NN - 1)
        BY <1>3, <2>2
      <4> QED  BY <3>2, <3>5, <4>1, IndexUnique
    <3>6. ASSUME NEW row \in 0..m, NEW col \in 0..(NN - 1), row # m \/ col # n,
                 row < m \/ col < n, Computed(row, col)
          PROVE  Computed(row, col)'
      <4>1. out'[row * NN + col] = out[row * NN + col]
        <5>1. row * NN + col # c_idx
          BY <3>5, <3>6
        <5>2. row * NN + col \in DOMAIN out
          <6>1. row \in Nat /\ row < rows /\ col \in Nat /\ col < NN
            BY <1>3, <2>2, <3>6
          <6> DEFINE x == row * NN
                     size == rows * NN
          <6>2. x \in Nat /\ x + NN <= size /\ size \in Nat
            BY <1>3, <2>2, <3>1, <6>1, RowsInOrder
          <6> HIDE DEF x, size
          <6>3. x + col \in 0..(size - 1)
            BY <1>3, <2>2, <6>1, <6>2
          <6> QED  BY <3>1, <6>3 DEF x, size
        <5> QED  BY <2>1, <5>1, <5>2
      <4> QED  BY <1>1, <3>6, <4>1 DEF Computed, Terms
    <3>7. ASSUME NEW row, NEW col, row = m, col = n
          PROVE  Computed(row, col)'
      <4>1. out'[m * NN + n] = acc
        BY <1>5, <2>1, <3>2
      <4> QED  BY <1>1, <3>4, <3>7, <4>1 DEF Computed, Terms
    <3>8. /\ \A row \in 0..(m - 1), col \in 0..(NN - 1) : Computed(row, col)
          /\ \A col \in 0..(n - 1) : Computed(m, col)
      BY <1>1, <1>3, <2>2 DEF RowsStored
    <3>9. \A row \in 0..(m - 1), col \in 0..(NN - 1) : Computed(row, col)'
      <4> SUFFICES ASSUME NEW row \in 0..(m - 1), NEW col \in 0..(NN - 1)
                   PROVE  Computed(row, col)'
        OBVIOUS
      <4>1. row \in 0..m /\ row # m /\ row < m
        BY <1>3, <2>2
      <4>2. Computed(row, col)
        BY <3>8
      <4> QED  BY <3>6, <4>1, <4>2
    <3>10. \A col \in 0..n : \A row : row = m => Computed(row, col)'
      <4> SUFFICES ASSUME NEW col \in 0..n, NEW row, row = m
                   PROVE  Computed(row, col)'
        OBVIOUS
      <4>1. CASE col = n
        BY <3>7, <4>1
      <4>2. CASE col # n
        <5>1. /\ row \in 0..m /\ col \in 0..(NN - 1) /\ col < n /\ col \in 0..(n - 1)
          BY <1>3, <2>2, <4>2
        <5>2. Computed(row, col)
          BY <3>8, <5>1
        <5> QED  BY <3>6, <4>2, <5>1, <5>2
      <4> QED  BY <4>1, <4>2
    <3>11. RowsStored'
      <4>1. n' \in 0..NN /\ n' - 1 = n /\ m \in 0..rows
        BY <1>3, <2>2, <3>3
      <4>2. DOMAIN out' = 0..(rows * NN - 1)
        BY <2>1, <3>1
      <4>3. \A col \in 0..(n' - 1) : Computed(m, col)'
        BY <2>1, <3>10, <4>1
      <4> QED  BY <1>1, <1>3, <2>1, <2>2, <3>9, <4>1, <4>2, <4>3
               DEF RowsStored, InM, InN, InK
    <3>12. IndicesExact'
      <4>1. m * NN + n' <= Limit
        BY <1>3, <1>4, <2>2, <3>2, <3>3
      <4>2. ASSUME KK > 0
            PROVE  (m + 1) * KK <= Limit /\ (KK - 1) * NN + n' <= Limit
        <5>1. m * KK + KK <= Limit /\ (KK - 1) * NN + n < Limit
          BY <1>1, <1>3, <2>2, <4>2 DEF IndicesExact
        <5>2. (m + 1) * KK = m * KK + KK /\ (KK - 1) * NN \in Int
          BY <1>3, <2>2
        <5> QED  BY <1>3, <2>2, <3>3, <5>1, <5>2
      <4>3. /\ m * NN <= Limit
            /\ KK > 0 /\ NN > 0 => m * KK <= Limit
            /\ KK > 0 /\ NN > 0 /\ m > 0 => KK * NN <= Limit
        BY <1>1, <1>3, <2>2 DEF IndicesExact
      <4> QED  BY <1>1, <1>3, <2>1, <2>2, <4>1, <4>2, <4>3 DEF IndicesExact, InM, InN, InK
    <3> QED  BY <3>11, <3>12
  <2> QED  BY <1>1, <1>2, <2>1, <2>2, SameCall DEF KInv, InM, InN, InK
<1>6. CASE c_idx \notin DOMAIN out
  <2>1. pc' = "undefined"
    BY <1>6 DEF KEnd, StoreAndAdd, GoAstray
  <2>2. ~ ArraysFit
    <3> SUFFICES ASSUME ArraysFit PROVE FALSE
      OBVIOUS
    <3> DEFINE x == m * NN
               size == rows * NN
    <3>1. SizesFit /\ size < Limit
      BY <1>2 DEF ArraysFit, Fits, Limit
    <3>2. DOMAIN out = 0..(size - 1)
      BY <1>1, <1>3, <3>1 DEF RowsStored
    <3>3. c_idx = IF x + n < Limit THEN x + n ELSE x + n - 2 * Limit
      BY <1>4, <3>1
    <3>4. x \in Nat /\ x + NN <= size /\ size \in Nat
      BY <1>3, <3>1, RowsInOrder
    <3> HIDE DEF x, size, c_idx
    <3>5. c_idx \in 0..(size - 1)
      BY <1>3, <3>1, <3>3, <3>4
    <3> QED  BY <1>6, <3>2, <3>5
  <2> QED  BY <1>1, <1>2, <2>1, <2>2, SameCall DEF KInv, InM, InN, InK, RowsStored, IndicesExact
<1> QED  BY <1>5, <1>6
----------------------------------------------------------------------------
LEMMA KernelInvariance == Spec => []KInv
<1>1. ASSUME KInv, [Next]_vars PROVE KInv'
  <2>1. CASE UNCHANGED vars
    <3>1. /\ call' = call /\ pc' = pc /\ i' = i /\ m' = m /\ n' = n /\ k' = k
          /\ acc' = acc /\ out' = out
      BY <2>1 DEF vars
    <3> QED  BY <1>1, <3>1, SameCall
             DEF KInv, ElementsWritten, RowsStored, IndicesExact, Computed, Terms, Limit
  <2>2. CASE Reject
    BY <1>1, <2>2, RejectKeeps
  <2>3. CASE EnterElementwise
    BY <1>1, <2>3, EnterElementwiseKeeps
  <2>4. CASE EnterMatmul
    BY <1>1, <2>4, EnterMatmulKeeps
  <2>5. CASE LoopCond
    BY <1>1, <2>5, LoopCondKeeps
  <2>6. CASE LoopBody
    BY <1>1, <2>6, LoopBodyKeeps
  <2>7. CASE MCond
    BY <1>1, <2>7, MCondKeeps
  <2>8. CASE NCond
    BY <1>1, <2>8, NCondKeeps
  <2>9. CASE KCond
    BY <1>1, <2>9, KCondKeeps
  <2>10. CASE KBody
    BY <1>1, <2>10, KBodyKeeps
  <2>11. CASE KEnd
    BY <1>1, <2>11, KEndKeeps
  <2>12. CASE Terminated
    BY <2>1, <2>12 DEF Terminated
  <2> QED
    BY <1>1, <2>1, <2>2, <2>3, <2>4, <2>5, <2>6, <2>7, <2>8, <2>9, <2>10, <2>11, <2>12
    DEF Next
<1> QED  BY <1>1, InitKeeps, PTL DEF Spec

\* For every width of the registers and every call whose extents fit, a kernel
\* that returns has computed what numpy computes; and one whose arrays can be
\* indexed never leaves them.
THEOREM KernelsAreExact == Spec => []FittingCallsAreExact
<1>1. ASSUME KInv PROVE FittingCallsAreExact
  <2>1. pc = "undefined" => ~ ArraysFit
    BY <1>1 DEF KInv
  <2>2. ASSUME pc = "returned", SizesFit PROVE Exact
    <3>1. Accepted /\ call \in Calls
      BY <1>1, <2>2 DEF KInv
    <3>2. CASE IsElementwise
      <4>1. SizeOf(call.x) \in Nat
        BY <2>2, <3>1, <3>2, ElementwiseRegister
      <4>2. ElementsWritten
        BY <1>1, <2>2, <3>1, <3>2 DEF KInv
      <4>3. \A index \in DOMAIN out : out[index] = <<index>>
        BY <2>2, <4>1, <4>2 DEF ElementsWritten
      <4> QED  BY <3>2, <4>3 DEF Exact
    <3>3. CASE ~ IsElementwise
      <4>1. RowsStored
        BY <1>1, <2>2, <3>1, <3>3 DEF KInv
      <4>2. \A row \in 0..(call.x[1] - 1), col \in 0..(call.y[2] - 1) : Computed(row, col)
        BY <2>2, <4>1 DEF RowsStored, InM, InN, InK
      <4> QED  BY <3>3, <4>2 DEF Exact, Computed, Terms
    <3> QED  BY <3>2, <3>3
  <2> QED  BY <2>1, <2>2 DEF FittingCallsAreExact
<1> QED  BY <1>1, KernelInvariance, PTL
=============================================================================

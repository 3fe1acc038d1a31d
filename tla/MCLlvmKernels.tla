--------------------------- MODULE MCLlvmKernels ----------------------------
(***************************************************************************)
(* Values for the constants of LlvmKernels: extents on both sides of what  *)
(* a register of 4 bits holds.                                             *)
(***************************************************************************)
EXTENDS LlvmKernels

\* 8 becomes -8, 15 becomes -1, 16 becomes 0 and 17 becomes 1.
Extents == 0..8 \cup {15, 16, 17}

Call(kernel, x, y, alpha) == [kernel |-> kernel, x |-> x, y |-> y, alpha |-> alpha]

MCCalls ==
    {Call(op, x, x, alpha) : op \in DOMAIN NeedsAlpha, alpha \in BOOLEAN,
        x \in {<<e>> : e \in Extents} \cup {<<2, 3>>, <<2, 2, 2>>}}
    \cup {Call("add", <<2, 3>>, <<3, 2>>, FALSE)}
    \cup {Call("matmul", <<e, f>>, <<f, g>>, FALSE) : e \in Extents, f \in Extents, g \in Extents}
    \cup {Call("matmul", x, y, FALSE) : x \in {<<2, 3>>, <<2>>}, y \in {<<2, 2>>, <<3, 1, 1>>}}
=============================================================================

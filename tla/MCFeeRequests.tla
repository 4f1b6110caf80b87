--------------------------- MODULE MCFeeRequests ---------------------------
(***************************************************************************)
(* Messages of up to four keys, one for each group of the header; blocks   *)
(* over two of them, with prices that three transactions, or a limit and a *)
(* price, take beyond U64_MAX; calls on both sides of every limit.         *)
(***************************************************************************)
EXTENDS FeeRequests

CONSTANTS a, b, c, d
MCPubkey == {a, b, c, d}
MCAccount == {a, b}
=============================================================================

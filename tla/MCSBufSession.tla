--------------------------- MODULE MCSBufSession ---------------------------
(* Every call in every state, blocks and segments of no byte to three: one *)
(* finds room to spare, just enough, or too little.                        *)
EXTENDS SBufSession

CONSTANTS a, b1  \* two byte values, so that an order can be wrong

=============================================================================

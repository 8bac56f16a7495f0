------------------------------ MODULE MCExpBuf ------------------------------
(* Every call in every state, in the right mode or not, on a list of two   *)
(* blocks: the caller may seat its handle on either, reset one and not the *)
(* other, and force writeError on or off.                                  *)
EXTENDS ExpBuf

CONSTANT a  \* the one byte value: only written and unwritten bytes differ

=============================================================================

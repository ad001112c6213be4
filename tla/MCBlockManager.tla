--------------------------- MODULE MCBlockManager ---------------------------
(* A small instance of BlockManager for TLC.                               *)
EXTENDS BlockManager

\* One block whose bytes all differ: two writes at different addresses differ
\* wherever they overlap.
CountingPayload == {[i \in Offset |-> i + 1]}
=============================================================================

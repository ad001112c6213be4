------------------------- MODULE MCConsistancyTest --------------------------
(* A small instance of ConsistancyTest for TLC.                            *)
EXTENDS ConsistancyTest

\* One nonzero byte, repeated.
SolidPayload == {[i \in Offset |-> v] : v \in Byte \ {0}}
=============================================================================

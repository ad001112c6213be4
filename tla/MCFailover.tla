---------------------------- MODULE MCFailover ------------------------------
(* Small instances of Failover for TLC.                                    *)
EXTENDS Failover

\* One nonzero byte, repeated.
SolidPayload == {[i \in Offset |-> v] : v \in Byte \ {0}}

\* For the run that is not about data.
ZeroPayload == {Zeros}
=============================================================================

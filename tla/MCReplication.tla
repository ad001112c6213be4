--------------------------- MODULE MCReplication ---------------------------
(* Small instances of Replication for TLC.                                 *)
EXTENDS Replication, TLC

\* Blocks that repeat one nonzero byte: two writes differ everywhere.
SolidPayload == {[i \in Offset |-> v] : v \in Byte \ {0}}

\* One block whose bytes all differ: two writes at different addresses differ
\* wherever they overlap.
CountingPayload == {[i \in Offset |-> i + 1]}

\* For the runs that are not about data.
ZeroPayload == {Zeros}

Symmetry == Permutations(Writer) \cup Permutations(SubThread)
              \cup Permutations(Checker)

\* Suspicion is never lifted, and MirrorsAgree and ValidIsMirrored say nothing
\* of suspect blocks: once all are, there is nothing left to find.
SomeBlockTrusted == suspect # Block

\* With two blocks and two sub-threads, the first suspect block ends a behaviour.
NothingSuspect == suspect = {}

\* WritesReturn and Reintegrated hold of every behaviour that pops an empty queue:
\* there is nothing left to find in it.
NeverPoppedEmpty == ~PoppedEmpty
=============================================================================

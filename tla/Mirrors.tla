------------------------------- MODULE Mirrors --------------------------------
(* What the two mirrors promise together: copies of an array of blocks that *)
(* change one at a time, hold only what was written or is still to be       *)
(* replayed to them, and are equal wherever nothing is written or missing.  *)
EXTENDS Naturals

CONSTANTS Mirror, Block, Offset

VARIABLES
    copies,  \* of each block, the bytes each mirror shows
    brought, \* of each byte, the values that writes under way bring
    behind,  \* of each byte, the mirrors yet to be brought up to date
    lost     \* the blocks about which nothing is promised any more

vars == <<copies, brought, behind, lost>>

Init ==
    /\ copies = [b \in Block |-> [m \in Mirror |-> [i \in Offset |-> 0]]]
    /\ brought = [b \in Block |-> [i \in Offset |-> {}]]
    /\ behind = [b \in Block |-> [i \in Offset |-> {}]]
    /\ lost = {}

\* Only mirror m changes: each byte to what a write brings or, while m is behind
\* there, to anything, an older byte or none if it stopped.  Where nothing is
\* brought or behind the copies are equal.
Step(m) ==
    /\ lost \subseteq lost'
    /\ \A b \in Block \ lost' :
         \E old \in {copies[b]}, new \in {copies'[b]} :
           /\ \A k \in Mirror \ {m} : new[k] = old[k]
           /\ \A i \in Offset : \/ new[m][i] = old[m][i]
                                \/ new[m][i] \in brought'[b][i]
                                \/ m \in behind'[b][i]
           /\ \A i \in Offset : \/ \A k \in Mirror : new[k][i] = new[m][i]
                                \/ behind'[b][i] # {}
                                \/ brought'[b][i] # {}

Next == \E m \in Mirror : Step(m)

Spec == Init /\ [][Next]_vars
=============================================================================

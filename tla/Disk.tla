-------------------------------- MODULE Disk ---------------------------------
(* What a node's BlockManager promises: a disk of bytes that clients write  *)
(* BLOCK_SIZE at a time, at any address.  A write changes its own bytes and *)
(* no others, one block after the other; only a crash may lose a block.     *)
(* The bytes past INT_MAX, which no address names but the last ones reach,  *)
(* are the exception: a write keeps those it writes and zeroes the others.  *)
EXTENDS BlockStore

CONSTANT Payload

VARIABLES on, disk

Init ==
    /\ on = FALSE
    /\ disk = [b \in Block |-> Zeros]

\* A write of data at addr reaches block b.
Put(addr, data, b) ==
    /\ on
    /\ b \in BlocksOf(addr)
    /\ disk' = [disk EXCEPT ![b] =
                  [i \in Offset |-> LET at == b * BLOCK_SIZE + i
                                    IN  IF at - addr \in Offset THEN data[at - addr]
                                        ELSE IF at > INT_MAX THEN 0
                                        ELSE @[i]]]
    /\ UNCHANGED on

\* A crash loses the blocks in lost.
Stop(lost) ==
    /\ on
    /\ on' = FALSE
    /\ disk' = [b \in Block |-> IF b \in lost THEN Zeros ELSE disk[b]]

Boot ==
    /\ ~on
    /\ on' = TRUE
    /\ UNCHANGED disk

Next ==
    \/ \E addr \in Addr, data \in Payload : \E b \in Block : Put(addr, data, b)
    \/ \E lost \in SUBSET Block : Stop(lost)
    \/ Boot

Spec == Init /\ [][Next]_<<on, disk>>
=============================================================================

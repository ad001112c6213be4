------------------------------ MODULE Checksum -------------------------------
(***************************************************************************)
(* The checksum CheckConsistancy compares: class SHA256 (SHA256.cc), but   *)
(* for the rounds of transform.  m_h is taken to be all the bytes that     *)
(* were compressed into it, an ideal hash; what is modelled is which bytes *)
(* those are: the buffering of update and the padding of final.            *)
(***************************************************************************)
EXTENDS Integers, Sequences

CONSTANTS
    SHA_BLOCK, \* SHA224_256_BLOCK_SIZE: 64 bytes
    LEN_BYTES, \* bytes of an unsigned int: 4
    Byte,      \* the values of a byte of a message
    WORD,      \* the values of an unsigned int: 2^32
    MaxLen,    \* bound: the length of a message
    None       \* stands for a digest that is not there yet

Bytes == 0..255

ASSUME ShaBlockAssumption == SHA_BLOCK \in Nat /\ LEN_BYTES \in Nat \ {0}
ASSUME WordAssumption ==
    WORD = 256 ^ LEN_BYTES /\ \A j \in 0..LEN_BYTES : 256 ^ j \in Nat \ {0}
ASSUME PaddingFitsAssumption == 2 * LEN_BYTES + 1 <= SHA_BLOCK
ASSUME ByteAssumption == Byte \subseteq Bytes /\ MaxLen \in Nat
ASSUME NoneAssumption == None \notin Seq(Bytes)

VARIABLES
    ctx,   \* the SHA256 object
    msg,   \* history: what update was given
    digest \* what final left in its argument

vars == <<ctx, msg, digest>>

\* SHA2_UNPACK32: the bytes of x, the highest first.
Unpack(x) == [j \in 1..LEN_BYTES |-> (x \div 256 ^ (LEN_BYTES - j)) % 256]

Context ==
    [h : Seq(Bytes), tot : 0..(WORD - 1), len : 0..(SHA_BLOCK - 1),
     block : [1..(2 * SHA_BLOCK) -> Bytes]]

\* SHA256() zeroes the object, and init leaves m_block alone.
NewContext == [h |-> <<>>, tot |-> 0, len |-> 0,
               block |-> [i \in 1..(2 * SHA_BLOCK) |-> 0]]

\* Whole blocks are mixed into m_h.
Transform(h, blocks) == h \o blocks

\* Mutant: copies to the start of the buffer, whatever it holds.
CopyToStart(block, at, m) ==
    [i \in 1..(2 * SHA_BLOCK) |-> IF i <= Len(m) THEN m[i] ELSE block[i]]

\* memcpy(m_block + at, m, Len(m))
Copy(block, at, m) ==
    [i \in 1..(2 * SHA_BLOCK) |->
       IF i \in (at + 1)..(at + Len(m)) THEN m[i - at] ELSE block[i]]

\* Mutant: a full buffer waits for more.
FitsLate(c, m) == c.len + Len(m) <= SHA_BLOCK

\* Less than a block is only buffered.
Fits(c, m) == c.len + Len(m) < SHA_BLOCK

\* Otherwise the bytes up to Cut are compressed: those that fill the buffer and
\* the whole blocks after them.
Fill(c) == SHA_BLOCK - c.len
Whole(c, m) == (Len(m) - Fill(c)) \div SHA_BLOCK
Cut(c, m) == Fill(c) + Whole(c, m) * SHA_BLOCK

\* Mutant: what is left is not kept.
RestDropped(c, m) == <<>>

Rest(c, m) == SubSeq(m, Cut(c, m) + 1, Len(m))

Update(c, m) ==
    IF Fits(c, m)
    THEN [c EXCEPT !.block = Copy(@, c.len, m), !.len = @ + Len(m)]
    ELSE LET full == Copy(c.block, c.len, SubSeq(m, 1, Fill(c)))
         IN  [h |-> Transform(Transform(c.h, SubSeq(full, 1, SHA_BLOCK)),
                              SubSeq(m, Fill(c) + 1, Cut(c, m))),
              tot |-> (c.tot + (Whole(c, m) + 1) * SHA_BLOCK) % WORD,
              len |-> Len(Rest(c, m)),
              block |-> Copy(full, 0, Rest(c, m))]

\* Mutant: the limit is one byte off.
PadBlocksLate(len) ==
    IF SHA_BLOCK - 2 * LEN_BYTES < len % SHA_BLOCK THEN 2 ELSE 1

\* The blocks it takes to add 0x80 and eight bytes of length to len bytes.
PadBlocks(len) ==
    IF SHA_BLOCK - (2 * LEN_BYTES + 1) < len % SHA_BLOCK THEN 2 ELSE 1

\* memset, 0x80 and SHA2_UNPACK32 of the low half of the length, in this order,
\* in a buffer that may hold old bytes.
Pad(c) ==
    LET end == PadBlocks(c.len) * SHA_BLOCK
        len_b == Unpack(((c.tot + c.len) * 8) % WORD)
    IN  [i \in 1..(2 * SHA_BLOCK) |->
           IF i \in (end - LEN_BYTES + 1)..end
           THEN len_b[i - (end - LEN_BYTES)]
           ELSE IF i = c.len + 1 THEN 128
           ELSE IF i \in (c.len + 2)..end THEN 0
           ELSE c.block[i]]

Final(c) == Transform(c.h, SubSeq(Pad(c), 1, PadBlocks(c.len) * SHA_BLOCK))

sha256(m) == Final(Update(NewContext, m))

-----------------------------------------------------------------------------
Message == UNION {[1..n -> Byte] : n \in 0..MaxLen}

TypeOK ==
    /\ ctx \in Context
    /\ msg \in Seq(Bytes)
    /\ digest \in Seq(Bytes) \cup {None}

Init ==
    /\ ctx = NewContext
    /\ msg = <<>>
    /\ digest = None

\* sha256 makes one call of update; the class allows any number.
UpdateCall(m) ==
    /\ digest = None
    /\ Len(msg) + Len(m) <= MaxLen
    /\ ctx' = Update(ctx, m)
    /\ msg' = msg \o m
    /\ UNCHANGED digest

FinalCall ==
    /\ digest = None
    /\ digest' = Final(ctx)
    /\ UNCHANGED <<ctx, msg>>

\* The next call of sha256 has an object of its own.
NextCall ==
    /\ digest # None
    /\ ctx' = NewContext
    /\ msg' = <<>>
    /\ digest' = None

Next == (\E m \in Message : UpdateCall(m)) \/ FinalCall \/ NextCall

Spec == Init /\ [][Next]_vars

-----------------------------------------------------------------------------
(* Properties.                                                             *)

\* FIPS 180-4, 5.1.1: the message, a one bit, as few zeros as make the whole a
\* multiple of the block, and the length in bits.  The upper half of the length's
\* field, which the code never writes, is among the zeros.
Standard(m) ==
    LET field == 2 * LEN_BYTES
        whole == CHOOSE n \in 1..(Len(m) + 2 * SHA_BLOCK) :
                   /\ n % SHA_BLOCK = 0 /\ n >= Len(m) + 1 + field
                   /\ n < Len(m) + 1 + field + SHA_BLOCK
    IN  m \o <<128>> \o [i \in 1..(whole - Len(m) - 1 - LEN_BYTES) |-> 0]
          \o Unpack(8 * Len(m))

\* However a message is cut into updates, and whatever older bytes the buffer
\* holds, final hashes the standard's padding of it, as long as its bits can be
\* counted in an unsigned int.
DigestIsStandard ==
    digest # None /\ 8 * Len(msg) < WORD => digest = Standard(msg)

\* The buffer and what has been compressed are the message so far: no byte is
\* dropped, doubled or left over from before, and the length counts them all.
NothingLost ==
    /\ ctx.h \o SubSeq(ctx.block, 1, ctx.len) = msg
    /\ ctx.tot = Len(ctx.h) % WORD /\ Len(ctx.h) % SHA_BLOCK = 0

\* CheckConsistancy may compare checksums in place of blocks: sha256 of no other
\* message is the same, that of an empty reply included.
Digests == {<<m, sha256(m)>> : m \in Message}
TellsApart ==
    digest # None => \A d \in Digests : d[2] = digest => d[1] = msg
=============================================================================

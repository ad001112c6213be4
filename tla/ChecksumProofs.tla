--------------------------- MODULE ChecksumProofs ----------------------------
(* What the buffering of Checksum keeps, for blocks and messages of any     *)
(* length.                                                                  *)
EXTENDS Checksum, SequenceTheorems, TLAPS

Buffer == [1..(2 * SHA_BLOCK) -> Bytes]

LEMMA Constants ==
    /\ SHA_BLOCK \in Nat \ {0} /\ SHA_BLOCK >= 3
    /\ LEN_BYTES \in Nat \ {0}
    /\ WORD \in Nat \ {0}
  <1>1. LEN_BYTES \in 0..LEN_BYTES
    BY ShaBlockAssumption
  <1>2. WORD \in Nat \ {0}
    BY <1>1, WordAssumption
  <1> QED
    BY <1>2, ShaBlockAssumption, PaddingFitsAssumption

LEMMA Division ==
    ASSUME NEW x \in Nat, NEW d \in Nat \ {0}
    PROVE  /\ x \div d \in Nat
           /\ (x \div d) * d <= x
           /\ x < (x \div d) * d + d
  OBVIOUS

LEMMA Multiple ==
    ASSUME NEW k \in Nat, NEW d \in Nat \ {0}
    PROVE  (k * d) % d = 0
  OBVIOUS

LEMMA AddMultiple ==
    ASSUME NEW x \in Nat, NEW d \in Nat \ {0}, NEW k \in Nat, x % d = 0
    PROVE  (x + k * d) % d = 0
  <1> DEFINE q == x \div d
  <1>1. q \in Nat /\ x = q * d
    OBVIOUS
  <1> HIDE DEF q
  <1>2. x + k * d = (q + k) * d
    BY <1>1
  <1> QED
    BY <1>1, <1>2, Multiple

LEMMA Residue ==
    ASSUME NEW d \in Nat \ {0}, NEW q \in Nat, NEW r \in 0..(d - 1)
    PROVE  (q * d + r) % d = r
  <1> DEFINE x == q * d + r
             p == x \div d
             s == x % d
  <1>1. x \in Nat
    OBVIOUS
  <1> HIDE DEF x
  <1>2. p \in Nat /\ s \in 0..(d - 1) /\ x = p * d + s
    BY <1>1
  <1> HIDE DEF p, s
  <1>3. x = q * d + r
    BY DEF x
  <1>4. ~(p < q)
    <2>1. ASSUME p + 1 <= q PROVE p * d + d <= q * d
      BY <1>2, <2>1
    <2> QED
      BY <1>2, <1>3, <2>1
  <1>5. ~(q < p)
    <2>1. ASSUME q + 1 <= p PROVE q * d + d <= p * d
      BY <1>2, <2>1
    <2> QED
      BY <1>2, <1>3, <2>1
  <1>6. p = q
    BY <1>2, <1>4, <1>5
  <1>7. s = r
    BY <1>2, <1>3, <1>6
  <1> QED
    BY <1>7 DEF s, x

LEMMA SumModulo ==
    ASSUME NEW x \in Nat, NEW y \in Nat, NEW d \in Nat \ {0}
    PROVE  /\ ((x % d) + y) % d \in 0..(d - 1)
           /\ ((x % d) + y) % d = (x + y) % d
  <1> DEFINE r == x % d
             q == x \div d
             z == r + y
             t == z % d
             u == z \div d
  <1>1. q \in Nat /\ r \in 0..(d - 1) /\ x = q * d + r
    OBVIOUS
  <1> HIDE DEF q, r
  <1>2. z \in Nat
    BY <1>1
  <1>3. u \in Nat /\ t \in 0..(d - 1) /\ z = u * d + t
    <2> HIDE DEF z
    <2> QED
      BY <1>2
  <1> HIDE DEF t, u
  <1>4. x + y = (q + u) * d + t
    BY <1>1, <1>3
  <1>5. q + u \in Nat
    BY <1>1, <1>3
  <1>6. (x + y) % d = t
    BY <1>3, <1>4, <1>5, Residue
  <1> QED
    BY <1>3, <1>6 DEF t, z, r

LEMMA Associative ==
    \A s, t, u \in Seq(Bytes) : (s \o t) \o u = s \o (t \o u)
  <1> SUFFICES ASSUME NEW s \in Seq(Bytes), NEW t \in Seq(Bytes),
                      NEW u \in Seq(Bytes)
               PROVE  (s \o t) \o u = s \o (t \o u)
    OBVIOUS
  <1> QED
    BY ConcatAssociative

LEMMA Joined ==
    \A s, t \in Seq(Bytes) : /\ s \o t \in Seq(Bytes)
                             /\ Len(s \o t) = Len(s) + Len(t)
                             /\ Len(s) \in Nat
  BY ConcatProperties, LenProperties

LEMMA Regroup ==
    \A u, v, x, y, z \in Seq(Bytes) :
      ((u \o (v \o x)) \o y) \o z = (u \o v) \o ((x \o y) \o z)
  <1> SUFFICES ASSUME NEW h \in Seq(Bytes), NEW head \in Seq(Bytes),
                      NEW first \in Seq(Bytes), NEW whole \in Seq(Bytes),
                      NEW rest \in Seq(Bytes)
               PROVE  ((h \o (head \o first)) \o whole) \o rest
                        = (h \o head) \o ((first \o whole) \o rest)
    OBVIOUS
  <1> DEFINE base == h \o head
             tail == whole \o rest
  <1>1. base \in Seq(Bytes) /\ tail \in Seq(Bytes)
    BY Joined
  <1>2. h \o (head \o first) = base \o first
    BY Associative, SMTT(30)
  <1>3. (first \o whole) \o rest = first \o tail
    BY Associative
  <1> HIDE DEF base
  <1>4. base \o first \in Seq(Bytes)
    BY <1>1, Joined
  <1>5. ((base \o first) \o whole) \o rest = (base \o first) \o tail
    BY <1>4, Associative
  <1> HIDE DEF tail
  <1>6. (base \o first) \o tail = base \o (first \o tail)
    <2>1. base \in Seq(Bytes)
      BY <1>1
    <2>2. tail \in Seq(Bytes)
      BY <1>1
    <2>3. \A u \in Seq(Bytes) : (base \o first) \o u = base \o (first \o u)
      BY <2>1, Associative
    <2> QED
      BY <2>2, <2>3
  <1> QED
    BY <1>2, <1>3, <1>5, <1>6 DEF base

\* memcpy puts m after the first at bytes, and changes nothing before it.
LEMMA CopyAppends ==
    ASSUME NEW b \in Buffer, NEW at \in Nat, NEW m \in Seq(Bytes),
           at + Len(m) <= 2 * SHA_BLOCK
    PROVE  /\ Copy(b, at, m) \in Buffer
           /\ SubSeq(Copy(b, at, m), 1, at + Len(m)) = SubSeq(b, 1, at) \o m
  <1> DEFINE c == Copy(b, at, m)
             n == at + Len(m)
             s == SubSeq(c, 1, n)
             t == SubSeq(b, 1, at)
  <1>0. Len(m) \in Nat /\ n \in Nat /\ \A i \in 1..Len(m) : m[i] \in Bytes
    BY ElementOfSeq, LenProperties
  <1>1. c \in Buffer
    BY <1>0, Constants DEF Copy, Buffer
  <1>2. s \in Seq(Bytes) /\ Len(s) = n /\ \A i \in 1..n : s[i] = c[i]
    <2>1. \A i \in 1..n : c[i] \in Bytes
      BY <1>0, <1>1, Constants DEF Buffer
    <2> HIDE DEF c, n
    <2> QED
      BY <1>0, <2>1, SubSeqProperties
  <1>3. t \in Seq(Bytes) /\ Len(t) = at /\ \A i \in 1..at : t[i] = b[i]
    <2>1. \A i \in 1..at : b[i] \in Bytes
      BY <1>0, Constants DEF Buffer
    <2> QED
      BY <2>1, SubSeqProperties
  <1>4. /\ t \o m \in Seq(Bytes) /\ Len(t \o m) = n
        /\ \A i \in 1..n : (t \o m)[i] = IF i <= at THEN t[i] ELSE m[i - at]
    BY <1>3, ConcatProperties
  <1>5. \A i \in 1..n : c[i] = IF i <= at THEN b[i] ELSE m[i - at]
    BY <1>0, Constants DEF Copy, Buffer
  <1> HIDE DEF c, n, s, t
  <1>6. \A i \in 1..n : s[i] = (t \o m)[i]
    BY <1>0, <1>2, <1>3, <1>4, <1>5
  <1>7. s = t \o m
    BY <1>2, <1>4, <1>6, SeqEqual
  <1> QED
    BY <1>1, <1>7 DEF c, n, s, t

-----------------------------------------------------------------------------
(* The inductive invariant: NothingLost with the types of the object.       *)

Holds(c, s) ==
    /\ c \in Context
    /\ c.h \o SubSeq(c.block, 1, c.len) = s
    /\ c.tot = Len(c.h) % WORD /\ Len(c.h) % SHA_BLOCK = 0

Sound ==
    /\ Holds(ctx, msg)
    /\ msg \in Seq(Bytes)
    /\ digest \in Seq(Bytes) \cup {None}

LEMMA UpdateBuffers ==
    ASSUME NEW c, NEW s, Holds(c, s), NEW m \in Seq(Bytes), Fits(c, m)
    PROVE  Holds(Update(c, m), s \o m)
  <1> DEFINE block == Copy(c.block, c.len, m)
             head == SubSeq(c.block, 1, c.len)
             d == Update(c, m)
  <1>1. /\ c.h \in Seq(Bytes) /\ c.len \in Nat /\ c.block \in Buffer
        /\ c.tot \in 0..(WORD - 1) /\ Len(m) \in Nat
        /\ c.len + Len(m) < SHA_BLOCK
    BY Constants, LenProperties DEF Holds, Context, Buffer, Fits
  <1>2. d = [h |-> c.h, tot |-> c.tot, len |-> c.len + Len(m), block |-> block]
    <2>1. d = [c EXCEPT !.block = block, !.len = c.len + Len(m)]
      BY DEF Update
    <2> HIDE DEF d, block
    <2> QED
      BY <2>1 DEF Holds, Context
  <1>3. block \in Buffer /\ SubSeq(block, 1, c.len + Len(m)) = head \o m
    <2>1. c.len + Len(m) <= 2 * SHA_BLOCK
      BY <1>1, Constants
    <2> QED
      BY <1>1, <2>1, CopyAppends, Zenon
  <1>4. head \in Seq(Bytes)
    <2>1. \A i \in 1..c.len : c.block[i] \in Bytes
      BY <1>1, Constants DEF Buffer
    <2> QED
      BY <1>1, <2>1, SubSeqProperties
  <1>5. d \in Context
    <2> HIDE DEF d, block
    <2> QED
      BY <1>1, <1>2, <1>3, Constants DEF Context, Buffer
  <1>6. (c.h \o head) \o m = c.h \o (head \o m)
    BY <1>1, <1>4, Associative
  <1> HIDE DEF d, block, head
  <1>7. d.h \o SubSeq(d.block, 1, d.len) = s \o m
    BY <1>2, <1>3, <1>6 DEF Holds, head
  <1>8. d.tot = Len(d.h) % WORD /\ Len(d.h) % SHA_BLOCK = 0
    BY <1>2 DEF Holds
  <1> QED
    BY <1>5, <1>7, <1>8 DEF Holds, d

\* The whole blocks and the rest of a message that fills the buffer.
LEMMA CutBounds ==
    ASSUME NEW c, c.len \in 0..(SHA_BLOCK - 1),
           NEW m \in Seq(Bytes), ~Fits(c, m)
    PROVE  /\ Fill(c) \in 1..SHA_BLOCK /\ Whole(c, m) \in Nat
           /\ Cut(c, m) \in Nat /\ Fill(c) <= Cut(c, m)
           /\ Cut(c, m) <= Len(m) /\ Len(m) < Cut(c, m) + SHA_BLOCK
           /\ c.len + Fill(c) = SHA_BLOCK
           /\ Cut(c, m) - Fill(c) = Whole(c, m) * SHA_BLOCK
  <1>1. Len(m) \in Nat
    BY LenProperties
  <1>2. Fill(c) \in 1..SHA_BLOCK /\ Fill(c) <= Len(m)
    BY <1>1, Constants DEF Fits, Fill
  <1> DEFINE x == Len(m) - Fill(c)
             w == x \div SHA_BLOCK
  <1>3. x \in Nat
    BY <1>1, <1>2
  <1>4. w \in Nat /\ w * SHA_BLOCK <= x /\ x < w * SHA_BLOCK + SHA_BLOCK
    <2> HIDE DEF x
    <2> QED
      BY <1>3, Constants, Division
  <1>5. w * SHA_BLOCK \in Nat
    <2> HIDE DEF w
    <2> QED
      BY <1>4, Constants
  <1>6. Whole(c, m) = w /\ Cut(c, m) = Fill(c) + w * SHA_BLOCK
    BY DEF Whole, Cut
  <1>7. c.len + Fill(c) = SHA_BLOCK
    BY Constants DEF Fill
  <1> DEFINE y == w * SHA_BLOCK
  <1> HIDE DEF w
  <1>8. Cut(c, m) = Fill(c) + y /\ y \in Nat /\ y <= x /\ x < y + SHA_BLOCK
    BY <1>4, <1>5, <1>6
  <1>9. Cut(c, m) - Fill(c) = Whole(c, m) * SHA_BLOCK
    <2>1. Cut(c, m) - Fill(c) = y
      <3> HIDE DEF y
      <3> QED
        BY <1>2, <1>8
    <2> QED
      BY <2>1, <1>6
  <1> HIDE DEF y
  <1> QED
    BY <1>1, <1>2, <1>4, <1>6, <1>7, <1>8, <1>9, Constants, SMTT(30)

\* A message is its pieces.
LEMMA Pieces ==
    ASSUME NEW m \in Seq(Bytes), NEW a \in Nat, NEW b \in Nat,
           a <= b, b <= Len(m)
    PROVE  /\ SubSeq(m, 1, a) \in Seq(Bytes) /\ Len(SubSeq(m, 1, a)) = a
           /\ SubSeq(m, a + 1, b) \in Seq(Bytes)
           /\ Len(SubSeq(m, a + 1, b)) = b - a
           /\ SubSeq(m, b + 1, Len(m)) \in Seq(Bytes)
           /\ Len(SubSeq(m, b + 1, Len(m))) = Len(m) - b
           /\ m = (SubSeq(m, 1, a) \o SubSeq(m, a + 1, b))
                    \o SubSeq(m, b + 1, Len(m))
  <1> DEFINE p == SubSeq(m, 1, a)
             q == SubSeq(m, a + 1, b)
             r == SubSeq(m, b + 1, Len(m))
  <1>0. Len(m) \in Nat /\ \A i \in 1..Len(m) : m[i] \in Bytes
    BY ElementOfSeq, LenProperties
  <1>1. p \in Seq(Bytes) /\ Len(p) = a /\ \A i \in 1..a : p[i] = m[i]
    <2>1. \A i \in 1..a : m[i] \in Bytes
      BY <1>0
    <2> QED
      BY <2>1, SubSeqProperties
  <1>2. /\ q \in Seq(Bytes) /\ Len(q) = b - a
        /\ \A i \in 1..(b - a) : q[i] = m[a + i]
    <2>1. \A i \in (a + 1)..b : m[i] \in Bytes
      BY <1>0
    <2> QED
      BY <2>1, SubSeqProperties
  <1>3. /\ r \in Seq(Bytes) /\ Len(r) = Len(m) - b
        /\ \A i \in 1..(Len(m) - b) : r[i] = m[b + i]
    <2>1. \A i \in (b + 1)..Len(m) : m[i] \in Bytes
      BY <1>0
    <2> QED
      BY <1>0, <2>1, SubSeqProperties
  <1> HIDE DEF p, q, r
  <1>4. /\ p \o q \in Seq(Bytes) /\ Len(p \o q) = b
        /\ \A i \in 1..b : (p \o q)[i] = m[i]
    <2>1. /\ p \o q \in Seq(Bytes) /\ Len(p \o q) = a + (b - a)
          /\ \A i \in 1..(a + (b - a)) :
               (p \o q)[i] = IF i <= a THEN p[i] ELSE q[i - a]
      BY <1>1, <1>2, ConcatProperties
    <2>2. a + (b - a) = b
      OBVIOUS
    <2>3. \A i \in 1..b : i > a => q[i - a] = m[i]
      BY <1>2
    <2> QED
      BY <1>1, <2>1, <2>2, <2>3
  <1>5. /\ (p \o q) \o r \in Seq(Bytes) /\ Len((p \o q) \o r) = Len(m)
        /\ \A i \in 1..Len(m) : ((p \o q) \o r)[i] = m[i]
    <2> DEFINE pq == p \o q
    <2>1. pq \in Seq(Bytes) /\ Len(pq) = b /\ \A i \in 1..b : pq[i] = m[i]
      BY <1>4
    <2> HIDE DEF pq
    <2>2. /\ pq \o r \in Seq(Bytes) /\ Len(pq \o r) = b + (Len(m) - b)
          /\ \A i \in 1..(b + (Len(m) - b)) :
               (pq \o r)[i] = IF i <= b THEN pq[i] ELSE r[i - b]
      <3>1. r \in Seq(Bytes) /\ Len(r) = Len(m) - b
        BY <1>3
      <3>2. /\ pq \o r \in Seq(Bytes) /\ Len(pq \o r) = Len(pq) + Len(r)
            /\ \A i \in 1..(Len(pq) + Len(r)) :
                 (pq \o r)[i] = IF i <= Len(pq) THEN pq[i] ELSE r[i - Len(pq)]
        BY <2>1, <3>1, ConcatProperties
      <3> QED
        BY <2>1, <3>1, <3>2
    <2>3. b + (Len(m) - b) = Len(m)
      BY <1>0
    <2>4. \A i \in 1..Len(m) : i > b => r[i - b] = m[i]
      BY <1>0, <1>3
    <2>5. \A i \in 1..Len(m) : (pq \o r)[i] = m[i]
      BY <1>0, <2>1, <2>2, <2>3, <2>4
    <2> QED
      BY <2>2, <2>3, <2>5 DEF pq
  <1>6. m = (p \o q) \o r
    BY <1>5, SeqEqual
  <1> QED
    BY <1>1, <1>2, <1>3, <1>6 DEF p, q, r

LEMMA UpdateCompresses ==
    ASSUME NEW c, NEW s, Holds(c, s), NEW m \in Seq(Bytes), ~Fits(c, m)
    PROVE  Holds(Update(c, m), s \o m)
  <1> DEFINE first == SubSeq(m, 1, Fill(c))
             whole == SubSeq(m, Fill(c) + 1, Cut(c, m))
             rest == Rest(c, m)
             head == SubSeq(c.block, 1, c.len)
             full == Copy(c.block, c.len, first)
             block == Copy(full, 0, rest)
             next == Update(c, m)
  <1>1. /\ c.h \in Seq(Bytes) /\ c.len \in 0..(SHA_BLOCK - 1)
        /\ c.block \in Buffer /\ c.tot \in 0..(WORD - 1)
    BY DEF Holds, Context, Buffer
  <1>2. /\ Fill(c) \in 1..SHA_BLOCK /\ Whole(c, m) \in Nat
        /\ Cut(c, m) \in Nat /\ Fill(c) <= Cut(c, m)
        /\ Cut(c, m) <= Len(m) /\ Len(m) < Cut(c, m) + SHA_BLOCK
        /\ c.len + Fill(c) = SHA_BLOCK
        /\ Cut(c, m) - Fill(c) = Whole(c, m) * SHA_BLOCK
    BY <1>1, CutBounds
  <1>3. /\ first \in Seq(Bytes) /\ Len(first) = Fill(c)
        /\ whole \in Seq(Bytes) /\ Len(whole) = Whole(c, m) * SHA_BLOCK
        /\ rest \in Seq(Bytes) /\ Len(rest) = Len(m) - Cut(c, m)
        /\ m = (first \o whole) \o rest
    <2>1. Fill(c) \in Nat
      BY <1>2, Constants
    <2> QED
      BY <1>2, <2>1, Pieces, ZenonT(60) DEF Rest
  <1>4. head \in Seq(Bytes) /\ Len(head) = c.len
    <2>1. \A i \in 1..c.len : c.block[i] \in Bytes
      BY <1>1, Constants DEF Buffer
    <2> QED
      BY <1>1, <2>1, SubSeqProperties, Constants
  <1>5. Len(rest) \in 0..(SHA_BLOCK - 1)
    <2>1. Len(m) \in Nat
      BY LenProperties
    <2> HIDE DEF rest
    <2> QED
      BY <1>2, <1>3, <2>1, Constants
  <1>6. full \in Buffer /\ SubSeq(full, 1, SHA_BLOCK) = head \o first
    <2> HIDE DEF first
    <2>1. c.len + Len(first) = SHA_BLOCK /\ c.len \in Nat
      <3>1. c.len \in Nat
        BY <1>1, Constants
      <3> QED
        BY <1>2, <1>3, <3>1
    <2>2. SHA_BLOCK <= 2 * SHA_BLOCK
      BY Constants
    <2>3. /\ full \in Buffer
          /\ SubSeq(full, 1, c.len + Len(first)) = head \o first
      BY <1>1, <1>3, <2>1, <2>2, CopyAppends, Zenon
    <2> QED
      BY <2>1, <2>3
  <1>7. block \in Buffer /\ SubSeq(block, 1, Len(rest)) = rest
    <2> HIDE DEF full, rest
    <2>1. 0 + Len(rest) = Len(rest) /\ 0 + Len(rest) <= 2 * SHA_BLOCK
      BY <1>5, Constants
    <2>2. /\ block \in Buffer
          /\ SubSeq(block, 1, 0 + Len(rest)) = SubSeq(full, 1, 0) \o rest
      BY <1>3, <1>6, <2>1, CopyAppends
    <2>3. SubSeq(full, 1, 0) = <<>>
      BY SubSeqEmpty
    <2>4. <<>> \o rest = rest
      BY <1>3, ConcatEmptySeq
    <2> QED
      BY <2>1, <2>2, <2>3, <2>4
  <1> DEFINE hash == (c.h \o (head \o first)) \o whole
             tot == (c.tot + (Whole(c, m) + 1) * SHA_BLOCK) % WORD
  <1>8. next = [h |-> hash, tot |-> tot, len |-> Len(rest), block |-> block]
    BY <1>6 DEF Update, Transform
  <1> HIDE DEF first, whole, rest, head, full, block, next, hash, tot
  <1>9. hash \in Seq(Bytes) /\ Len(hash) = Len(c.h) + (Whole(c, m) + 1) * SHA_BLOCK
    <2>1. /\ head \o first \in Seq(Bytes)
          /\ Len(head \o first) = c.len + Fill(c)
      BY <1>3, <1>4, Joined
    <2>2. /\ c.h \o (head \o first) \in Seq(Bytes)
          /\ Len(c.h \o (head \o first)) = Len(c.h) + SHA_BLOCK
      BY <1>1, <1>2, <2>1, Joined
    <2>3. /\ hash \in Seq(Bytes)
          /\ Len(hash) = (Len(c.h) + SHA_BLOCK) + Whole(c, m) * SHA_BLOCK
      BY <1>3, <2>2, Joined DEF hash
    <2>4. Len(c.h) \in Nat
      BY <1>1, LenProperties
    <2> QED
      BY <1>2, <2>3, <2>4, Constants
  <1>10. hash \o rest = s \o m
    <2>1. hash \o rest = (c.h \o head) \o ((first \o whole) \o rest)
      <3> DEFINE old == c.h
      <3>1. old \in Seq(Bytes)
        BY <1>1
      <3>2. head \in Seq(Bytes)
        BY <1>4
      <3>3. first \in Seq(Bytes)
        BY <1>3
      <3>4. whole \in Seq(Bytes)
        BY <1>3
      <3>5. rest \in Seq(Bytes)
        BY <1>3
      <3>6. hash = (old \o (head \o first)) \o whole
        BY DEF hash
      <3> HIDE DEF old
      <3>7. ((old \o (head \o first)) \o whole) \o rest
              = (old \o head) \o ((first \o whole) \o rest)
        <4>1. \A v, x, y, z \in Seq(Bytes) :
                ((old \o (v \o x)) \o y) \o z = (old \o v) \o ((x \o y) \o z)
          BY <3>1, Regroup
        <4>2. \A x, y, z \in Seq(Bytes) :
                ((old \o (head \o x)) \o y) \o z
                  = (old \o head) \o ((x \o y) \o z)
          BY <3>2, <4>1
        <4> QED
          BY <3>3, <3>4, <3>5, <4>2, ZenonT(60)
      <3>8. hash \o rest = (old \o head) \o ((first \o whole) \o rest)
        BY <3>6, <3>7
      <3> QED
        BY <3>8 DEF old
    <2> QED
      BY <1>3, <2>1 DEF Holds, head
  <1> DEFINE n == Len(c.h)
             k == (Whole(c, m) + 1) * SHA_BLOCK
  <1>11. /\ n \in Nat /\ k \in Nat /\ Whole(c, m) + 1 \in Nat
         /\ c.tot = n % WORD /\ n % SHA_BLOCK = 0 /\ Len(hash) = n + k
         /\ tot = (c.tot + k) % WORD
    <2>1. (Whole(c, m) + 1) * SHA_BLOCK \in Nat /\ Whole(c, m) + 1 \in Nat
      BY <1>2, Constants
    <2> QED
      BY <1>1, <1>9, <2>1, LenProperties DEF Holds, tot
  <1>12. Len(hash) % SHA_BLOCK = 0
    <2> HIDE DEF n
    <2>1. (n + (Whole(c, m) + 1) * SHA_BLOCK) % SHA_BLOCK = 0
      BY <1>11, Constants, AddMultiple, Zenon
    <2> QED
      BY <1>11, <2>1
  <1> HIDE DEF n, k
  <1>14. tot \in 0..(WORD - 1) /\ tot = Len(hash) % WORD
    <2>1. /\ ((n % WORD) + k) % WORD \in 0..(WORD - 1)
          /\ ((n % WORD) + k) % WORD = (n + k) % WORD
      <3>1. n \in Nat
        BY <1>11
      <3>2. k \in Nat
        BY <1>11
      <3>3. WORD \in Nat \ {0}
        BY Constants
      <3> QED
        BY <3>1, <3>2, <3>3, SumModulo
    <2> QED
      BY <1>11, <2>1
  <1>13. next \in Context
    BY <1>5, <1>7, <1>8, <1>9, <1>14 DEF Context, Buffer
  <1>15. /\ next.h = hash /\ next.tot = tot /\ next.len = Len(rest) /\ next.block = block
    BY <1>8
  <1> QED
    BY <1>7, <1>10, <1>12, <1>13, <1>14, <1>15 DEF Holds, next

-----------------------------------------------------------------------------
LEMMA EmptyHolds == Holds(NewContext, <<>>)
  <1>1. NewContext \in Context
    BY Constants, EmptySeq DEF NewContext, Context, Bytes
  <1>2. SubSeq(NewContext.block, 1, 0) = <<>>
    BY SubSeqEmpty
  <1>3. <<>> \o <<>> = <<>> /\ Len(<<>>) = 0
    BY ConcatEmptySeq, EmptySeq
  <1>4. 0 % WORD = 0 /\ 0 % SHA_BLOCK = 0
    BY Constants
  <1> QED
    BY <1>1, <1>2, <1>3, <1>4 DEF Holds, NewContext

LEMMA MessageType == Message \subseteq Seq(Bytes)
  <1> SUFFICES ASSUME NEW n \in 0..MaxLen, NEW m \in [1..n -> Byte]
               PROVE  m \in Seq(Bytes)
    BY DEF Message
  <1>1. n \in Nat
    BY ByteAssumption
  <1>2. \A i \in 1..n : m[i] \in Bytes
    BY ByteAssumption
  <1> QED
    BY <1>1, <1>2, IsASeq

LEMMA UnpackType ==
    ASSUME NEW x \in Nat
    PROVE  Unpack(x) \in [1..LEN_BYTES -> Bytes]
  <1> SUFFICES ASSUME NEW j \in 1..LEN_BYTES
               PROVE  (x \div 256 ^ (LEN_BYTES - j)) % 256 \in Bytes
    BY DEF Unpack
  <1> DEFINE d == 256 ^ (LEN_BYTES - j)
  <1>1. d \in Nat \ {0}
    <2>1. LEN_BYTES - j \in 0..LEN_BYTES
      BY Constants
    <2> QED
      BY <2>1, WordAssumption
  <1> HIDE DEF d
  <1>2. x \div d \in Nat
    BY <1>1
  <1> QED
    BY <1>2 DEF d, Bytes

LEMMA PadType ==
    ASSUME NEW c \in Context
    PROVE  /\ Pad(c) \in Buffer
           /\ PadBlocks(c.len) \in {1, 2}
           /\ Final(c) \in Seq(Bytes)
  <1> DEFINE end == PadBlocks(c.len) * SHA_BLOCK
             len_b == Unpack(((c.tot + c.len) * 8) % WORD)
             p == Pad(c)
  <1>1. PadBlocks(c.len) \in {1, 2}
    BY DEF PadBlocks
  <1>2. end \in {SHA_BLOCK, 2 * SHA_BLOCK}
    BY <1>1, Constants
  <1>3. len_b \in [1..LEN_BYTES -> Bytes]
    <2>1. ((c.tot + c.len) * 8) % WORD \in Nat
      BY Constants DEF Context
    <2> QED
      BY <2>1, UnpackType
  <1>4. p = [i \in 1..(2 * SHA_BLOCK) |->
               IF i \in (end - LEN_BYTES + 1)..end
               THEN len_b[i - (end - LEN_BYTES)]
               ELSE IF i = c.len + 1 THEN 128
               ELSE IF i \in (c.len + 2)..end THEN 0
               ELSE c.block[i]]
    BY DEF Pad
  <1> HIDE DEF end, len_b, p
  <1>5. p \in Buffer
    <2> SUFFICES ASSUME NEW i \in 1..(2 * SHA_BLOCK)
                 PROVE  p[i] \in Bytes
      BY <1>4 DEF Buffer
    <2>3. c.block \in Buffer
      BY DEF Context, Buffer
    <2>4. c.block[i] \in Bytes
      BY <2>3 DEF Buffer
    <2>5. 128 \in Bytes /\ 0 \in Bytes
      BY DEF Bytes
    <2>1. c.block[i] \in Bytes /\ 128 \in Bytes /\ 0 \in Bytes
      BY <2>4, <2>5
    <2>2. ASSUME i \in (end - LEN_BYTES + 1)..end
          PROVE  len_b[i - (end - LEN_BYTES)] \in Bytes
      <3>1. i - (end - LEN_BYTES) \in 1..LEN_BYTES
        BY <1>2, <2>2, Constants
      <3> QED
        BY <1>3, <3>1
    <2> QED
      BY <1>4, <2>1, <2>2
  <1>6. SubSeq(p, 1, end) \in Seq(Bytes)
    <2>1. end \in Int /\ \A i \in 1..end : p[i] \in Bytes
      BY <1>2, <1>5, Constants DEF Buffer
    <2> QED
      BY <2>1, SubSeqProperties
  <1>7. c.h \in Seq(Bytes)
    BY DEF Context
  <1> QED
    BY <1>1, <1>5, <1>6, <1>7, Joined DEF Final, Transform, p, end

LEMMA StepSound ==
    ASSUME Sound, [Next]_vars
    PROVE  Sound'
  <1>1. ASSUME NEW m \in Message, UpdateCall(m) PROVE Sound'
    <2>1. m \in Seq(Bytes)
      BY MessageType
    <2>2. Holds(Update(ctx, m), msg \o m)
      BY <2>1, UpdateBuffers, UpdateCompresses DEF Sound
    <2>3. msg \o m \in Seq(Bytes)
      BY <2>1, Joined DEF Sound
    <2> QED
      BY <1>1, <2>2, <2>3 DEF UpdateCall, Sound, Holds
  <1>2. CASE FinalCall
    <2>1. Final(ctx) \in Seq(Bytes)
      BY PadType DEF Sound, Holds
    <2> QED
      BY <1>2, <2>1 DEF FinalCall, Sound, Holds
  <1>3. CASE NextCall
    BY <1>3, EmptyHolds, EmptySeq DEF NextCall, Sound, Holds
  <1>4. CASE UNCHANGED vars
    BY <1>4 DEF vars, Sound, Holds
  <1> QED
    BY <1>1, <1>2, <1>3, <1>4 DEF Next

LEMMA AlwaysSound == Spec => []Sound
  <1>1. Init => Sound
    BY EmptyHolds, EmptySeq DEF Init, Sound
  <1> QED
    BY <1>1, StepSound, PTL DEF Spec

\* A SHA256 object is always well typed: its buffer is never full between calls.
THEOREM ChecksumTypes == Spec => []TypeOK
  <1>1. Sound => TypeOK
    BY DEF Sound, Holds, TypeOK
  <1> QED
    BY <1>1, AlwaysSound, PTL

\* For blocks and messages of any size, however they are cut into updates: what
\* was compressed and what is buffered are together the message.
THEOREM BufferKeepsMessage == Spec => []NothingLost
  <1>1. Sound => NothingLost
    BY DEF Sound, Holds, NothingLost
  <1> QED
    BY <1>1, AlwaysSound, PTL

-----------------------------------------------------------------------------
(* What final hashes.                                                       *)

\* F is s, 0x80 and zeros up to the length's word, the last of a whole block.
Padded(F, s) ==
    /\ F \in Seq(Bytes)
    /\ Len(F) % SHA_BLOCK = 0
    /\ Len(s) + 1 + 2 * LEN_BYTES <= Len(F)
    /\ Len(F) < Len(s) + 1 + 2 * LEN_BYTES + SHA_BLOCK
    /\ \A i \in 1..Len(s) : F[i] = s[i]
    /\ F[Len(s) + 1] = 128
    /\ \A i \in (Len(s) + 2)..(Len(F) - LEN_BYTES) : F[i] = 0

\* F ends with the word x.
EndsWith(F, x) ==
    \A j \in 1..LEN_BYTES : F[Len(F) - LEN_BYTES + j] = Unpack(x)[j]

LEMMA PadRoom ==
    ASSUME NEW len \in 0..(SHA_BLOCK - 1)
    PROVE  LET end == PadBlocks(len) * SHA_BLOCK
           IN  /\ end \in {SHA_BLOCK, 2 * SHA_BLOCK}
               /\ len + 1 + 2 * LEN_BYTES <= end
               /\ end < len + 1 + 2 * LEN_BYTES + SHA_BLOCK
  <1>1. len % SHA_BLOCK = len
    BY Constants
  <1>2. PadBlocks(len) = IF SHA_BLOCK - (2 * LEN_BYTES + 1) < len THEN 2 ELSE 1
    BY <1>1 DEF PadBlocks
  <1> QED
    BY <1>2, Constants, PaddingFitsAssumption

\* What the buffer holds when final has padded it.
LEMMA PadBytes ==
    ASSUME NEW c \in Context
    PROVE  LET end == PadBlocks(c.len) * SHA_BLOCK
               F == SubSeq(Pad(c), 1, end)
           IN  /\ F \in Seq(Bytes) /\ Len(F) = end
               /\ \A i \in 1..c.len : F[i] = c.block[i]
               /\ F[c.len + 1] = 128
               /\ \A i \in (c.len + 2)..(end - LEN_BYTES) : F[i] = 0
               /\ EndsWith(F, ((c.tot + c.len) * 8) % WORD)
  <1> DEFINE end == PadBlocks(c.len) * SHA_BLOCK
             word == ((c.tot + c.len) * 8) % WORD
             len_b == Unpack(word)
             p == Pad(c)
             F == SubSeq(p, 1, end)
  <1>1. /\ c.len \in 0..(SHA_BLOCK - 1) /\ end \in {SHA_BLOCK, 2 * SHA_BLOCK}
        /\ c.len + 1 + 2 * LEN_BYTES <= end
    <2>1. c.len \in 0..(SHA_BLOCK - 1)
      BY DEF Context
    <2> QED
      BY <2>1, PadRoom
  <1>2. p = [i \in 1..(2 * SHA_BLOCK) |->
               IF i \in (end - LEN_BYTES + 1)..end
               THEN len_b[i - (end - LEN_BYTES)]
               ELSE IF i = c.len + 1 THEN 128
               ELSE IF i \in (c.len + 2)..end THEN 0
               ELSE c.block[i]]
    BY DEF Pad
  <1>3. p \in Buffer
    BY PadType
  <1> HIDE DEF end, len_b, p
  <1>4. F \in Seq(Bytes) /\ Len(F) = end /\ \A i \in 1..end : F[i] = p[i]
    <2>1. end \in Nat /\ \A i \in 1..end : p[i] \in Bytes
      BY <1>1, <1>3, Constants DEF Buffer
    <2> QED
      BY <2>1, SubSeqProperties
  <1> HIDE DEF F
  <1> DEFINE n == c.len
             rest == end - LEN_BYTES
  <1>9. /\ n \in Nat /\ rest \in Nat /\ end \in Nat
        /\ n < rest /\ rest <= end /\ end <= 2 * SHA_BLOCK
    BY <1>1, Constants
  <1>10. \A i \in 1..rest : F[i] = IF i = n + 1 THEN 128
                                  ELSE IF i \in (n + 2)..end THEN 0
                                  ELSE c.block[i]
    <2> HIDE DEF n, rest
    <2> SUFFICES ASSUME NEW i \in 1..rest
                 PROVE  F[i] = IF i = n + 1 THEN 128
                               ELSE IF i \in (n + 2)..end THEN 0 ELSE c.block[i]
      OBVIOUS
    <2>1. i \in 1..end /\ i \in 1..(2 * SHA_BLOCK) /\ ~(i \in (rest + 1)..end)
      BY <1>9, Constants
    <2>2. F[i] = p[i]
      BY <1>4, <2>1
    <2>3. p[i] = IF i \in (rest + 1)..end THEN len_b[i - rest]
                 ELSE IF i = n + 1 THEN 128
                 ELSE IF i \in (n + 2)..end THEN 0
                 ELSE c.block[i]
      BY <1>2, <2>1 DEF n, rest
    <2> QED
      BY <2>1, <2>2, <2>3
  <1> HIDE DEF n, rest
  <1>5. \A i \in 1..n : F[i] = c.block[i]
    BY <1>9, <1>10
  <1>6. F[n + 1] = 128
    BY <1>9, <1>10
  <1>7. \A i \in (n + 2)..rest : F[i] = 0
    BY <1>9, <1>10
  <1>8. ASSUME NEW j \in 1..LEN_BYTES
        PROVE  F[end - LEN_BYTES + j] = len_b[j]
    <2>1. /\ end - LEN_BYTES + j \in (end - LEN_BYTES + 1)..end
          /\ end - LEN_BYTES + j \in 1..(2 * SHA_BLOCK)
          /\ end - LEN_BYTES + j \in 1..end
          /\ (end - LEN_BYTES + j) - (end - LEN_BYTES) = j
      BY <1>1, Constants
    <2> QED
      BY <1>2, <1>4, <2>1
  <1> QED
    BY <1>4, <1>5, <1>6, <1>7, <1>8 DEF EndsWith, end, len_b, p, F, n, rest

\* final hashes what the object holds, padded.
LEMMA FinalPads ==
    ASSUME NEW c, NEW s \in Seq(Bytes), Holds(c, s)
    PROVE  /\ Padded(Final(c), s)
           /\ EndsWith(Final(c), ((c.tot + c.len) * 8) % WORD)
  <1> DEFINE h == c.h
             n == c.len
             end == PadBlocks(n) * SHA_BLOCK
             block == SubSeq(Pad(c), 1, end)
             head == SubSeq(c.block, 1, n)
             word == ((c.tot + c.len) * 8) % WORD
             F == Final(c)
  <1>1. /\ c \in Context /\ h \in Seq(Bytes) /\ n \in 0..(SHA_BLOCK - 1)
        /\ c.block \in Buffer /\ Len(h) \in Nat /\ Len(h) % SHA_BLOCK = 0
        /\ s = h \o head
    BY LenProperties DEF Holds, Context, Buffer
  <1>2. /\ end \in {SHA_BLOCK, 2 * SHA_BLOCK}
        /\ n + 1 + 2 * LEN_BYTES <= end
        /\ end < n + 1 + 2 * LEN_BYTES + SHA_BLOCK
    BY <1>1, PadRoom
  <1>3. /\ block \in Seq(Bytes) /\ Len(block) = end
        /\ \A i \in 1..n : block[i] = c.block[i]
        /\ block[n + 1] = 128
        /\ \A i \in (n + 2)..(end - LEN_BYTES) : block[i] = 0
        /\ EndsWith(block, word)
    BY <1>1, PadBytes
  <1>4. head \in Seq(Bytes) /\ Len(head) = n /\ \A i \in 1..n : head[i] = c.block[i]
    <2>1. n \in Nat /\ \A i \in 1..n : c.block[i] \in Bytes
      BY <1>1, Constants DEF Buffer
    <2> QED
      BY <2>1, SubSeqProperties
  <1>5. F = h \o block
    BY DEF Final, Transform
  <1> HIDE DEF h, n, end, block, head, word, F
  <1>6. /\ Len(s) = Len(h) + n
        /\ \A i \in 1..(Len(h) + n) :
             s[i] = IF i <= Len(h) THEN h[i] ELSE head[i - Len(h)]
    <2>1. h \in Seq(Bytes) /\ head \in Seq(Bytes)
      BY <1>1, <1>4
    <2>2. /\ Len(h \o head) = Len(h) + Len(head)
          /\ \A i \in 1..(Len(h) + Len(head)) :
               (h \o head)[i] = IF i <= Len(h) THEN h[i] ELSE head[i - Len(h)]
      BY <2>1, ConcatProperties
    <2> QED
      BY <1>1, <1>4, <2>2
  <1>7. /\ F \in Seq(Bytes) /\ Len(F) = Len(h) + end
        /\ \A i \in 1..(Len(h) + end) :
             F[i] = IF i <= Len(h) THEN h[i] ELSE block[i - Len(h)]
    <2>1. h \in Seq(Bytes) /\ block \in Seq(Bytes)
      BY <1>1, <1>3
    <2>2. /\ h \o block \in Seq(Bytes)
          /\ Len(h \o block) = Len(h) + Len(block)
          /\ \A i \in 1..(Len(h) + Len(block)) :
               (h \o block)[i] = IF i <= Len(h) THEN h[i] ELSE block[i - Len(h)]
      BY <2>1, ConcatProperties
    <2> QED
      BY <1>3, <1>5, <2>2
  <1> DEFINE k == Len(h)
             T == Len(F)
  <1>8. /\ k \in Nat /\ n \in Nat /\ end \in Nat /\ Len(s) = k + n /\ T = k + end
        /\ LEN_BYTES \in Nat \ {0} /\ n + 1 + 2 * LEN_BYTES <= end
        /\ end < n + 1 + 2 * LEN_BYTES + SHA_BLOCK
    BY <1>1, <1>2, <1>6, <1>7, Constants
  <1>9. T % SHA_BLOCK = 0
    <2>1. PICK q \in Nat : end = q * SHA_BLOCK
      <3>1. end = 1 * SHA_BLOCK \/ end = 2 * SHA_BLOCK
        BY <1>2, Constants
      <3> QED
        BY <3>1
    <2>2. (k + q * SHA_BLOCK) % SHA_BLOCK = 0
      <3>1. k \in Nat /\ k % SHA_BLOCK = 0 /\ SHA_BLOCK \in Nat \ {0}
        BY <1>1, Constants
      <3> HIDE DEF k
      <3> QED
        BY <3>1, AddMultiple
    <2> QED
      BY <1>8, <2>1, <2>2
  <1>10. \A i \in 1..(k + n) : F[i] = s[i]
    <2> SUFFICES ASSUME NEW i \in 1..(k + n)
                 PROVE  F[i] = s[i]
      OBVIOUS
    <2>1. i \in 1..(k + end) /\ (~(i <= k) => i - k \in 1..n)
      BY <1>8
    <2>2. /\ F[i] = IF i <= k THEN h[i] ELSE block[i - k]
          /\ s[i] = IF i <= k THEN h[i] ELSE head[i - k]
      BY <1>6, <1>7, <2>1
    <2>3. ~(i <= k) => block[i - k] = head[i - k]
      BY <1>3, <1>4, <2>1
    <2> QED
      BY <2>2, <2>3
  <1>11. \A i \in 1..end : F[k + i] = block[i]
    <2> SUFFICES ASSUME NEW i \in 1..end
                 PROVE  F[k + i] = block[i]
      OBVIOUS
    <2>1. k + i \in 1..(k + end) /\ ~(k + i <= k) /\ (k + i) - k = i
      BY <1>8
    <2> QED
      BY <1>7, <2>1
  <1>12. F[k + n + 1] = 128
    <2>1. n + 1 \in 1..end /\ k + n + 1 = k + (n + 1)
      BY <1>8
    <2> QED
      BY <1>3, <1>11, <2>1
  <1>13. \A i \in (k + n + 2)..(T - LEN_BYTES) : F[i] = 0
    <2> SUFFICES ASSUME NEW i \in (k + n + 2)..(T - LEN_BYTES)
                 PROVE  F[i] = 0
      OBVIOUS
    <2>1. /\ i - k \in (n + 2)..(end - LEN_BYTES) /\ i - k \in 1..end
          /\ k + (i - k) = i
      BY <1>8
    <2> QED
      BY <1>3, <1>11, <2>1
  <1>14. EndsWith(F, word)
    <2> SUFFICES ASSUME NEW j \in 1..LEN_BYTES
                 PROVE  F[T - LEN_BYTES + j] = Unpack(word)[j]
      BY DEF EndsWith
    <2>1. /\ end - LEN_BYTES + j \in 1..end
          /\ T - LEN_BYTES + j = k + (end - LEN_BYTES + j)
      BY <1>8
    <2>2. block[end - LEN_BYTES + j] = Unpack(word)[j]
      BY <1>3 DEF EndsWith
    <2> QED
      BY <1>11, <2>1, <2>2
  <1>15. Len(s) + 1 + 2 * LEN_BYTES <= T /\ T < Len(s) + 1 + 2 * LEN_BYTES + SHA_BLOCK
    BY <1>8, Constants
  <1>16. Padded(F, s)
    BY <1>7, <1>8, <1>9, <1>10, <1>12, <1>13, <1>15 DEF Padded
  <1> QED
    BY <1>14, <1>16 DEF F, word

\* What is padded can be read back: the last byte that is not zero, but for the
\* length's, ends the message.
LEMMA PaddedApart ==
    ASSUME NEW F, NEW s \in Seq(Bytes), NEW t \in Seq(Bytes),
           Padded(F, s), Padded(F, t)
    PROVE  s = t
  <1> DEFINE T == Len(F)
             m == Len(s)
             n == Len(t)
  <1>1. /\ T \in Nat /\ m \in Nat /\ n \in Nat /\ LEN_BYTES \in Nat \ {0}
        /\ m + 1 + 2 * LEN_BYTES <= T /\ n + 1 + 2 * LEN_BYTES <= T
        /\ F[m + 1] = 128 /\ F[n + 1] = 128
        /\ \A i \in (m + 2)..(T - LEN_BYTES) : F[i] = 0
        /\ \A i \in (n + 2)..(T - LEN_BYTES) : F[i] = 0
        /\ \A i \in 1..m : F[i] = s[i]
        /\ \A i \in 1..n : F[i] = t[i]
    BY Constants, LenProperties DEF Padded
  <1> HIDE DEF T, m, n
  <1>2. ~(m < n)
    BY <1>1
  <1>3. ~(n < m)
    BY <1>1
  <1>4. m = n
    BY <1>1, <1>2, <1>3
  <1>5. Len(s) = Len(t) /\ \A i \in 1..Len(s) : s[i] = t[i]
    BY <1>1, <1>4 DEF m, n
  <1> QED
    BY <1>5, SeqEqual

-----------------------------------------------------------------------------
(* The digest.                                                              *)

FinalDigest == digest # None => digest = Final(ctx)

LEMMA AlwaysDigest == Spec => []FinalDigest
  <1>1. FinalDigest /\ [Next]_vars => FinalDigest'
    BY DEF FinalDigest, Next, UpdateCall, FinalCall, NextCall, vars
  <1>2. Init => FinalDigest
    BY DEF Init, FinalDigest
  <1> QED
    BY <1>1, <1>2, PTL DEF Spec

LEMMA ShaPads ==
    ASSUME NEW m \in Message
    PROVE  m \in Seq(Bytes) /\ Padded(sha256(m), m)
  <1>1. m \in Seq(Bytes)
    BY MessageType
  <1>2. Holds(Update(NewContext, m), <<>> \o m)
    BY <1>1, EmptyHolds, UpdateBuffers, UpdateCompresses
  <1>3. <<>> \o m = m
    BY <1>1, ConcatEmptySeq
  <1> QED
    BY <1>1, <1>2, <1>3, FinalPads DEF sha256

\* Comparing digests is as good as comparing the data: two messages, of whatever
\* lengths and sent through update in whatever pieces, never pad to the same.
THEOREM DigestsTellApart == Spec => []TellsApart
  <1>1. ASSUME Sound, FinalDigest
        PROVE  TellsApart
    <2> SUFFICES ASSUME digest # None, NEW m \in Message, sha256(m) = digest
                 PROVE  m = msg
      BY DEF TellsApart, Digests
    <2>1. Padded(digest, msg)
      BY <1>1, FinalPads DEF Sound, FinalDigest
    <2>2. m \in Seq(Bytes) /\ Padded(digest, m)
      BY ShaPads
    <2>3. msg \in Seq(Bytes)
      BY <1>1 DEF Sound
    <2> QED
      BY <2>1, <2>2, <2>3, PaddedApart
  <1> QED
    BY <1>1, AlwaysSound, AlwaysDigest, PTL

\* There is one multiple of d in a window of d numbers.
LEMMA OneMultiple ==
    ASSUME NEW d \in Nat \ {0}, NEW w \in Nat, NEW a \in Nat, NEW b \in Nat,
           a % d = 0, b % d = 0, w <= a, w <= b, a < w + d, b < w + d
    PROVE  a = b
  <1> DEFINE p == a \div d
             q == b \div d
  <1>1. p \in Nat /\ q \in Nat /\ a = p * d /\ b = q * d
    OBVIOUS
  <1> HIDE DEF p, q
  <1>2. ASSUME p + 1 <= q PROVE p * d + d <= q * d
    BY <1>1, <1>2
  <1>3. ASSUME q + 1 <= p PROVE q * d + d <= p * d
    BY <1>1, <1>3
  <1>4. p = q
    BY <1>1, <1>2, <1>3
  <1> QED
    BY <1>1, <1>4

LEMMA WholeLength ==
    ASSUME NEW m \in Nat, NEW T \in Nat, T % SHA_BLOCK = 0,
           m + 1 + 2 * LEN_BYTES <= T, T < m + 1 + 2 * LEN_BYTES + SHA_BLOCK
    PROVE  T = CHOOSE n \in 1..(m + 2 * SHA_BLOCK) :
                 /\ n % SHA_BLOCK = 0 /\ n >= m + 1 + 2 * LEN_BYTES
                 /\ n < m + 1 + 2 * LEN_BYTES + SHA_BLOCK
  <1> DEFINE Fit(n) == /\ n % SHA_BLOCK = 0 /\ n >= m + 1 + 2 * LEN_BYTES
                       /\ n < m + 1 + 2 * LEN_BYTES + SHA_BLOCK
             w == m + 1 + 2 * LEN_BYTES
             top == m + 2 * SHA_BLOCK
  <1>1. w \in Nat
    BY Constants
  <1>2. T \in 1..top /\ Fit(T)
    BY Constants, PaddingFitsAssumption
  <1>3. ASSUME NEW n \in 1..top, Fit(n)
        PROVE  n = T
    <2>1. n \in Nat /\ n % SHA_BLOCK = 0 /\ w <= n /\ n < w + SHA_BLOCK
      BY <1>1, <1>3
    <2>2. w <= T /\ T < w + SHA_BLOCK
      OBVIOUS
    <2>3. SHA_BLOCK \in Nat \ {0}
      BY Constants
    <2> HIDE DEF w
    <2> QED
      BY <1>1, <2>1, <2>2, <2>3, OneMultiple
  <1> HIDE DEF top, Fit
  <1>4. T = CHOOSE n \in 1..top : Fit(n)
    BY <1>2, <1>3
  <1> QED
    BY <1>4 DEF top, Fit

LEMMA StandardPads ==
    ASSUME NEW F, NEW s \in Seq(Bytes), Padded(F, s), EndsWith(F, 8 * Len(s))
    PROVE  F = Standard(s)
  <1> DEFINE T == Len(F)
             m == Len(s)
             z == T - m - 1 - LEN_BYTES
             zeros == [i \in 1..z |-> 0]
             word == Unpack(8 * m)
             S1 == s \o <<128>>
             S2 == S1 \o zeros
             S3 == S2 \o word
  <1>1. /\ T \in Nat /\ m \in Nat /\ LEN_BYTES \in Nat \ {0} /\ F \in Seq(Bytes)
        /\ m + 1 + 2 * LEN_BYTES <= T /\ T < m + 1 + 2 * LEN_BYTES + SHA_BLOCK
        /\ T % SHA_BLOCK = 0 /\ F[m + 1] = 128
        /\ \A i \in (m + 2)..(T - LEN_BYTES) : F[i] = 0
        /\ \A i \in 1..m : F[i] = s[i]
    BY Constants, LenProperties DEF Padded
  <1>2. Standard(s) = S3
    BY <1>1, WholeLength DEF Standard
  <1> HIDE DEF T, m
  <1>3. z \in Nat /\ m + 1 + z = T - LEN_BYTES /\ m + 1 + z + LEN_BYTES = T
    BY <1>1
  <1> HIDE DEF z
  <1>4. <<128>> \in Seq(Bytes) /\ Len(<<128>>) = 1 /\ <<128>>[1] = 128
    BY DEF Bytes
  <1>0. LEN_BYTES \in Nat
    BY <1>1
  <1>5. zeros \in Seq(Bytes) /\ Len(zeros) = z /\ \A i \in 1..z : zeros[i] = 0
    <2>1. \A i \in 1..z : 0 \in Bytes
      BY DEF Bytes
    <2>2. zeros \in Seq(Bytes)
      BY <1>3, <2>1, IsASeq
    <2> QED
      BY <1>3, <2>2, LenProperties
  <1>6. word \in Seq(Bytes) /\ Len(word) = LEN_BYTES
    <2>1. word \in [1..LEN_BYTES -> Bytes]
      BY <1>1, UnpackType
    <2>2. word \in Seq(Bytes)
      <3>1. \A i \in 1..LEN_BYTES : word[i] \in Bytes
        BY <2>1
      <3>2. [i \in 1..LEN_BYTES |-> word[i]] \in Seq(Bytes)
        BY <1>0, <3>1, IsASeq
      <3>3. word = [i \in 1..LEN_BYTES |-> word[i]]
        BY <2>1
      <3> QED
        BY <3>2, <3>3, Zenon
    <2> HIDE DEF word
    <2> QED
      BY <1>1, <2>1, <2>2, LenProperties
  <1> HIDE DEF zeros, word, S1, S2, S3
  <1>7. /\ S1 \in Seq(Bytes) /\ Len(S1) = m + 1 /\ S1[m + 1] = 128
        /\ \A i \in 1..m : S1[i] = s[i]
    <2>1. /\ S1 \in Seq(Bytes) /\ Len(S1) = m + Len(<<128>>)
          /\ \A i \in 1..(m + Len(<<128>>)) :
               S1[i] = IF i <= m THEN s[i] ELSE <<128>>[i - m]
      BY <1>4, ConcatProperties DEF S1, m
    <2>2. m + 1 \in 1..(m + 1) /\ ~(m + 1 <= m) /\ (m + 1) - m = 1
      BY <1>1
    <2>3. \A i \in 1..m : i \in 1..(m + 1) /\ i <= m
      BY <1>1
    <2> QED
      BY <1>4, <2>1, <2>2, <2>3
  <1>8. /\ S2 \in Seq(Bytes) /\ Len(S2) = m + 1 + z
        /\ \A i \in 1..(m + 1) : S2[i] = S1[i]
        /\ \A i \in (m + 2)..(m + 1 + z) : S2[i] = 0
    <2>1. /\ S2 \in Seq(Bytes) /\ Len(S2) = Len(S1) + Len(zeros)
          /\ \A i \in 1..(Len(S1) + Len(zeros)) :
               S2[i] = IF i <= Len(S1) THEN S1[i] ELSE zeros[i - Len(S1)]
      <3>1. S1 \in Seq(Bytes) /\ zeros \in Seq(Bytes)
        BY <1>5, <1>7
      <3> QED
        BY <3>1, ConcatProperties DEF S2
    <2>2. \A i \in (m + 2)..(m + 1 + z) :
            i \in 1..(m + 1 + z) /\ ~(i <= m + 1) /\ i - (m + 1) \in 1..z
      BY <1>1, <1>3
    <2>3. \A i \in 1..(m + 1) : i \in 1..(m + 1 + z) /\ i <= m + 1
      BY <1>1, <1>3
    <2>4. \A i \in 1..(m + 1 + z) : S2[i] = IF i <= m + 1 THEN S1[i]
                                                           ELSE zeros[i - (m + 1)]
      BY <1>5, <1>7, <2>1
    <2> QED
      BY <1>5, <1>7, <2>1, <2>2, <2>3, <2>4
  <1>9. /\ S3 \in Seq(Bytes) /\ Len(S3) = T
        /\ \A i \in 1..(T - LEN_BYTES) : S3[i] = S2[i]
        /\ \A j \in 1..LEN_BYTES : S3[T - LEN_BYTES + j] = word[j]
    <2>1. /\ S3 \in Seq(Bytes) /\ Len(S3) = Len(S2) + Len(word)
          /\ \A i \in 1..(Len(S2) + Len(word)) :
               S3[i] = IF i <= Len(S2) THEN S2[i] ELSE word[i - Len(S2)]
      BY <1>6, <1>8, ConcatProperties DEF S3
    <2> DEFINE k == T - LEN_BYTES
    <2>2. k \in Nat /\ Len(S2) = k /\ k + LEN_BYTES = T
      BY <1>1, <1>3, <1>8
    <2> HIDE DEF k
    <2>3. \A i \in 1..(k + LEN_BYTES) : S3[i] = IF i <= k THEN S2[i] ELSE word[i - k]
      BY <1>6, <2>1, <2>2
    <2>4. \A j \in 1..LEN_BYTES :
            k + j \in 1..(k + LEN_BYTES) /\ ~(k + j <= k) /\ (k + j) - k = j
      BY <1>1, <2>2
    <2>5. \A i \in 1..k : i \in 1..(k + LEN_BYTES) /\ i <= k
      BY <1>1, <2>2
    <2>6. \A j \in 1..LEN_BYTES : S3[k + j] = word[j]
      BY <2>3, <2>4
    <2>7. \A i \in 1..k : S3[i] = S2[i]
      BY <2>3, <2>5
    <2> QED
      BY <1>6, <2>1, <2>2, <2>6, <2>7 DEF k
  <1>10. \A i \in 1..T : F[i] = S3[i]
    <2> SUFFICES ASSUME NEW i \in 1..T
                 PROVE  F[i] = S3[i]
      OBVIOUS
    <2>1. CASE i \in 1..m
      <3>1. i \in 1..(m + 1) /\ i \in 1..(T - LEN_BYTES)
        BY <1>1, <1>3, <2>1
      <3> QED
        BY <1>1, <1>7, <1>8, <1>9, <2>1, <3>1, SMTT(30)
    <2>2. CASE i = m + 1
      <3>1. i \in 1..(m + 1) /\ i \in 1..(T - LEN_BYTES)
        BY <1>1, <1>3, <2>2
      <3> QED
        BY <1>1, <1>7, <1>8, <1>9, <2>2, <3>1
    <2>3. CASE i \in (m + 2)..(T - LEN_BYTES)
      <3>1. i \in (m + 2)..(m + 1 + z) /\ i \in 1..(T - LEN_BYTES)
        BY <1>1, <1>3, <2>3
      <3> QED
        BY <1>1, <1>8, <1>9, <2>3, <3>1
    <2>4. CASE i > T - LEN_BYTES
      <3>1. PICK j \in 1..LEN_BYTES : i = T - LEN_BYTES + j
        <4>1. i - (T - LEN_BYTES) \in 1..LEN_BYTES
              /\ i = T - LEN_BYTES + (i - (T - LEN_BYTES))
          BY <1>1, <2>4
        <4> QED
          BY <4>1
      <3>2. F[i] = word[j]
        BY <3>1 DEF EndsWith, T, m, word
      <3> QED
        BY <1>9, <3>1, <3>2
    <2> QED
      BY <1>1, <2>1, <2>2, <2>3, <2>4
  <1> QED
    BY <1>1, <1>2, <1>9, <1>10, SeqEqual DEF T

\* The length in bits, while an unsigned int can hold it.
LEMMA LengthWord ==
    ASSUME NEW c, NEW s \in Seq(Bytes), Holds(c, s), 8 * Len(s) < WORD
    PROVE  ((c.tot + c.len) * 8) % WORD = 8 * Len(s)
  <1>1. /\ c.h \in Seq(Bytes) /\ c.len \in 0..(SHA_BLOCK - 1) /\ c.block \in Buffer
        /\ c.tot = Len(c.h) % WORD
    BY DEF Holds, Context, Buffer
  <1>2. /\ SubSeq(c.block, 1, c.len) \in Seq(Bytes)
        /\ Len(SubSeq(c.block, 1, c.len)) = c.len
    <2>1. c.len \in Nat /\ \A i \in 1..c.len : c.block[i] \in Bytes
      BY <1>1, Constants DEF Buffer
    <2> QED
      BY <2>1, SubSeqProperties
  <1>3. Len(s) = Len(c.h) + c.len /\ Len(c.h) \in Nat
    BY <1>1, <1>2, Joined DEF Holds
  <1> DEFINE k == Len(c.h)
             n == c.len
             m == Len(s)
  <1>4. k \in Nat /\ n \in Nat /\ m = k + n /\ 8 * m < WORD /\ WORD \in Nat \ {0}
    BY <1>1, <1>3, Constants
  <1>5. c.tot = k % WORD
    BY <1>1
  <1> HIDE DEF k, n, m
  <1>6. k % WORD = k
    BY <1>4
  <1>7. (k + n) * 8 = 8 * m /\ 8 * m \in 0..(WORD - 1)
    BY <1>4
  <1>8. (8 * m) % WORD = 8 * m
    BY <1>4
  <1> QED
    BY <1>5, <1>6, <1>7, <1>8 DEF n, m

\* final pads as the standard says, in whatever state update left the buffer, for
\* every message whose bits an unsigned int can count.
THEOREM DigestsAreStandard == Spec => []DigestIsStandard
  <1>1. ASSUME Sound, FinalDigest
        PROVE  DigestIsStandard
    <2> SUFFICES ASSUME digest # None, 8 * Len(msg) < WORD
                 PROVE  digest = Standard(msg)
      BY DEF DigestIsStandard
    <2>1. digest = Final(ctx) /\ msg \in Seq(Bytes) /\ Holds(ctx, msg)
      BY <1>1 DEF Sound, FinalDigest
    <2>2. Padded(digest, msg) /\ EndsWith(digest, 8 * Len(msg))
      BY <2>1, FinalPads, LengthWord
    <2> QED
      BY <2>1, <2>2, StandardPads
  <1> QED
    BY <1>1, AlwaysSound, AlwaysDigest, PTL
=============================================================================

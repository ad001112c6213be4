-------------------------- MODULE BlockStoreProofs --------------------------
(* Facts about the operators of BlockStore, for every block size.          *)
EXTENDS BlockStore, SequenceTheorems, TLAPS

USE DEF Offset

\* Every block an address touches is one of the store's blocks.
LEMMA BlocksOfType ==
    ASSUME NEW addr \in Addr
    PROVE  /\ addr \in Nat
           /\ BlocksOf(addr) \subseteq Block
           /\ GetBlockNumber(addr) \in BlocksOf(addr)
           /\ ~IsAlligned(addr) => GetBlockNumber(addr) + 1 \in BlocksOf(addr)
BY AddrAssumption, IntMaxAssumption DEF BlocksOf, Block

\* Block numbers are natural numbers, and an address splits into a block
\* number and an offset inside the block.
LEMMA BlockNumberType ==
    ASSUME NEW addr \in Addr
    PROVE  /\ GetBlockNumber(addr) \in Nat
           /\ addr % BLOCK_SIZE \in Offset
  <1>1. addr \in Nat
    BY BlocksOfType
  <1> QED
    BY <1>1, BlockSizeAssumption DEF GetBlockNumber

LEMMA BlockType == Block \subseteq Nat
BY BlockNumberType DEF Block, BlocksOf

LEMMA ZerosType == Zeros \in Content
BY ByteAssumption DEF Zeros, Content

\* Reading a whole block gives a block of bytes, whether or not its file exists.
LEMMA AllignedReadType ==
    ASSUME NEW files \in Files, NEW n \in Block
    PROVE  AllignedRead(files, n) \in Content
BY ZerosType DEF Files, AllignedRead

\* A read always returns BLOCK_SIZE bytes, at any address.
LEMMA ReadType ==
    ASSUME NEW files \in Files, NEW addr \in Addr
    PROVE  Read(files, addr) \in Content
  <1> DEFINE first == GetBlockNumber(addr)
             loc == addr % BLOCK_SIZE
             size == BLOCK_SIZE - loc
  <1>1. first \in Block
    BY BlocksOfType
  <1>2. CASE IsAlligned(addr)
    BY <1>1, <1>2, AllignedReadType DEF Read
  <1>3. CASE ~IsAlligned(addr)
    <2>1. first + 1 \in Block
      BY <1>3, BlocksOfType
    <2>2. AllignedRead(files, first) \in Content /\
          AllignedRead(files, first + 1) \in Content
      BY <1>1, <2>1, AllignedReadType
    <2>3. loc \in Offset
      BY BlockNumberType
    <2>4. ASSUME NEW i \in Offset
          PROVE  (IF i < size THEN AllignedRead(files, first)[loc + i]
                              ELSE AllignedRead(files, first + 1)[i - size])
                   \in Byte
      <3>1. CASE i < size
        <4>1. loc + i \in Offset
          BY <3>1, <2>3, BlockSizeAssumption
        <4> QED
          BY <3>1, <4>1, <2>2 DEF Content
      <3>2. CASE ~(i < size)
        <4>1. i - size \in Offset
          BY <3>2, <2>3, BlockSizeAssumption
        <4> QED
          BY <3>2, <4>1, <2>2 DEF Content
      <3> QED
        BY <3>1, <3>2
    <2> QED
      BY <1>3, <2>4 DEF Read, UnallignedRead, Content
  <1> QED
    BY <1>2, <1>3

\* Staging keeps the store a store and leaves every committed block alone.
LEMMA WriteType ==
    ASSUME NEW store \in Store, NEW addr \in Addr, NEW data \in Content
    PROVE  /\ Write(store, addr, data) \in Store
           /\ Write(store, addr, data).blk = store.blk
  <1> DEFINE first == GetBlockNumber(addr)
             loc == addr % BLOCK_SIZE
             size == BLOCK_SIZE - loc
             head == AllignedRead(store.blk, first)
             tail == SecondBase(store.blk, first + 1)
             new1 == [i \in Offset |-> IF i < loc THEN head[i] ELSE data[i - loc]]
             new2 == [i \in Offset |-> IF i < loc THEN data[size + i] ELSE tail[i]]
  <1>1. first \in Block
    BY BlocksOfType
  <1>2. CASE IsAlligned(addr)
    BY <1>1, <1>2 DEF Write, AllignedWrite, Store, Files
  <1>3. CASE ~IsAlligned(addr)
    <2>1. first + 1 \in Block
      BY <1>3, BlocksOfType
    <2>2. head \in Content /\ tail \in Content
      BY <1>1, <2>1, AllignedReadType, ZerosType DEF SecondBase, Store
    <2>3. loc \in Offset
      BY BlockNumberType
    <2>4. new1 \in Content
      <3>1. ASSUME NEW i \in Offset, ~(i < loc)
            PROVE  i - loc \in Offset
        BY <3>1, <2>3, BlockSizeAssumption
      <3> QED
        BY <3>1, <2>2 DEF Content
    <2>5. new2 \in Content
      <3>1. ASSUME NEW i \in Offset, i < loc
            PROVE  size + i \in Offset
        BY <3>1, <2>3, BlockSizeAssumption
      <3> QED
        BY <3>1, <2>2 DEF Content
    <2> DEFINE tmp == [store.tmp EXCEPT ![first] = new1, ![first + 1] = new2]
    <2>6. Write(store, addr, data) = [store EXCEPT !.tmp = tmp]
      BY <1>3 DEF Write, UnallignedWrite
    <2> HIDE DEF new1, new2, first
    <2>7. tmp \in Files
      BY <1>1, <2>1, <2>4, <2>5 DEF Store, Files
    <2> HIDE DEF tmp
    <2> QED
      BY <2>6, <2>7 DEF Store
  <1> QED
    BY <1>2, <1>3

\* A commit is a nonempty sequence of operations on the store's own blocks.
LEMMA CommitType ==
    ASSUME NEW addr \in Addr
    PROVE  Commit(addr) \in Seq(FileOp) /\ Commit(addr) # <<>>
  <1> DEFINE n == GetBlockNumber(addr)
  <1>1. ASSUME NEW b \in Block
        PROVE  /\ CommitBlockOps(b) \in Seq(FileOp)
               /\ Len(CommitBlockOps(b)) = 2
    BY DEF CommitBlockOps, FileOp
  <1>2. n \in Block
    BY BlocksOfType
  <1>3. CASE IsAlligned(addr)
    BY <1>1, <1>2, <1>3 DEF Commit
  <1>4. CASE ~IsAlligned(addr)
    <2>1. n + 1 \in Block
      BY <1>4, BlocksOfType
    <2> QED
      BY <1>1, <1>2, <1>4, <2>1 DEF Commit
  <1> QED
    BY <1>3, <1>4

\* A file operation keeps the store a store.
LEMMA ApplyType ==
    ASSUME NEW store \in Store, NEW op \in FileOp
    PROVE  Apply(store, op) \in Store
BY DEF Store, Files, FileOp, Apply, Remove, Rename

-----------------------------------------------------------------------------
(* What a write stages and a commit moves.                                  *)

\* Block n with old in it, after a write of data at addr.
Over(old, addr, data, n) ==
    [i \in Offset |-> LET at == n * BLOCK_SIZE + i
                      IN  IF at - addr \in Offset THEN data[at - addr]
                          ELSE IF at > INT_MAX THEN 0
                          ELSE old[i]]

\* The bytes of block n that a write of data at addr sets.
Carries(content, addr, data, n) ==
    \A i \in Offset : LET at == n * BLOCK_SIZE + i
                      IN  at - addr \in Offset => content[i] = data[at - addr]

\* What a commit has left to do, after any number of its operations.
Rests(addr) ==
    LET n == GetBlockNumber(addr)
    IN  IF IsAlligned(addr)
        THEN { << <<"remove", n>>, <<"rename", n>> >>, << <<"rename", n>> >> }
        ELSE { << <<"remove", n>>, <<"rename", n>>,
                  <<"remove", n + 1>>, <<"rename", n + 1>> >>,
               << <<"rename", n>>, <<"remove", n + 1>>, <<"rename", n + 1>> >>,
               << <<"remove", n + 1>>, <<"rename", n + 1>> >>,
               << <<"rename", n + 1>> >> }

ToRemove(todo) == {n \in Block : \E i \in DOMAIN todo : todo[i] = <<"remove", n>>}
ToRename(todo) == {n \in Block : \E i \in DOMAIN todo : todo[i] = <<"rename", n>>}

LEMMA JoinPairs ==
    ASSUME NEW S, NEW a \in S, NEW b \in S, NEW c \in S, NEW d \in S
    PROVE  <<a, b>> \o <<c, d>> = <<a, b, c, d>>
  <1> DEFINE s == <<a, b>> \o <<c, d>>
             t == <<a, b, c, d>>
  <1>1. <<a, b>> \in Seq(S) /\ <<c, d>> \in Seq(S) /\ t \in Seq(S)
    OBVIOUS
  <1>2. s \in Seq(S) /\ Len(s) = 4
    BY <1>1
  <1>3. s[1] = a /\ s[2] = b /\ s[3] = c /\ s[4] = d
    BY <1>1
  <1>4. Len(t) = 4 /\ t[1] = a /\ t[2] = b /\ t[3] = c /\ t[4] = d
    OBVIOUS
  <1> HIDE DEF s, t
  <1>5. \A i \in 1..4 : s[i] = t[i]
    BY <1>3, <1>4
  <1> QED
    BY <1>1, <1>2, <1>4, <1>5, SeqEqual DEF s, t

LEMMA CommitRest ==
    ASSUME NEW addr \in Addr
    PROVE  /\ Commit(addr) \in Rests(addr)
           /\ ToRemove(Commit(addr)) = BlocksOf(addr)
           /\ ToRename(Commit(addr)) = BlocksOf(addr)
  <1> DEFINE n == GetBlockNumber(addr)
  <1>1. /\ n \in Nat /\ n \in Block
        /\ ~IsAlligned(addr) => n + 1 \in Block
    BY BlocksOfType, BlockNumberType
  <1>2. CASE IsAlligned(addr)
    <2>1. Commit(addr) = << <<"remove", n>>, <<"rename", n>> >>
      BY <1>2 DEF Commit, CommitBlockOps
    <2>2. BlocksOf(addr) = {n}
      BY <1>2 DEF BlocksOf
    <2> QED
      BY <1>1, <1>2, <2>1, <2>2 DEF Rests, ToRemove, ToRename
  <1>3. CASE ~IsAlligned(addr)
    <2>1. Commit(addr) = << <<"remove", n>>, <<"rename", n>>,
                            <<"remove", n + 1>>, <<"rename", n + 1>> >>
      <3>1. /\ <<"remove", n>> \in FileOp /\ <<"rename", n>> \in FileOp
            /\ <<"remove", n + 1>> \in FileOp /\ <<"rename", n + 1>> \in FileOp
        BY <1>1, <1>3 DEF FileOp
      <3>2. Commit(addr) = CommitBlockOps(n) \o CommitBlockOps(n + 1)
        BY <1>3 DEF Commit
      <3> HIDE DEF n
      <3> QED
        BY <3>1, <3>2, JoinPairs DEF CommitBlockOps
    <2>2. BlocksOf(addr) = {n, n + 1}
      BY <1>3 DEF BlocksOf
    <2> QED
      BY <1>1, <1>3, <2>1, <2>2 DEF Rests, ToRemove, ToRename
  <1> QED
    BY <1>2, <1>3

\* The next operation of a commit removes a block it has staged, or renames one
\* it has removed.
LEMMA RestStep ==
    ASSUME NEW addr \in Addr, NEW todo \in Rests(addr)
    PROVE  LET n == Head(todo)[2]
           IN  /\ ToRemove(todo) \subseteq ToRename(todo)
               /\ ToRename(todo) \subseteq BlocksOf(addr)
               /\ n \in ToRename(todo)
               /\ Len(todo) = 1 => ToRename(todo) = {n}
               /\ Len(todo) # 1 => Tail(todo) \in Rests(addr)
               /\ \/ /\ Head(todo) = <<"remove", n>>
                     /\ Len(todo) # 1
                     /\ Head(Tail(todo)) = <<"rename", n>>
                     /\ n \in ToRemove(todo)
                     /\ ToRemove(Tail(todo)) = ToRemove(todo) \ {n}
                     /\ ToRename(Tail(todo)) = ToRename(todo)
                  \/ /\ Head(todo) = <<"rename", n>>
                     /\ n \notin ToRemove(todo)
                     /\ ToRename(todo) = ToRemove(todo) \cup {n}
                     /\ Len(todo) # 1 =>
                          /\ Head(Tail(todo))[1] = "remove"
                          /\ ToRemove(Tail(todo)) = ToRemove(todo)
                          /\ ToRename(Tail(todo)) = ToRename(todo) \ {n}
  <1> DEFINE n == GetBlockNumber(addr)
             m == n + 1
             Rn == <<"remove", n>>
             Nn == <<"rename", n>>
             Rm == <<"remove", m>>
             Nm == <<"rename", m>>
  <1>1. n \in Nat /\ n \in Block /\ (~IsAlligned(addr) => m \in Block)
    BY BlocksOfType, BlockNumberType
  <1>2. IsAlligned(addr) => BlocksOf(addr) = {n}
    BY DEF BlocksOf
  <1>3. ~IsAlligned(addr) => BlocksOf(addr) = {n, m}
    BY DEF BlocksOf
  <1>4. IsAlligned(addr) => Rests(addr) = {<<Rn, Nn>>, <<Nn>>}
    BY DEF Rests
  <1>5. ~IsAlligned(addr) =>
          Rests(addr) = {<<Rn, Nn, Rm, Nm>>, <<Nn, Rm, Nm>>, <<Rm, Nm>>, <<Nm>>}
    BY DEF Rests
  <1>6. n # m
    BY <1>1
  <1> HIDE DEF n, m
  <1>7. /\ Tail(<<Rn, Nn>>) = <<Nn>> /\ Tail(<<Rm, Nm>>) = <<Nm>>
        /\ Tail(<<Rn, Nn, Rm, Nm>>) = <<Nn, Rm, Nm>>
        /\ Tail(<<Nn, Rm, Nm>>) = <<Rm, Nm>>
    OBVIOUS
  <1>8. ASSUME n \in Block
        PROVE  /\ ToRemove(<<Rn, Nn>>) = {n} /\ ToRename(<<Rn, Nn>>) = {n}
               /\ ToRemove(<<Nn>>) = {} /\ ToRename(<<Nn>>) = {n}
    BY <1>8 DEF ToRemove, ToRename
  <1>9. ASSUME m \in Block
        PROVE  /\ ToRemove(<<Rm, Nm>>) = {m} /\ ToRename(<<Rm, Nm>>) = {m}
               /\ ToRemove(<<Nm>>) = {} /\ ToRename(<<Nm>>) = {m}
    BY <1>9 DEF ToRemove, ToRename
  <1>10. ASSUME n \in Block, m \in Block
         PROVE  /\ ToRemove(<<Rn, Nn, Rm, Nm>>) = {n, m}
                /\ ToRename(<<Rn, Nn, Rm, Nm>>) = {n, m}
                /\ ToRemove(<<Nn, Rm, Nm>>) = {m}
                /\ ToRename(<<Nn, Rm, Nm>>) = {n, m}
    BY <1>10 DEF ToRemove, ToRename
  <1>11. CASE IsAlligned(addr) /\ todo = <<Rn, Nn>>
    <2>1. Head(todo) = Rn /\ Len(todo) = 2 /\ Tail(todo) = <<Nn>>
      BY <1>7, <1>11
    <2> QED
      BY <1>1, <1>2, <1>4, <1>8, <1>11, <2>1
  <1>12. CASE IsAlligned(addr) /\ todo = <<Nn>>
    BY <1>1, <1>2, <1>8, <1>12
  <1>13. CASE ~IsAlligned(addr) /\ todo = <<Rn, Nn, Rm, Nm>>
    <2>1. Head(todo) = Rn /\ Len(todo) = 4 /\ Tail(todo) = <<Nn, Rm, Nm>>
      BY <1>7, <1>13
    <2>2. /\ ToRemove(todo) = {n, m} /\ ToRemove(Tail(todo)) = {m}
          /\ ToRename(todo) = {n, m} /\ ToRename(Tail(todo)) = {n, m}
      BY <1>1, <1>10, <1>13, <2>1
    <2>3. Tail(todo) \in Rests(addr) /\ Head(Tail(todo)) = Nn
      BY <1>5, <1>13, <2>1
    <2>4. Head(todo)[2] = n /\ BlocksOf(addr) = {n, m} /\ {n, m} \ {n} = {m}
      BY <1>3, <1>6, <1>13, <2>1
    <2>5. /\ Head(todo) = <<"remove", n>> /\ Len(todo) # 1
          /\ Head(Tail(todo)) = <<"rename", n>>
      BY <2>1, <2>3
    <2> HIDE DEF Rn, Nn, Rm, Nm
    <2>6. /\ ToRemove(Tail(todo)) = ToRemove(todo) \ {n}
          /\ ToRename(Tail(todo)) = ToRename(todo)
          /\ n \in ToRemove(todo) /\ n \in ToRename(todo)
          /\ ToRemove(todo) \subseteq ToRename(todo)
          /\ ToRename(todo) \subseteq BlocksOf(addr)
      BY <2>2, <2>4
    <2> QED
      BY <2>3, <2>4, <2>5, <2>6
  <1>14. CASE ~IsAlligned(addr) /\ todo = <<Nn, Rm, Nm>>
    BY <1>1, <1>3, <1>5, <1>6, <1>7, <1>9, <1>10, <1>14
  <1>15. CASE ~IsAlligned(addr) /\ todo = <<Rm, Nm>>
    BY <1>1, <1>3, <1>5, <1>6, <1>7, <1>9, <1>15
  <1>16. CASE ~IsAlligned(addr) /\ todo = <<Nm>>
    BY <1>1, <1>3, <1>5, <1>6, <1>7, <1>9, <1>16
  <1> QED
    BY <1>4, <1>5, <1>11, <1>12, <1>13, <1>14, <1>15, <1>16

\* An address is its offset past the start of its block.
LEMMA Place ==
    ASSUME NEW addr \in Addr
    PROVE  LET n   == GetBlockNumber(addr)
               loc == addr % BLOCK_SIZE
           IN  /\ n \in Nat /\ loc \in Offset /\ n * BLOCK_SIZE \in Nat
               /\ addr = n * BLOCK_SIZE + loc
               /\ (n + 1) * BLOCK_SIZE = n * BLOCK_SIZE + BLOCK_SIZE
               /\ IsAlligned(addr) => loc = 0
  BY BlocksOfType, BlockNumberType, BlockSizeAssumption
     DEF GetBlockNumber, IsAlligned

\* A block lies past INT_MAX as a whole or not at all.
LEMMA PastMax ==
    ASSUME NEW n \in Nat, NEW i \in Offset
    PROVE  n * BLOCK_SIZE + i > INT_MAX <=> n * BLOCK_SIZE > INT_MAX
  <1> DEFINE w == (INT_MAX + 1) \div BLOCK_SIZE
             p == n * BLOCK_SIZE
             q == w * BLOCK_SIZE
  <1>1. w \in Nat /\ INT_MAX + 1 = w * BLOCK_SIZE
    BY IntMaxAssumption, IntMaxBlockAssumption, BlockSizeAssumption
  <1> HIDE DEF w
  <1>2. p \in Nat /\ INT_MAX + 1 = q
    BY <1>1, BlockSizeAssumption
  <1>3. ASSUME n + 1 <= w PROVE p + BLOCK_SIZE <= q
    BY <1>1, <1>3, BlockSizeAssumption
  <1>4. ASSUME w <= n PROVE q <= p
    BY <1>1, <1>4, BlockSizeAssumption
  <1> HIDE DEF p, q
  <1>5. CASE n + 1 <= w
    <2>1. ~(p + i > INT_MAX) /\ ~(p > INT_MAX)
      BY <1>2, <1>3, <1>5, BlockSizeAssumption, IntMaxAssumption
    <2> QED
      BY <2>1 DEF p
  <1>6. CASE w <= n
    <2>1. p + i > INT_MAX /\ p > INT_MAX
      BY <1>2, <1>4, <1>6, BlockSizeAssumption, IntMaxAssumption
    <2> QED
      BY <2>1 DEF p
  <1> QED
    BY <1>1, <1>5, <1>6

\* Staging puts each block as the write will leave it, and no other block.
LEMMA WriteStages ==
    ASSUME NEW st \in Store, NEW addr \in Addr, NEW data \in Content
    PROVE  /\ \A n \in BlocksOf(addr) :
                Write(st, addr, data).tmp[n]
                  = Over(AllignedRead(st.blk, n), addr, data, n)
           /\ \A n \in Block \ BlocksOf(addr) :
                Write(st, addr, data).tmp[n] = st.tmp[n]
  <1> DEFINE first == GetBlockNumber(addr)
             loc == addr % BLOCK_SIZE
             size == BLOCK_SIZE - loc
             start == first * BLOCK_SIZE
             next == (first + 1) * BLOCK_SIZE
             head == AllignedRead(st.blk, first)
             tail == SecondBase(st.blk, first + 1)
             old == AllignedRead(st.blk, first + 1)
             new1 == [i \in Offset |-> IF i < loc THEN head[i] ELSE data[i - loc]]
             new2 == [i \in Offset |-> IF i < loc THEN data[size + i] ELSE tail[i]]
  <1>1. /\ first \in Nat /\ loc \in Offset /\ start \in Nat
        /\ addr = start + loc /\ next = start + BLOCK_SIZE
        /\ IsAlligned(addr) => loc = 0
    BY Place
  <1>2. /\ first \in Block /\ (~IsAlligned(addr) => first + 1 \in Block)
        /\ addr \in 0..INT_MAX
    BY BlocksOfType, AddrAssumption
  <1>3. st.tmp \in Files /\ st.blk \in Files
        /\ st = [blk |-> st.blk, tmp |-> st.tmp]
    BY DEF Store
  <1>4. Over(head, addr, data, first) = new1
    <2>1. ASSUME NEW i \in Offset
          PROVE  /\ (start + i) - addr = i - loc
                 /\ i - loc \in Offset <=> ~(i < loc)
                 /\ i < loc => ~(start + i > INT_MAX)
      <3> HIDE DEF first, loc, start, next
      <3> QED
        BY <1>1, <1>2, BlockSizeAssumption, IntMaxAssumption
    <2> HIDE DEF loc, start
    <2> QED
      BY <2>1 DEF Over, start
  <1>5. ASSUME ~IsAlligned(addr)
        PROVE  Over(old, addr, data, first + 1) = new2
    <2>1. ASSUME NEW i \in Offset
          PROVE  /\ (next + i) - addr = size + i
                 /\ size + i \in Offset <=> i < loc
      <3> HIDE DEF first, loc, start, next
      <3> QED
        BY <1>1, BlockSizeAssumption
    <2>2. ASSUME NEW i \in Offset
          PROVE  tail[i] = IF next + i > INT_MAX THEN 0 ELSE old[i]
      <3>1. next + i > INT_MAX <=> next > INT_MAX
        BY <1>1, PastMax
      <3> QED
        BY <3>1 DEF SecondBase, Zeros
    <2> HIDE DEF loc, next, tail, old, size
    <2> QED
      BY <2>1, <2>2 DEF Over, next
  <1>6. CASE IsAlligned(addr)
    <2>1. Write(st, addr, data) = [st EXCEPT !.tmp[first] = data]
      BY <1>6 DEF Write, AllignedWrite
    <2>2. BlocksOf(addr) = {first}
      BY <1>6 DEF BlocksOf
    <2>3. new1 = data
      <3>1. \A i \in Offset : ~(i < loc) /\ i - loc = i
        <4> HIDE DEF loc
        <4> QED
          BY <1>1, <1>6
      <3>2. data = [i \in Offset |-> data[i]]
        BY DEF Content
      <3> HIDE DEF loc
      <3> QED
        BY <3>1, <3>2
    <2> HIDE DEF first, new1
    <2>4. /\ Write(st, addr, data).tmp[first] = data
          /\ \A n \in Block \ {first} :
               Write(st, addr, data).tmp[n] = st.tmp[n]
      BY <1>2, <1>3, <2>1 DEF Files
    <2> QED
      BY <1>4, <2>2, <2>3, <2>4 DEF first
  <1>7. CASE ~IsAlligned(addr)
    <2> DEFINE tmp == [st.tmp EXCEPT ![first] = new1, ![first + 1] = new2]
    <2>1. Write(st, addr, data) = [st EXCEPT !.tmp = tmp]
      BY <1>7 DEF Write, UnallignedWrite
    <2>2. BlocksOf(addr) = {first, first + 1} /\ first # first + 1
      BY <1>1, <1>7 DEF BlocksOf
    <2> HIDE DEF first, new1, new2
    <2>3. /\ tmp[first] = new1 /\ tmp[first + 1] = new2
          /\ \A n \in Block \ {first, first + 1} : tmp[n] = st.tmp[n]
      BY <1>2, <1>3, <1>7, <2>2 DEF Files
    <2>4. Write(st, addr, data).tmp = tmp
      BY <1>3, <2>1
    <2> HIDE DEF tmp
    <2> QED
      BY <1>4, <1>5, <1>7, <2>2, <2>3, <2>4
  <1> QED
    BY <1>6, <1>7

\* What a write leaves carries its data.
LEMMA OverCarries ==
    ASSUME NEW addr \in Addr, NEW data, NEW n \in Nat, NEW old
    PROVE  Carries(Over(old, addr, data, n), addr, data, n)
  BY DEF Carries, Over

\* Blocks that carry the data of a write read back as it.
LEMMA CarriedReads ==
    ASSUME NEW files \in Files, NEW addr \in Addr, NEW data \in Content,
           \A n \in BlocksOf(addr) :
             files[n] # None /\ Carries(files[n], addr, data, n)
    PROVE  Read(files, addr) = data
  <1> DEFINE first == GetBlockNumber(addr)
             loc == addr % BLOCK_SIZE
             size == BLOCK_SIZE - loc
             start == first * BLOCK_SIZE
             next == (first + 1) * BLOCK_SIZE
             a == AllignedRead(files, first)
             b == AllignedRead(files, first + 1)
  <1>1. /\ first \in Nat /\ loc \in Offset /\ start \in Nat
        /\ addr = start + loc /\ next = start + BLOCK_SIZE
        /\ IsAlligned(addr) => loc = 0
    BY Place
  <1>2. first \in BlocksOf(addr) /\ (~IsAlligned(addr) => first + 1 \in BlocksOf(addr))
    BY BlocksOfType
  <1>3. \A i \in Offset : (start + i) - addr \in Offset => a[i] = data[(start + i) - addr]
    BY <1>2 DEF Carries, AllignedRead
  <1>4. ~IsAlligned(addr) =>
          \A i \in Offset : (next + i) - addr \in Offset => b[i] = data[(next + i) - addr]
    BY <1>2 DEF Carries, AllignedRead
  <1>5. data = [i \in Offset |-> data[i]]
    BY DEF Content
  <1>6. CASE IsAlligned(addr)
    <2>1. \A i \in Offset : (start + i) - addr = i
      <3> HIDE DEF first, loc, start, next
      <3> QED
        BY <1>1, <1>6
    <2>2. \A i \in Offset : a[i] = data[i]
      BY <1>3, <2>1
    <2>3. a \in Content
      BY <1>2, AllignedReadType, BlocksOfType
    <2>4. a = [i \in Offset |-> a[i]]
      BY <2>3 DEF Content
    <2> HIDE DEF a
    <2>5. a = data
      BY <1>5, <2>2, <2>4
    <2> QED
      BY <1>6, <2>5 DEF Read, a
  <1>7. CASE ~IsAlligned(addr)
    <2>1. ASSUME NEW i \in Offset, i < size
          PROVE  a[loc + i] = data[i]
      <3>1. loc + i \in Offset /\ (start + (loc + i)) - addr = i
        <4> HIDE DEF first, loc, start, next
        <4> QED
          BY <1>1, <2>1, BlockSizeAssumption
      <3> QED
        BY <1>3, <3>1
    <2>2. ASSUME NEW i \in Offset, ~(i < size)
          PROVE  b[i - size] = data[i]
      <3>1. i - size \in Offset /\ (next + (i - size)) - addr = i
        <4> HIDE DEF first, loc, start, next
        <4> QED
          BY <1>1, <2>2, BlockSizeAssumption
      <3> QED
        BY <1>4, <1>7, <3>1
    <2>3. Read(files, addr) = [i \in Offset |-> IF i < size THEN a[loc + i]
                                                ELSE b[i - size]]
      BY <1>7 DEF Read, UnallignedRead
    <2> HIDE DEF a, b, loc, size
    <2> QED
      BY <1>5, <2>1, <2>2, <2>3
  <1> QED
    BY <1>6, <1>7

\* What is staged is a block of bytes.
LEMMA StagedContent ==
    ASSUME NEW st \in Store, NEW addr \in Addr, NEW data \in Content,
           NEW n \in BlocksOf(addr)
    PROVE  Write(st, addr, data).tmp[n] \in Content
  <1>1. n \in Block
    BY BlocksOfType
  <1>2. AllignedRead(st.blk, n) \in Content
    BY <1>1, AllignedReadType DEF Store
  <1>3. Over(AllignedRead(st.blk, n), addr, data, n) \in Content
    BY <1>2, ByteAssumption DEF Over, Content
  <1> QED
    BY <1>3, WriteStages
=============================================================================

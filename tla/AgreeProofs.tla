----------------------------- MODULE AgreeProofs ------------------------------
(* The mirrors agree wherever nothing is under way, and what a check answers *)
(* about them is true, for any instance.                                     *)
(*                                                                           *)
(* The argument follows one block that is not suspect.  At any moment at     *)
(* most one write, one replay and one call are at it, and they are of one    *)
(* address; the bytes of that address may differ between the mirrors, all    *)
(* others agree.  A replay or a write ends when both mirrors have its bytes, *)
(* or leaves the address in the queue.                                       *)
EXTENDS MirrorProofs

-----------------------------------------------------------------------------
(* Bytes of a block.                                                         *)

\* What is staged for block b has the block's present bytes but where addr is.
Fresh(st, addr, b) ==
    \A i \in Offset : ~Covers(addr, b, i) =>
        st.tmp[b][i] = AllignedRead(st.blk, b)[i]

\* What block b shows, if a commit under way counts as done.
Shows(st, b, underway) ==
    IF underway THEN st.tmp[b] ELSE AllignedRead(st.blk, b)

LEMMA Multiples ==
    ASSUME NEW m \in Nat, NEW n \in Nat, m < n
    PROVE  m * BLOCK_SIZE + BLOCK_SIZE <= n * BLOCK_SIZE
  <1>1. n - m - 1 \in Nat /\ n = m + 1 + (n - m - 1)
    OBVIOUS
  <1>2. (n - m - 1) * BLOCK_SIZE \in Nat
    BY <1>1, BlockSizeAssumption
  <1>3. n * BLOCK_SIZE = m * BLOCK_SIZE + BLOCK_SIZE + (n - m - 1) * BLOCK_SIZE
    BY <1>1, BlockSizeAssumption
  <1>4. m * BLOCK_SIZE \in Nat
    BY BlockSizeAssumption
  <1> QED
    BY <1>2, <1>3, <1>4, BlockSizeAssumption

LEMMA CoveredBlock ==
    ASSUME NEW addr \in Addr, NEW b \in Block, NEW i \in Offset,
           Covers(addr, b, i)
    PROVE  b \in BlocksOf(addr)
  <1> DEFINE n     == GetBlockNumber(addr)
             loc   == addr % BLOCK_SIZE
             start == n * BLOCK_SIZE
             next  == (n + 1) * BLOCK_SIZE
             at    == b * BLOCK_SIZE
  <1>1. /\ n \in Nat /\ loc \in Offset /\ start \in Nat
        /\ addr = start + loc /\ next = start + BLOCK_SIZE
    BY Place
  <1>2. b \in Nat /\ i \in 0..(BLOCK_SIZE - 1) /\ BLOCK_SIZE \in Nat \ {0}
    BY BlockType, BlockSizeAssumption DEF Offset
  <1>3. at \in Nat /\ next \in Nat
    BY <1>1, <1>2
  <1>4. (at + i) - addr \in Offset
    BY DEF Covers
  <1>5. /\ b < n => at + BLOCK_SIZE <= start
        /\ n + 1 < b => next + BLOCK_SIZE <= at
        /\ n < b => start + BLOCK_SIZE <= at
    BY <1>1, <1>2, Multiples
  <1>6. BlocksOf(addr) = IF loc = 0 THEN {n} ELSE {n, n + 1}
    BY DEF BlocksOf, IsAlligned
  <1> HIDE DEF n, loc, start, next, at
  <1>7. b = n \/ b = n + 1
    BY <1>1, <1>2, <1>3, <1>4, <1>5 DEF Offset
  <1>8. loc = 0 => ~(n < b)
    BY <1>1, <1>2, <1>3, <1>4, <1>5 DEF Offset
  <1>9. b = n + 1 => n < b
    BY <1>1
  <1> QED
    BY <1>6, <1>7, <1>8, <1>9

LEMMA AlignedCovers ==
    ASSUME NEW addr \in Addr, IsAlligned(addr), NEW b \in BlocksOf(addr),
           NEW i \in Offset
    PROVE  Covers(addr, b, i)
  <1> DEFINE loc == addr % BLOCK_SIZE
             at  == b * BLOCK_SIZE
  <1>1. b = GetBlockNumber(addr)
    BY DEF BlocksOf
  <1>2. at \in Nat /\ addr = at + loc /\ loc = 0
    BY <1>1, Place
  <1> HIDE DEF loc, at
  <1>3. (at + i) - addr = i
    BY <1>2, BlockSizeAssumption DEF Offset
  <1> QED
    BY <1>3 DEF Covers, at

\* What staging leaves fresh, and what it carries.
LEMMA StagedFresh ==
    ASSUME NEW st \in Store, NEW addr \in Addr, NEW data \in Content,
           NEW b \in BlocksOf(addr), ~PastIntMax(b)
    PROVE  LET new == Write(st, addr, data)
           IN  /\ new.blk = st.blk /\ new.tmp[b] # None
               /\ Fresh(new, addr, b)
               /\ \A i \in Offset : Covers(addr, b, i) =>
                    new.tmp[b][i] = ByteOf(addr, data, b, i)
  <1> DEFINE new == Write(st, addr, data)
             old == AllignedRead(st.blk, b)
  <1>1. new.blk = st.blk /\ b \in Nat
    BY WriteType, BlocksOfType, BlockType
  <1>2. new.tmp[b] = Over(old, addr, data, b) /\ new.tmp[b] # None
    BY WriteStages, StagedContent, NoneAssumption
  <1>3. \A i \in Offset : ~(b * BLOCK_SIZE + i > INT_MAX)
    BY <1>1, PastMax DEF PastIntMax
  <1>4. \A i \in Offset :
          new.tmp[b][i] = IF Covers(addr, b, i) THEN ByteOf(addr, data, b, i)
                                                ELSE old[i]
    BY <1>2, <1>3 DEF Over, Covers, ByteOf
  <1> HIDE DEF new
  <1>5. old = AllignedRead(new.blk, b)
    BY <1>1
  <1> QED
    BY <1>1, <1>2, <1>4, <1>5 DEF Fresh, new

\* A read takes the bytes from the blocks it covers.
LEMMA ReadBytes ==
    ASSUME NEW files \in Files, NEW addr \in Addr, NEW b \in BlocksOf(addr),
           NEW i \in Offset, Covers(addr, b, i)
    PROVE  ByteOf(addr, Read(files, addr), b, i) = AllignedRead(files, b)[i]
  <1> DEFINE n     == GetBlockNumber(addr)
             loc   == addr % BLOCK_SIZE
             size  == BLOCK_SIZE - loc
             start == n * BLOCK_SIZE
             next  == (n + 1) * BLOCK_SIZE
             j     == (b * BLOCK_SIZE + i) - addr
  <1>1. /\ n \in Nat /\ loc \in Offset /\ start \in Nat
        /\ addr = start + loc /\ next = start + BLOCK_SIZE
        /\ IsAlligned(addr) => loc = 0
    BY Place
  <1>2. j \in Offset
    BY DEF Covers
  <1>3. CASE IsAlligned(addr)
    <2>1. b = n /\ Read(files, addr) = AllignedRead(files, n)
      BY <1>3 DEF BlocksOf, Read
    <2>2. (start + i) - addr = i
      <3> HIDE DEF start, loc
      <3> QED
        BY <1>1, <1>3, BlockSizeAssumption DEF Offset
    <2> QED
      BY <2>1, <2>2 DEF ByteOf
  <1>4. CASE ~IsAlligned(addr)
    <2>1. /\ b = n \/ b = n + 1
          /\ Read(files, addr)[j] = IF j < size THEN AllignedRead(files, n)[loc + j]
                                    ELSE AllignedRead(files, n + 1)[j - size]
      BY <1>2, <1>4 DEF BlocksOf, Read, UnallignedRead
    <2>2. b = n => j < size /\ loc + j = i
      <3>1. b = n => j = (start + i) - addr
        OBVIOUS
      <3> HIDE DEF start, loc, j, n
      <3> QED
        BY <1>1, <1>2, <3>1, BlockSizeAssumption DEF Offset, size
    <2>3. b = n + 1 => ~(j < size) /\ j - size = i
      <3>1. b = n + 1 => j = (next + i) - addr
        OBVIOUS
      <3> HIDE DEF start, next, loc, j, n
      <3> QED
        BY <1>1, <1>2, <3>1, BlockSizeAssumption DEF Offset, size
    <2> HIDE DEF n, loc, size, start, next
    <2> QED
      BY <2>1, <2>2, <2>3 DEF ByteOf
  <1> QED
    BY <1>3, <1>4

\* An operation of a commit does not change what its blocks show.
LEMMA OpShows ==
    ASSUME NEW st \in Store, NEW addr \in Addr, NEW todo \in Rests(addr),
           NEW b \in BlocksOf(addr), b \in ToRename(todo) => st.tmp[b] # None
    PROVE  LET new  == Apply(st, Head(todo))
               rest == Tail(todo)
               left == Len(todo) # 1 /\ b \in ToRename(rest)
           IN  /\ Shows(new, b, left) = Shows(st, b, b \in ToRename(todo))
               /\ left => new.tmp[b] # None
  <1> DEFINE n    == Head(todo)[2]
             new  == Apply(st, Head(todo))
             rest == Tail(todo)
  <1>1. /\ b \in Block /\ n \in ToRename(todo)
        /\ \A c \in Block \ {n} :
             new.blk[c] = st.blk[c] /\ new.tmp[c] = st.tmp[c]
        /\ Head(todo) = <<"remove", n>> => new.tmp[n] = st.tmp[n]
        /\ Head(todo) = <<"rename", n>> /\ st.tmp[n] # None =>
             new.blk[n] = st.tmp[n]
    BY ApplyEffect, RestStep, BlocksOfType
  <1>2. Len(todo) = 1 => ToRename(todo) = {n}
    BY RestStep
  <1>3. \/ /\ Head(todo) = <<"remove", n>> /\ Len(todo) # 1
           /\ ToRename(rest) = ToRename(todo)
        \/ /\ Head(todo) = <<"rename", n>>
           /\ Len(todo) # 1 => ToRename(rest) = ToRename(todo) \ {n}
    BY RestStep
  <1> HIDE DEF n, new, rest
  <1>4. CASE b # n
    <2>1. new.blk[b] = st.blk[b] /\ new.tmp[b] = st.tmp[b]
      BY <1>1, <1>4
    <2>2. Len(todo) # 1 /\ b \in ToRename(rest) <=> b \in ToRename(todo)
      BY <1>2, <1>3, <1>4
    <2> QED
      BY <2>1, <2>2 DEF Shows, AllignedRead, new, rest
  <1>5. CASE b = n /\ Head(todo) = <<"remove", n>> /\ Len(todo) # 1
               /\ ToRename(rest) = ToRename(todo)
    BY <1>1, <1>5 DEF Shows, new, rest
  <1>6. CASE b = n /\ Head(todo) = <<"rename", n>>
               /\ (Len(todo) # 1 => ToRename(rest) = ToRename(todo) \ {n})
    <2>1. ~(Len(todo) # 1 /\ b \in ToRename(rest))
      BY <1>6
    <2>2. new.blk[b] = st.tmp[b] /\ st.tmp[b] # None
      BY <1>1, <1>6
    <2> QED
      BY <1>1, <1>6, <2>1, <2>2 DEF Shows, AllignedRead, new, rest
  <1> QED
    BY <1>3, <1>4, <1>5, <1>6

-----------------------------------------------------------------------------
(* The invariant.                                                            *)

Calls(b) == {r \in rpc : b \in BlocksOf(r.addr)}

Lone(S) == \A x, y \in S : x = y

\* Node k has staged what a commit in progress is about to show at b.
Underway(k, b) ==
    \/ \E w \in Writing(b) :
         /\ write[w].node = k /\ write[w].pc \in {"commit", "commitAlone"}
         /\ b \in ToRename(write[w].todo)
    \/ \E r \in Calls(b) :
         r.dest = k /\ r.st = "commit" /\ b \in ToRename(r.todo)

At(k, b) == Shows(store[k], b, Underway(k, b))

\* r is a call of a thread of node n about addr, or was.
Follows(r, n, addr) == r.addr = addr /\ r.dest = Peer(n)

\* At most one write, one replay and one call are at b, all of one address.
Family(b) ==
    /\ Lone(Writing(b)) /\ Lone(Replaying(b)) /\ Lone(Calls(b))
    /\ \A w \in Writing(b), x \in Replaying(b) :
         /\ write[w].pc \in {"commitAlone", "enqueue"}
         /\ write[w].node = x[1] /\ write[w].addr = worker[x].addr
    /\ \A r \in Calls(b) : r.caller = None =>
         /\ \A w \in Writing(b) :
              Follows(r, write[w].node, write[w].addr) /\ write[w].pc # "commit"
         /\ \A x \in Replaying(b) :
              Follows(r, x[1], worker[x].addr) /\ worker[x].pc # "read"

\* r's data is staged and no commit of it has begun.
StagedCall(r) == \/ r.op = "ReplicateBlock" /\ r.st = "done"
                 \/ r.op = "CommitBlock" /\ r.st = "sent"

\* What is staged is there, and is not stale.
Ready(b) ==
    /\ \A w \in Writing(b) : write[w].pc = "commitRemote" =>
         Fresh(store[write[w].node], write[w].addr, b)
    /\ \A r \in Calls(b) :
         LET st == store[r.dest]
         IN  /\ StagedCall(r) => st.tmp[b] # None /\ Fresh(st, r.addr, b)
             /\ r.st = "commit" /\ b \in ToRename(r.todo) => st.tmp[b] # None

\* An abandoned CommitBlock is of an address still written, replayed or queued.
Backed(b) ==
    \A r \in Calls(b) : r.caller = None /\ r.op = "CommitBlock" =>
        \/ \E w \in Writing(b) : write[w].pc = "commitRemote"
        \/ Replaying(b) # {}
        \/ r.addr \in Waiting(pending[Peer(r.dest)])

\* The byte r brings, wherever it has come to.
Carried(r, b, i) ==
    IF r.op = "ReplicateBlock" /\ r.st = "sent" THEN ByteOf(r.addr, r.data, b, i)
    ELSE IF StagedCall(r) THEN store[r.dest].tmp[b][i]
    ELSE At(r.dest, b)[i]

\* What x replays at b is being written here, or will be replayed again.
Requeued(x, b) == Writing(b) # {} \/ worker[x].addr \in Waiting(pending[x[1]])

\* A write's call brings its data, given up or not, and a replay's what its node
\* shows.
Faithful(b) ==
    /\ \A r \in Calls(b), i \in Offset : Covers(r.addr, b, i) =>
         /\ r.caller \in Writer =>
              Carried(r, b, i) = ByteOf(r.addr, write[r.caller].data, b, i)
         /\ r.caller = None => \A w \in Writing(b) : write[w].pc = "commitRemote" =>
              Carried(r, b, i) = ByteOf(r.addr, write[w].data, b, i)
         /\ r.caller \in Node \X SubThread =>
              \/ Requeued(r.caller, b)
              \/ Carried(r, b, i) = At(r.caller[1], b)[i]
    /\ \A w \in Writing(b), i \in Offset :
         LET h == write[w]
         IN  h.pc = "commit" /\ Covers(h.addr, b, i) =>
               At(Peer(h.node), b)[i] = ByteOf(h.addr, h.data, b, i)

\* A write that has begun to commit, a replay or a queued address covers byte i.
Loose(b, i) ==
    \/ \E w \in Writing(b) : write[w].pc # "replicate" /\ Covers(write[w].addr, b, i)
    \/ \E x \in Replaying(b) : Covers(worker[x].addr, b, i)
    \/ Queued(b * BLOCK_SIZE + i)

Agree(b) ==
    \A i \in Offset : Loose(b, i) \/ At(Primary, b)[i] = At(Backup, b)[i]

BlockInv(b) == Family(b) /\ Ready(b) /\ Backed(b) /\ Faithful(b) /\ Agree(b)

AgreeInv == \A b \in Block \ suspect : ~PastIntMax(b) => BlockInv(b)

\* What b shows stays, or it changes on node m only, to what a write brings or
\* while m is behind.
Quiet(b) == \A k \in Node : At(k, b)' = At(k, b)

Moved(m, b) ==
    /\ \A k \in Node \ {m} : At(k, b)' = At(k, b)
    /\ \A i \in Offset : \/ At(m, b)'[i] = At(m, b)[i]
                         \/ At(m, b)'[i] \in Brought(b, i)'
                         \/ Behind(m, b, i)'

LEMMA QuietMoves ==
    ASSUME NEW m \in Node, NEW b, Quiet(b)
    PROVE  Moved(m, b)
BY DEF Quiet, Moved

LEMMA WritingBrings ==
    ASSUME NEW b, NEW i, NEW w \in Writer, Covers(write[w].addr, b, i),
           write[w].pc \notin {"idle", "replicate"}
    PROVE  ByteOf(write[w].addr, write[w].data, b, i) \in Brought(b, i)
BY DEF Brought

-----------------------------------------------------------------------------
(* What leaves a block alone.                                                *)

\* The files of block b are the same on node k.
Still(k, b) ==
    store'[k].blk[b] = store[k].blk[b] /\ store'[k].tmp[b] = store[k].tmp[b]

LEMMA PeerApart ==
    ASSUME NEW n \in Node
    PROVE  Peer(n) \in Node /\ Peer(n) # n /\ Peer(Peer(n)) = n
           /\ \A k \in Node : k = n \/ k = Peer(n)
BY NodeAssumption DEF Peer, Node

LEMMA FreshKept ==
    ASSUME NEW k, NEW b, NEW addr, Still(k, b), Fresh(store[k], addr, b)
    PROVE  Fresh(store'[k], addr, b)
BY DEF Still, Fresh, AllignedRead

LEMMA AtKept ==
    ASSUME NEW k, NEW b, Still(k, b), Underway(k, b)' <=> Underway(k, b)
    PROVE  At(k, b)' = At(k, b)
BY DEF At, Shows, AllignedRead, Still

\* b's writers and calls are the same.
SameWork(b) ==
    /\ Writing(b)' = Writing(b)
    /\ \A w \in Writing(b) : write'[w] = write[w]
    /\ Calls(b)' = Calls(b)

LEMMA UnderwayKept ==
    ASSUME NEW k, NEW b, SameWork(b)
    PROVE  Underway(k, b)' <=> Underway(k, b)
BY DEF Underway, SameWork

LEMMA AgreeKept ==
    ASSUME NEW b, Agree(b),
           \A i \in Offset : \/ Loose(b, i)'
                             \/ /\ ~Loose(b, i)
                                /\ \A k \in Node : At(k, b)'[i] = At(k, b)[i]
    PROVE  Agree(b)'
BY DEF Agree, Node

LEMMA QueuedKept ==
    ASSUME NEW b \in Block, NEW i \in Offset, TypeOK,
           \A n \in Node : \A a \in Waiting(pending[n]) :
             b \in BlocksOf(a) => a \in Waiting(pending'[n]),
           Queued(b * BLOCK_SIZE + i)
    PROVE  Queued(b * BLOCK_SIZE + i)'
  <1>1. PICK n \in Node : \E a \in Waiting(pending[n]) : Covers(a, b, i)
    BY DEF Queued, Covers
  <1> PICK a \in Waiting(pending[n]) : Covers(a, b, i)
    BY <1>1
  <1>2. a \in Addr
    BY WaitingType DEF TypeOK
  <1>3. a \in Waiting(pending'[n])
    BY <1>1, <1>2, CoveredBlock
  <1> QED
    BY <1>1, <1>3 DEF Queued, Covers

\* The threads at b, and where they are.
LEMMA Placed ==
    ASSUME TypeOK, NEW b
    PROVE  /\ \A w \in Writing(b) :
                /\ w \in Writer /\ write[w].node \in Node /\ write[w].addr \in Addr
                /\ write[w].data \in Content /\ b \in BlocksOf(write[w].addr)
                /\ b \in Block
           /\ \A x \in Replaying(b) :
                /\ x \in Node \X SubThread /\ x[1] \in Node
                /\ worker[x].addr \in Addr /\ b \in BlocksOf(worker[x].addr)
                /\ b \in Block
           /\ \A r \in Calls(b) : r \in Call /\ r.dest \in Node /\ r.addr \in Addr
BY BusyType, BlocksOfType DEF Writing, Replaying, Calls, TypeOK, Call

LEMMA CallerAt ==
    ASSUME IInv, MirrorInv, NEW b \in Block, NEW r \in Calls(b)
    PROVE  /\ \/ r.caller = None
              \/ r.caller \in Writing(b)
              \/ r.caller \in Replaying(b)
           /\ r.caller \in Writer =>
                LET h == write[r.caller]
                IN  /\ r.caller \in Writing(b)
                    /\ h.pc \in {"replicate", "commitRemote"}
                    /\ Follows(r, h.node, h.addr)
                    /\ h.pc = "replicate" => r.op = "ReplicateBlock" /\ r.data = h.data
                    /\ h.pc = "commitRemote" => r.op = "CommitBlock"
           /\ r.caller \in Node \X SubThread =>
                LET h == worker[r.caller]
                IN  /\ r.caller \in Replaying(b)
                    /\ h.pc \in {"replicate", "commitRemote"}
                    /\ Follows(r, r.caller[1], h.addr)
                    /\ h.pc = "replicate" => r.op = "ReplicateBlock"
                    /\ h.pc = "commitRemote" => r.op = "CommitBlock"
  <1>1. r \in rpc /\ b \in BlocksOf(r.addr) /\ TypeOK
    BY DEF Calls, IInv
  <1>2. r.caller \in Writer \cup (Node \X SubThread) \cup {None}
    BY <1>1 DEF TypeOK, Call, Caller
  <1>3. ASSUME r.caller \in Writer
        PROVE  LET h == write[r.caller]
               IN  /\ h.pc \in {"replicate", "commitRemote"}
                   /\ Follows(r, h.node, h.addr)
                   /\ h.pc = "replicate" => r.op = "ReplicateBlock" /\ r.data = h.data
                   /\ h.pc = "commitRemote" => r.op = "CommitBlock"
    BY <1>1, <1>3 DEF IInv, CallsMatch, MirrorInv, CallsFit, CallFits, Follows
  <1>4. ASSUME r.caller \in Node \X SubThread
        PROVE  LET h == worker[r.caller]
               IN  /\ h.pc \in {"replicate", "commitRemote"}
                   /\ Follows(r, r.caller[1], h.addr)
                   /\ h.pc = "replicate" => r.op = "ReplicateBlock"
                   /\ h.pc = "commitRemote" => r.op = "CommitBlock"
    BY <1>1, <1>4 DEF IInv, CallsMatch, MirrorInv, CallsFit, CallFits, Follows
  <1>5. r.caller \in Writer => r.caller \in Writing(b)
    BY <1>1, <1>3 DEF Writing, Follows
  <1>6. r.caller \in Node \X SubThread => r.caller \in Replaying(b)
    BY <1>1, <1>4, BusyType, NoneAssumption DEF Replaying, Follows
  <1> QED
    BY <1>2, <1>3, <1>4, <1>5, <1>6

LEMMA FaithfulKept ==
    ASSUME IInv, MirrorInv, NEW b \in Block, Faithful(b), SameWork(b),
           \A x \in Replaying(b) : worker'[x] = worker[x],
           \A k \in Node : Still(k, b),
           \A x \in Replaying(b) : Requeued(x, b) => Requeued(x, b)'
    PROVE  Faithful(b)'
  <1>1. \A k \in Node : At(k, b)' = At(k, b)
    BY AtKept, UnderwayKept
  <1>2. TypeOK
    BY DEF IInv
  <1>3. \A r \in Calls(b), i \in Offset : Carried(r, b, i)' = Carried(r, b, i)
    BY <1>1, <1>2, Placed DEF Carried, Still
  <1>4. ASSUME NEW r \in Calls(b)', NEW i \in Offset, Covers(r.addr, b, i)
        PROVE  /\ r.caller \in Writer =>
                    Carried(r, b, i)' = ByteOf(r.addr, write'[r.caller].data, b, i)
               /\ r.caller = None =>
                    \A w \in Writing(b) : write[w].pc = "commitRemote" =>
                      Carried(r, b, i)' = ByteOf(r.addr, write[w].data, b, i)
               /\ r.caller \in Node \X SubThread =>
                    \/ Requeued(r.caller, b)'
                    \/ Carried(r, b, i)' = At(r.caller[1], b)'[i]
    <2>1. r \in Calls(b)
      BY DEF SameWork
    <2>2. /\ r.caller \in Writer =>
               Carried(r, b, i) = ByteOf(r.addr, write[r.caller].data, b, i)
          /\ r.caller = None =>
               \A w \in Writing(b) : write[w].pc = "commitRemote" =>
                 Carried(r, b, i) = ByteOf(r.addr, write[w].data, b, i)
          /\ r.caller \in Node \X SubThread =>
               \/ Requeued(r.caller, b)
               \/ Carried(r, b, i) = At(r.caller[1], b)[i]
      BY <1>4, <2>1 DEF Faithful
    <2>3. /\ r.caller \in Writer => write'[r.caller] = write[r.caller]
          /\ r.caller \in Node \X SubThread =>
               r.caller \in Replaying(b) /\ r.caller[1] \in Node
      BY <2>1, CallerAt DEF SameWork
    <2> QED
      BY <1>1, <1>3, <2>1, <2>2, <2>3
  <1>5. ASSUME NEW w \in Writing(b), NEW n \in Node, n = write[w].node,
               NEW i \in Offset, write[w].pc = "commit",
               Covers(write[w].addr, b, i)
        PROVE  At(Peer(n), b)'[i] = ByteOf(write[w].addr, write[w].data, b, i)
    BY <1>1, <1>5, PeerType DEF Faithful
  <1>6. \A w \in Writing(b)' :
          w \in Writing(b) /\ write'[w] = write[w] /\ write[w].node \in Node
    BY <1>2, Placed DEF SameWork
  <1> QED
    BY <1>4, <1>5, <1>6 DEF Faithful

LEMMA BlockKept ==
    ASSUME IInv, MirrorInv, NEW b \in Block, BlockInv(b), SameWork(b),
           Replaying(b)' = Replaying(b),
           \A x \in Replaying(b) : worker'[x] = worker[x],
           \A k \in Node : Still(k, b),
           \A n \in Node : \A a \in Waiting(pending[n]) :
             b \in BlocksOf(a) => a \in Waiting(pending'[n])
    PROVE  BlockInv(b)' /\ Quiet(b)
  <1>1. \A k \in Node : At(k, b)' = At(k, b)
    BY AtKept, UnderwayKept
  <1>2. Family(b)'
    BY DEF BlockInv, Family, SameWork
  <1>3. TypeOK
    BY DEF IInv
  <1>4. Ready(b)'
    <2>1. \A w \in Writing(b) : write[w].pc = "commitRemote" =>
            Fresh(store'[write[w].node], write[w].addr, b)
      BY <1>3, FreshKept, Placed DEF BlockInv, Ready
    <2>2. \A r \in Calls(b) :
            /\ StagedCall(r) =>
                 store'[r.dest].tmp[b] # None /\ Fresh(store'[r.dest], r.addr, b)
            /\ r.st = "commit" /\ b \in ToRename(r.todo) =>
                 store'[r.dest].tmp[b] # None
      BY <1>3, FreshKept, Placed DEF BlockInv, Ready, Still
    <2> QED
      BY <2>1, <2>2 DEF Ready, SameWork
  <1>5. Backed(b)'
    BY <1>3, Placed, PeerApart DEF BlockInv, Backed, SameWork, Calls
  <1>6. Faithful(b)'
    <2>1. \A x \in Replaying(b) : Requeued(x, b) => Requeued(x, b)'
      BY <1>3, Placed DEF Requeued, SameWork
    <2> QED
      BY <2>1, FaithfulKept DEF BlockInv
  <1>7. \A i \in Offset : Loose(b, i) => Loose(b, i)'
    BY <1>3, QueuedKept DEF Loose, SameWork
  <1>8. Agree(b)'
    BY <1>1, <1>7, AgreeKept DEF BlockInv
  <1> QED
    BY <1>1, <1>2, <1>4, <1>5, <1>6, <1>8 DEF BlockInv, Quiet

-----------------------------------------------------------------------------
(* A write arrives.                                                          *)

\* The one writer of b that changes.
LEMMA WritingAfter ==
    ASSUME NEW b, NEW v \in Writer, \A u \in Writer \ {v} : write'[u] = write[u],
           Writing(b) \subseteq {v}
    PROVE  /\ write'[v].pc = "idle" => Writing(b)' = {}
           /\ write'[v].pc # "idle" /\ b \in BlocksOf(write'[v].addr) =>
                Writing(b)' = {v}
BY DEF Writing

LEMMA AloneAgrees ==
    ASSUME IInv, MirrorInv, NEW b \in Block, ~PastIntMax(b), BlockInv(b),
           NEW v \in Writer, NEW n \in Node, NEW addr \in Addr,
           NEW data \in Payload, WriteAlone(v, n, addr, data),
           b \in BlocksOf(addr), b \notin suspect'
    PROVE  BlockInv(b)' /\ Moved(n, b)
  <1>1. TypeOK /\ data \in Content /\ store[n] \in Store
    BY PayloadAssumption DEF IInv, TypeOK
  <1>2. /\ write[v].pc = "idle" /\ worker' = worker /\ pending' = pending
        /\ rpc' = rpc /\ \A u \in Writer \ {v} : write'[u] = write[u]
        /\ write'[v].pc = "commitAlone" /\ write'[v].addr = addr
        /\ write'[v].node = n /\ write'[v].todo = Commit(addr)
        /\ write'[v].data = data
        /\ store'[n] = Write(store[n], addr, data)
        /\ \A k \in Node \ {n} : store'[k] = store[k]
    BY <1>1 DEF WriteAlone, TypeOK, replica
  <1>3. b \notin Overlap(addr, {}, OwnReplays(n, addr))
    BY DEF WriteAlone
  <1>4. /\ Writing(b) = {} /\ Replaying(b) \subseteq OwnReplays(n, addr)
        /\ \A r \in Calls(b) : r.caller # None
    BY <1>3 DEF Overlap, Calls, Abandoned
  <1>5. Writing(b)' = {v} /\ Replaying(b)' = Replaying(b) /\ Calls(b)' = Calls(b)
    BY <1>2, <1>4, WritingAfter DEF Replaying, Calls
  <1>6. \A x \in Replaying(b) : x[1] = n /\ worker[x].addr = addr
    BY <1>4 DEF OwnReplays
  <1>7. \A r \in Calls(b) : /\ r.caller \notin Writer
                            /\ r.dest \in Node \ {n}
    <2> SUFFICES ASSUME NEW r \in Calls(b)
                 PROVE  r.caller \notin Writer /\ r.dest \in Node \ {n}
      OBVIOUS
    <2>1. r.caller \in Replaying(b) /\ r.caller \notin Writer
      BY <1>4, CallerAt
    <2>2. r.caller \in Node \X SubThread
      BY <2>1 DEF Replaying
    <2>3. r.dest = Peer(n)
      BY <1>6, <2>1, <2>2, CallerAt DEF Follows
    <2> QED
      BY <2>1, <2>3, PeerApart
  <1>8. /\ store'[n].blk = store[n].blk /\ Fresh(store'[n], addr, b)
    BY <1>1, <1>2, StagedFresh
  <1>9. \A k \in Node \ {n} : Still(k, b) /\ At(k, b)' = At(k, b)
    <2> SUFFICES ASSUME NEW k \in Node \ {n}
                 PROVE  Still(k, b) /\ At(k, b)' = At(k, b)
      OBVIOUS
    <2>1. Still(k, b)
      BY <1>2 DEF Still
    <2>2. Underway(k, b)' <=> Underway(k, b)
      BY <1>2, <1>4, <1>5 DEF Underway
    <2> QED
      BY <2>1, <2>2, AtKept
  <1>10. At(n, b) = AllignedRead(store[n].blk, b) /\ At(n, b)' = store'[n].tmp[b]
    <2>1. ~Underway(n, b)
      BY <1>4, <1>7 DEF Underway
    <2>2. Underway(n, b)'
      BY <1>2, <1>5, CommitRest DEF Underway
    <2> QED
      BY <2>1, <2>2 DEF At, Shows
  <1>11. Family(b)'
    BY <1>2, <1>4, <1>5, <1>6 DEF BlockInv, Family, Lone
  <1>12. Ready(b)'
    BY <1>2, <1>5, <1>7, <1>9, FreshKept DEF BlockInv, Ready, Still
  <1>13. Backed(b)'
    BY <1>4, <1>5 DEF Backed
  <1>14. Faithful(b)'
    BY <1>2, <1>5, <1>7 DEF Faithful, Requeued
  <1>15. Agree(b)'
    <2>1. \A i \in Offset : Loose(b, i) => Loose(b, i)'
      BY <1>2, <1>4, <1>5 DEF Loose, Queued
    <2>2. \A i \in Offset : Covers(addr, b, i) => Loose(b, i)'
      BY <1>2, <1>5 DEF Loose
    <2>3. \A i \in Offset : ~Covers(addr, b, i) => At(n, b)'[i] = At(n, b)[i]
      BY <1>8, <1>10 DEF Fresh
    <2> QED
      BY <1>9, <2>1, <2>2, <2>3, AgreeKept DEF BlockInv
  <1>16. ASSUME NEW i \in Offset
         PROVE  At(n, b)'[i] = At(n, b)[i] \/ At(n, b)'[i] \in Brought(b, i)'
    <2>1. ~Covers(addr, b, i) => At(n, b)'[i] = At(n, b)[i]
      BY <1>8, <1>10 DEF Fresh
    <2>2. Covers(addr, b, i) => At(n, b)'[i] = ByteOf(addr, data, b, i)
      BY <1>1, <1>2, <1>10, StagedFresh
    <2>3. Covers(addr, b, i) => ByteOf(addr, data, b, i) \in Brought(b, i)'
      BY <1>2 DEF Brought
    <2> QED
      BY <2>1, <2>2, <2>3
  <1> QED
    BY <1>9, <1>11, <1>12, <1>13, <1>14, <1>15, <1>16 DEF BlockInv, Moved

LEMMA MirroredAgrees ==
    ASSUME IInv, MirrorInv, NEW b \in Block, BlockInv(b),
           NEW v \in Writer, NEW n \in Node, NEW addr \in Addr,
           NEW data \in Payload, WriteMirrored(v, n, addr, data),
           b \in BlocksOf(addr), b \notin suspect'
    PROVE  BlockInv(b)' /\ Quiet(b)
  <1> DEFINE q == Sent(v, n, "ReplicateBlock", addr, data)
  <1>1. /\ worker' = worker /\ pending' = pending /\ store' = store
        /\ rpc' = rpc \cup {q} /\ \A u \in Writer \ {v} : write'[u] = write[u]
        /\ write'[v].pc = "replicate" /\ write'[v].addr = addr
        /\ write'[v].data = data
    BY DEF WriteMirrored, IInv, TypeOK, replica
  <1>2. b \notin Overlap(addr, {}, {})
    BY DEF WriteMirrored
  <1>3. Writing(b) = {} /\ Replaying(b) = {} /\ Abandoned(b) = {}
    BY <1>2 DEF Overlap
  <1>4. Calls(b) = {}
    BY <1>3, CallerAt DEF Calls, Abandoned
  <1>5. /\ q.caller = v /\ q.st = "sent" /\ q.op = "ReplicateBlock"
        /\ q.addr = addr /\ q.data = data
    BY DEF Sent
  <1> HIDE DEF q
  <1>6. Writing(b)' = {v} /\ Replaying(b)' = {} /\ Calls(b)' = {q}
    BY <1>1, <1>3, <1>4, <1>5, WritingAfter DEF Replaying, Calls
  <1>7. \A k \in Node : At(k, b)' = At(k, b)
    <2>1. \A k \in Node : ~Underway(k, b) /\ ~Underway(k, b)'
      BY <1>1, <1>3, <1>4, <1>5, <1>6 DEF Underway
    <2> QED
      BY <1>1, <2>1, AtKept DEF Still
  <1>8. q.caller # None /\ q.caller \notin Node \X SubThread
    BY <1>5, CallerCases
  <1>9. Family(b)' /\ Ready(b)' /\ Backed(b)'
    BY <1>1, <1>5, <1>6, <1>8 DEF Family, Lone, Ready, StagedCall, Backed
  <1>10. Faithful(b)'
    BY <1>1, <1>5, <1>6, <1>8 DEF Faithful, Carried
  <1>11. \A i \in Offset : Loose(b, i) => Loose(b, i)'
    BY <1>1, <1>3, <1>6 DEF Loose, Queued
  <1> QED
    BY <1>7, <1>9, <1>10, <1>11, AgreeKept DEF BlockInv, Quiet

-----------------------------------------------------------------------------
(* A write goes on.                                                          *)

\* A write whose call has been answered is alone at its blocks.
LEMMA OwnCall ==
    ASSUME IInv, MirrorInv, NEW b \in Block, Family(b), NEW v \in Writing(b),
           Acked(v)
    PROVE  /\ Writing(b) = {v} /\ Replaying(b) = {}
           /\ \A r \in Settled(v) : b \notin BlocksOf(r.addr)
           /\ \E r \in Calls(b) : /\ Calls(b) = {r} /\ r.caller = v
                                  /\ r.st = "done"
                                  /\ Follows(r, write[v].node, write[v].addr)
  <1>1. PICK r \in rpc : r.caller = v /\ r.st = "done"
    BY DEF Acked
  <1>2. v \in Writer /\ b \in BlocksOf(write[v].addr)
    BY DEF Writing
  <1>3. /\ write[v].pc \in {"replicate", "commitRemote"}
        /\ Follows(r, write[v].node, write[v].addr)
    BY <1>1, <1>2 DEF IInv, CallsMatch, MirrorInv, CallsFit, CallFits, Follows
  <1>4. r \in Calls(b)
    BY <1>1, <1>2, <1>3 DEF Calls, Follows
  <1>5. Writing(b) = {v} /\ Replaying(b) = {} /\ Calls(b) = {r}
    BY <1>3, <1>4 DEF Family, Lone
  <1> QED
    BY <1>1, <1>3, <1>4, <1>5 DEF Settled, Calls

LEMMA ReplicatedAgrees ==
    ASSUME IInv, MirrorInv, NEW b \in Block, ~PastIntMax(b), BlockInv(b),
           NEW v \in Writing(b), WriteReplicated(v)
    PROVE  BlockInv(b)' /\ Quiet(b)
  <1>1. TypeOK /\ v \in Writer /\ write[v].pc = "replicate" /\ Acked(v)
    BY DEF IInv, Writing, WriteReplicated
  <1>2. PICK n \in Node, addr \in Addr, data \in Content :
          n = write[v].node /\ addr = write[v].addr /\ data = write[v].data
    BY <1>1, Placed
  <1> DEFINE q == Sent(v, n, "CommitBlock", addr, None)
  <1>3. /\ worker' = worker /\ pending' = pending
        /\ rpc' = Settled(v) \cup {q}
        /\ \A u \in Writer \ {v} : write'[u] = write[u]
        /\ write'[v].pc = "commitRemote" /\ write'[v].addr = addr
        /\ write'[v].node = n /\ write'[v].data = data
        /\ store'[n] = Write(store[n], addr, data)
        /\ \A k \in Node \ {n} : store'[k] = store[k]
    <2>1. write[v] \in [pc : {"replicate", "commitRemote", "commit",
                              "commitAlone", "enqueue"},
                        node : Node, addr : Addr, data : Payload,
                        todo : Seq(FileOp)]
      BY <1>1, BusyType
    <2> QED
      BY <1>1, <1>2, <2>1 DEF WriteReplicated, TypeOK, replica
  <1>4. /\ q.caller = v /\ q.st = "sent" /\ q.op = "CommitBlock"
        /\ q.addr = addr /\ q.dest = Peer(n)
    BY DEF Sent
  <1> HIDE DEF q
  <1>5. PICK r \in Calls(b) :
          /\ Writing(b) = {v} /\ Replaying(b) = {} /\ Calls(b) = {r}
          /\ \A p \in Settled(v) : b \notin BlocksOf(p.addr)
          /\ r.caller = v /\ r.st = "done" /\ r.addr = addr /\ r.dest = Peer(n)
    BY <1>1, <1>2, OwnCall DEF BlockInv, Follows
  <1>6. b \in BlocksOf(addr) /\ store[n] \in Store /\ Peer(n) \in Node \ {n}
    BY <1>1, <1>2, Placed, PeerApart DEF TypeOK
  <1>7. Writing(b)' = {v} /\ Replaying(b)' = {} /\ Calls(b)' = {q}
    BY <1>1, <1>3, <1>4, <1>5, <1>6, WritingAfter DEF Replaying, Calls
  <1>8. r.op = "ReplicateBlock"
    BY <1>1, <1>5, CallerAt
  <1>9. store'[n].blk = store[n].blk /\ Fresh(store'[n], addr, b)
    BY <1>6, StagedFresh, <1>3
  <1>10. \A k \in Node : At(k, b)' = At(k, b)
    <2>1. \A k \in Node : ~Underway(k, b) /\ ~Underway(k, b)'
      BY <1>1, <1>3, <1>4, <1>5, <1>7 DEF Underway
    <2>2. \A k \in Node : store'[k].blk = store[k].blk
      BY <1>3, <1>9
    <2> QED
      BY <2>1, <2>2 DEF At, Shows
  <1>11. Still(Peer(n), b)
    BY <1>3, <1>6 DEF Still
  <1>12. q.caller # None /\ q.caller \notin Node \X SubThread
    BY <1>1, <1>4, CallerCases
  <1>13. Family(b)' /\ Backed(b)'
    BY <1>7, <1>12 DEF Family, Lone, Backed
  <1>14. StagedCall(r) /\ StagedCall(q)
    BY <1>4, <1>5, <1>8 DEF StagedCall
  <1>15. Ready(b)'
    <2>1. store[Peer(n)].tmp[b] # None /\ Fresh(store[Peer(n)], addr, b)
      BY <1>5, <1>14 DEF BlockInv, Ready
    <2>2. store'[Peer(n)].tmp[b] # None /\ Fresh(store'[Peer(n)], addr, b)
      BY <1>11, <2>1, FreshKept DEF Still
    <2> QED
      BY <1>3, <1>4, <1>7, <1>9, <2>2 DEF Ready
  <1>16. Faithful(b)'
    <2>1. ASSUME NEW i \in Offset, Covers(addr, b, i)
          PROVE  Carried(q, b, i)' = ByteOf(addr, data, b, i)
      <3>1. Carried(r, b, i) = ByteOf(addr, data, b, i)
        BY <1>1, <1>2, <1>5, <2>1 DEF BlockInv, Faithful
      <3> QED
        BY <1>4, <1>5, <1>8, <1>11, <1>14, <3>1 DEF Carried, Still
    <2> QED
      BY <1>3, <1>4, <1>7, <1>12, <2>1 DEF Faithful
  <1>17. \A i \in Offset : Loose(b, i) => Loose(b, i)'
    BY <1>1, <1>3, <1>5, <1>7 DEF Loose, Queued
  <1> QED
    BY <1>10, <1>13, <1>15, <1>16, <1>17, AgreeKept DEF BlockInv, Quiet

LEMMA CommittedAgrees ==
    ASSUME IInv, MirrorInv, NEW b \in Block, BlockInv(b),
           NEW v \in Writing(b), WriteCommitted(v)
    PROVE  /\ BlockInv(b)'
           /\ \A m \in Node : m = write[v].node => Moved(m, b)
  <1>1. TypeOK /\ v \in Writer /\ write[v].pc = "commitRemote" /\ Acked(v)
    BY DEF IInv, Writing, WriteCommitted
  <1>2. PICK n \in Node, addr \in Addr, data \in Content :
          n = write[v].node /\ addr = write[v].addr /\ data = write[v].data
    BY <1>1, Placed
  <1>3. /\ worker' = worker /\ pending' = pending /\ store' = store
        /\ rpc' = Settled(v)
        /\ \A u \in Writer \ {v} : write'[u] = write[u]
        /\ write'[v].pc = "commit" /\ write'[v].addr = addr
        /\ write'[v].node = n /\ write'[v].data = data
        /\ write'[v].todo = Commit(addr)
    <2>1. write[v] \in [pc : {"replicate", "commitRemote", "commit",
                              "commitAlone", "enqueue"},
                        node : Node, addr : Addr, data : Payload,
                        todo : Seq(FileOp)]
      BY <1>1, BusyType
    <2> QED
      BY <1>1, <1>2, <2>1 DEF WriteCommitted, TypeOK, server, replica
  <1>4. PICK r \in Calls(b) :
          /\ Writing(b) = {v} /\ Replaying(b) = {} /\ Calls(b) = {r}
          /\ \A p \in Settled(v) : b \notin BlocksOf(p.addr)
          /\ r.caller = v /\ r.st = "done" /\ r.addr = addr /\ r.dest = Peer(n)
    BY <1>1, <1>2, OwnCall DEF BlockInv, Follows
  <1>5. b \in BlocksOf(addr) /\ Peer(n) \in Node \ {n}
    BY <1>1, <1>2, Placed, PeerApart
  <1>6. Writing(b)' = {v} /\ Replaying(b)' = {} /\ Calls(b)' = {}
    BY <1>1, <1>3, <1>4, <1>5, WritingAfter DEF Replaying, Calls
  <1>7. r.op = "CommitBlock"
    BY <1>1, <1>4, CallerAt
  <1>8. \A k \in Node : ~Underway(k, b)
    BY <1>1, <1>4 DEF Underway
  <1>9. \A k \in Node \ {n} : At(k, b)' = At(k, b)
    <2>1. \A k \in Node \ {n} : ~Underway(k, b)'
      BY <1>3, <1>6 DEF Underway
    <2> QED
      BY <1>3, <1>8, <2>1, AtKept DEF Still
  <1>10. At(n, b)' = store[n].tmp[b] /\ At(n, b) = AllignedRead(store[n].blk, b)
    <2>1. Underway(n, b)'
      BY <1>3, <1>5, <1>6, CommitRest DEF Underway
    <2> QED
      BY <1>3, <1>8, <2>1 DEF At, Shows
  <1>11. Family(b)' /\ Ready(b)' /\ Backed(b)'
    BY <1>3, <1>6 DEF Family, Lone, Ready, Backed
  <1>12. Faithful(b)'
    <2>1. ASSUME NEW i \in Offset, Covers(addr, b, i)
          PROVE  At(Peer(n), b)'[i] = ByteOf(addr, data, b, i)
      <3>1. Carried(r, b, i) = ByteOf(addr, data, b, i)
        BY <1>1, <1>2, <1>4, <2>1 DEF BlockInv, Faithful
      <3>2. Carried(r, b, i) = At(Peer(n), b)[i]
        BY <1>4, <1>7 DEF Carried, StagedCall
      <3> QED
        BY <1>5, <1>9, <3>1, <3>2
    <2> QED
      BY <1>3, <1>6, <2>1 DEF Faithful
  <1>13. Agree(b)'
    <2>1. \A i \in Offset : Loose(b, i) => Loose(b, i)'
      BY <1>1, <1>2, <1>3, <1>4, <1>6 DEF Loose, Queued
    <2>2. \A i \in Offset : Covers(addr, b, i) => Loose(b, i)'
      BY <1>3, <1>6 DEF Loose
    <2>3. \A i \in Offset : ~Covers(addr, b, i) => At(n, b)'[i] = At(n, b)[i]
      BY <1>1, <1>2, <1>10 DEF BlockInv, Ready, Fresh
    <2> QED
      BY <1>9, <2>1, <2>2, <2>3, AgreeKept DEF BlockInv
  <1>14. ASSUME NEW i \in Offset
         PROVE  At(n, b)'[i] = At(n, b)[i] \/ At(n, b)'[i] \in Brought(b, i)'
    <2>1. ~Covers(addr, b, i) => At(n, b)'[i] = At(n, b)[i]
      BY <1>1, <1>2, <1>10 DEF BlockInv, Ready, Fresh
    <2>2. StagedAt(store[n], addr, data, b)
      BY <1>1, <1>2, <1>5 DEF MirrorInv, Mirrored, Here, Staged
    <2>3. Covers(addr, b, i) => At(n, b)'[i] = ByteOf(addr, data, b, i)
      BY <1>10, <2>2 DEF StagedAt, Carries, Covers, ByteOf
    <2>4. Covers(addr, b, i) => ByteOf(addr, data, b, i) \in Brought(b, i)'
      BY <1>1, <1>3 DEF Brought
    <2> QED
      BY <2>1, <2>3, <2>4
  <1> QED
    BY <1>2, <1>9, <1>11, <1>12, <1>13, <1>14 DEF BlockInv, Moved

LEMMA RejectedAgrees ==
    ASSUME IInv, MirrorInv, NEW b \in Block, BlockInv(b),
           NEW v \in Writing(b), WriteRejected(v)
    PROVE  BlockInv(b)' /\ Quiet(b)
  <1>1. /\ TypeOK /\ v \in Writer /\ write[v].pc = "replicate" /\ Failed(v)
        /\ worker' = worker /\ pending' = pending /\ store' = store
        /\ rpc' = rpc /\ write'[v] = NoWrite
        /\ \A u \in Writer \ {v} : write'[u] = write[u]
    BY DEF IInv, TypeOK, Writing, WriteRejected, replica
  <1>2. Writing(b) = {v} /\ Replaying(b) = {}
    BY <1>1 DEF BlockInv, Family, Lone
  <1>3. Writing(b)' = {} /\ Replaying(b)' = {} /\ Calls(b)' = Calls(b)
    BY <1>1, <1>2, WritingAfter DEF NoWrite, Replaying, Calls
  <1>4. \A r \in Calls(b) : r.caller = None
    BY <1>1, <1>2, CallerAt DEF Calls, Failed
  <1>5. \A k \in Node : Still(k, b) /\ At(k, b)' = At(k, b)
    <2>1. \A k \in Node : Still(k, b)
      BY <1>1 DEF Still
    <2>2. \A k \in Node : Underway(k, b)' <=> Underway(k, b)
      BY <1>1, <1>2, <1>3 DEF Underway
    <2> QED
      BY <2>1, <2>2, AtKept
  <1>6. Family(b)'
    BY <1>3 DEF BlockInv, Family, Lone
  <1>7. Ready(b)'
    BY <1>1, <1>3 DEF BlockInv, Ready
  <1>8. Backed(b)'
    BY <1>1, <1>2, <1>3 DEF BlockInv, Backed
  <1>9. Faithful(b)'
    BY <1>3, <1>4, CallerAssumption DEF Faithful, Caller
  <1>10. \A i \in Offset : Loose(b, i) => Loose(b, i)'
    BY <1>1, <1>2, <1>3 DEF Loose, Queued
  <1> QED
    BY <1>5, <1>6, <1>7, <1>8, <1>9, <1>10, AgreeKept DEF BlockInv, Quiet

\* What is queued stays queued, and what is added is queued or dropped.
LEMMA AddPendingQueues ==
    ASSUME TypeOK, NEW n \in Node, NEW addr \in Addr,
           NEW p \in AddPendingBlock(pending[n], addr),
           pending' = [pending EXCEPT ![n] = p],
           suspect' = suspect \cup Dropped(p, addr)
    PROVE  /\ addr \in Waiting(pending'[n]) \/ BlocksOf(addr) \subseteq suspect'
           /\ \A m \in Node : Waiting(pending[m]) \subseteq Waiting(pending'[m])
  <1>1. pending[n] \in Pending /\ pending'[n] = p
    BY DEF TypeOK
  <1> QED
    BY <1>1, WaitingPushed DEF TypeOK

\* Whoever calls for a write has its address, and commits it elsewhere.
LEMMA WriterCalls ==
    ASSUME IInv, MirrorInv, NEW b \in Block, Family(b), NEW v \in Writing(b)
    PROVE  \A r \in Calls(b) : /\ Follows(r, write[v].node, write[v].addr)
                               /\ write[v].pc # "commit"
                               /\ write[v].pc \in {"commitAlone", "enqueue"} =>
                                    r.caller \notin Writer
  <1> SUFFICES ASSUME NEW r \in Calls(b)
               PROVE  /\ Follows(r, write[v].node, write[v].addr)
                      /\ write[v].pc # "commit"
                      /\ write[v].pc \in {"commitAlone", "enqueue"} =>
                           r.caller \notin Writer
    OBVIOUS
  <1>1. CASE r.caller = None
    BY <1>1, CallerCases DEF Family
  <1>2. CASE r.caller \in Writing(b)
    <2>1. r.caller = v /\ v \in Writer
      BY <1>2 DEF Family, Lone, Writing
    <2> QED
      BY <2>1, CallerAt
  <1>3. CASE r.caller \in Replaying(b)
    <2>1. r.caller \in Node \X SubThread /\ r.caller \notin Writer
      BY <1>3, CallerCases DEF Replaying
    <2>2. Follows(r, r.caller[1], worker[r.caller].addr)
      BY <2>1, CallerAt
    <2> QED
      BY <1>3, <2>1, <2>2 DEF Family, Follows
  <1> QED
    BY <1>1, <1>2, <1>3, CallerAt

LEMMA OpAgrees ==
    ASSUME IInv, MirrorInv, NEW b \in Block, BlockInv(b),
           NEW v \in Writing(b), WriteCommitOp(v) \/ WriteAloneCommitted(v)
    PROVE  BlockInv(b)' /\ Quiet(b)
  <1>1. TypeOK /\ v \in Writer /\ write[v].pc \in {"commit", "commitAlone"}
    BY DEF IInv, Writing, WriteCommitOp, WriteAloneCommitted
  <1>2. PICK n \in Node, addr \in Addr, data \in Content, todo \in Seq(FileOp) :
          /\ n = write[v].node /\ addr = write[v].addr /\ data = write[v].data
          /\ todo = write[v].todo
    BY <1>1, BusyType
  <1>3. /\ worker' = worker /\ pending' = pending /\ rpc' = rpc
        /\ \A u \in Writer \ {v} : write'[u] = write[u]
        /\ write'[v].addr = addr /\ write'[v].node = n /\ write'[v].data = data
        /\ store'[n] = Apply(store[n], Head(todo))
        /\ \A k \in Node \ {n} : store'[k] = store[k]
        /\ \/ /\ Len(todo) # 1 /\ write'[v].pc = write[v].pc
              /\ write'[v].todo = Tail(todo)
           \/ Len(todo) = 1 /\ write'[v].pc = "enqueue"
    <2>1. write[v] \in [pc : {"replicate", "commitRemote", "commit",
                              "commitAlone", "enqueue"},
                        node : Node, addr : Addr, data : Payload,
                        todo : Seq(FileOp)]
      BY <1>1, BusyType
    <2> QED
      BY <1>1, <1>2, <2>1 DEF WriteCommitOp, WriteAloneCommitted, TypeOK, replica
  <1>4. /\ b \in BlocksOf(addr) /\ store[n] \in Store
        /\ Writing(b) = {v} /\ Family(b)
        /\ \A r \in Calls(b) : /\ r.dest = Peer(n) /\ r.addr = addr
                               /\ r.caller \notin Writer /\ write[v].pc # "commit"
    <2>1. b \in BlocksOf(addr) /\ store[n] \in Store
      BY <1>1, <1>2, Placed DEF TypeOK
    <2>2. Writing(b) = {v} /\ Family(b)
      BY DEF BlockInv, Family, Lone
    <2>3. \A r \in Calls(b) :
            /\ Follows(r, n, addr)
            /\ write[v].pc # "commit"
            /\ write[v].pc \in {"commitAlone", "enqueue"} => r.caller \notin Writer
      BY <1>2, <2>2, WriterCalls
    <2> QED
      BY <1>1, <2>1, <2>2, <2>3 DEF Follows
  <1>5. Writing(b)' = {v} /\ Replaying(b)' = Replaying(b) /\ Calls(b)' = Calls(b)
    BY <1>1, <1>3, <1>4, WritingAfter DEF Replaying, Calls
  <1>6. /\ todo \in Rests(addr)
        /\ b \in ToRename(todo) => store[n].tmp[b] # None
    BY <1>1, <1>2 DEF MirrorInv, Mirrored, Here, Midway, StagedAt
  <1>7. At(n, b)' = At(n, b)
    <2>1. Underway(n, b) <=> b \in ToRename(todo)
      BY <1>1, <1>2, <1>4, PeerApart DEF Underway
    <2>2. Underway(n, b)' <=> Len(todo) # 1 /\ b \in ToRename(Tail(todo))
      BY <1>1, <1>2, <1>3, <1>4, <1>5, PeerApart DEF Underway
    <2>3. Shows(store'[n], b, Len(todo) # 1 /\ b \in ToRename(Tail(todo)))
            = Shows(store[n], b, b \in ToRename(todo))
      BY <1>3, <1>4, <1>6, OpShows
    <2> QED
      BY <2>1, <2>2, <2>3 DEF At, Shows
  <1>8. Still(Peer(n), b) /\ At(Peer(n), b)' = At(Peer(n), b)
    <2>1. Still(Peer(n), b)
      BY <1>3, PeerApart DEF Still
    <2>2. Underway(Peer(n), b)' <=> Underway(Peer(n), b)
      BY <1>2, <1>3, <1>4, <1>5, PeerApart DEF Underway
    <2> QED
      BY <2>1, <2>2, AtKept
  <1>9. Family(b)'
    BY <1>1, <1>2, <1>3, <1>4, <1>5 DEF Family, Lone
  <1>10. Ready(b)'
    <2>1. write'[v].pc # "commitRemote"
      BY <1>1, <1>3
    <2> QED
      BY <1>4, <1>5, <1>8, <2>1, FreshKept DEF BlockInv, Ready, Still
  <1>11. write'[v].pc # "replicate"
    BY <1>1, <1>3
  <1>12. Backed(b)'
    BY <1>1, <1>3, <1>4, <1>5 DEF BlockInv, Backed
  <1>13. Faithful(b)'
    <2>1. ASSUME write'[v].pc = "commit", NEW i \in Offset, Covers(addr, b, i)
          PROVE  At(Peer(n), b)'[i] = ByteOf(addr, data, b, i)
      <3>1. write[v].pc = "commit"
        BY <1>3, <2>1
      <3> QED
        BY <1>2, <1>8, <2>1, <3>1 DEF BlockInv, Faithful
    <2> QED
      BY <1>1, <1>3, <1>4, <1>5, <2>1 DEF Faithful, Requeued
  <1>14. \A i \in Offset : Loose(b, i) => Loose(b, i)'
    BY <1>2, <1>3, <1>4, <1>5, <1>11 DEF Loose, Queued
  <1>15. \A k \in Node : At(k, b)' = At(k, b)
    BY <1>7, <1>8, PeerApart
  <1> QED
    BY <1>9, <1>10, <1>12, <1>13, <1>14, <1>15, AgreeKept DEF BlockInv, Quiet

LEMMA ValidAgrees ==
    ASSUME IInv, MirrorInv, NEW b \in Block, BlockInv(b),
           NEW v \in Writing(b), WriteValid(v)
    PROVE  BlockInv(b)' /\ Quiet(b)
  <1>1. /\ TypeOK /\ v \in Writer /\ write[v].pc = "commit"
        /\ Len(write[v].todo) = 1
    BY DEF IInv, Writing, WriteValid
  <1>2. PICK n \in Node, addr \in Addr, data \in Content, todo \in Seq(FileOp) :
          /\ n = write[v].node /\ addr = write[v].addr /\ data = write[v].data
          /\ todo = write[v].todo
    BY <1>1, BusyType
  <1>3. /\ worker' = worker /\ pending' = pending /\ rpc' = rpc
        /\ \A u \in Writer \ {v} : write'[u] = write[u]
        /\ write'[v].pc = "idle"
        /\ store'[n] = Apply(store[n], Head(todo))
        /\ \A k \in Node \ {n} : store'[k] = store[k]
    BY <1>1, <1>2 DEF WriteValid, TypeOK, replica, NoWrite
  <1>4. b \in BlocksOf(addr) /\ store[n] \in Store
    BY <1>1, <1>2, Placed DEF TypeOK
  <1>5. Writing(b) = {v} /\ Replaying(b) = {} /\ Calls(b) = {}
    BY <1>1, WriterCalls DEF BlockInv, Family, Lone
  <1>6. Writing(b)' = {} /\ Replaying(b)' = {} /\ Calls(b)' = {}
    BY <1>1, <1>3, <1>5, WritingAfter DEF Replaying, Calls
  <1>7. /\ Midway(store[n], addr, data, todo) /\ todo \in Rests(addr)
        /\ b \in ToRename(todo) => store[n].tmp[b] # None
    BY <1>1, <1>2 DEF MirrorInv, Mirrored, Here, Midway, StagedAt
  <1>8. \A k \in Node : ~Underway(k, b)'
    BY <1>6 DEF Underway
  <1>9. At(n, b)' = At(n, b)
    <2>1. Underway(n, b) <=> b \in ToRename(todo)
      BY <1>1, <1>2, <1>5 DEF Underway
    <2>2. Shows(store'[n], b, Len(todo) # 1 /\ b \in ToRename(Tail(todo)))
            = Shows(store[n], b, b \in ToRename(todo))
      BY <1>3, <1>4, <1>7, OpShows
    <2> QED
      BY <1>1, <1>2, <1>8, <2>1, <2>2 DEF At, Shows
  <1>10. At(Peer(n), b)' = At(Peer(n), b)
    <2>1. Still(Peer(n), b)
      BY <1>3, PeerApart DEF Still
    <2>2. ~Underway(Peer(n), b)
      BY <1>2, <1>5, PeerApart DEF Underway
    <2> QED
      BY <1>8, <2>1, <2>2, AtKept, PeerApart
  <1>11. ASSUME NEW i \in Offset, Covers(addr, b, i)
         PROVE  At(n, b)'[i] = At(Peer(n), b)'[i]
    <2>1. LandedAt(store'[n], addr, data, b)
      BY <1>1, <1>2, <1>3, <1>4, <1>7, MidwayStep DEF Landed
    <2>2. At(n, b)'[i] = ByteOf(addr, data, b, i)
      BY <1>8, <1>11, <2>1
         DEF At, Shows, LandedAt, AllignedRead, Carries, Covers, ByteOf
    <2>3. At(Peer(n), b)[i] = ByteOf(addr, data, b, i)
      BY <1>1, <1>2, <1>11 DEF BlockInv, Faithful
    <2> QED
      BY <1>10, <2>2, <2>3
  <1>12. Agree(b)'
    <2> SUFFICES ASSUME NEW i \in Offset
                 PROVE  Loose(b, i)' \/ At(Primary, b)'[i] = At(Backup, b)'[i]
      BY DEF Agree
    <2>1. CASE Covers(addr, b, i)
      BY <1>11, <2>1, PeerApart DEF Node
    <2>2. CASE ~Covers(addr, b, i)
      <3>1. Loose(b, i) => Loose(b, i)'
        BY <1>2, <1>3, <1>5, <2>2 DEF Loose, Queued
      <3> QED
        BY <1>9, <1>10, <3>1, PeerApart DEF BlockInv, Agree, Node
    <2> QED
      BY <2>1, <2>2
  <1>13. Family(b)' /\ Ready(b)' /\ Backed(b)' /\ Faithful(b)'
    BY <1>6 DEF Family, Lone, Ready, Backed, Faithful
  <1> QED
    BY <1>9, <1>10, PeerApart, <1>12, <1>13 DEF BlockInv, Quiet

LEMMA EnqueueAgrees ==
    ASSUME IInv, MirrorInv, NEW b \in Block, BlockInv(b),
           NEW v \in Writing(b), WriteEnqueue(v), b \notin suspect'
    PROVE  BlockInv(b)' /\ Quiet(b)
  <1>1. TypeOK /\ v \in Writer /\ write[v].pc = "enqueue"
    BY DEF IInv, Writing, WriteEnqueue
  <1>2. PICK n \in Node, addr \in Addr :
          n = write[v].node /\ addr = write[v].addr
    BY <1>1, Placed
  <1>3. /\ worker' = worker /\ rpc' = rpc /\ store' = store
        /\ \A u \in Writer \ {v} : write'[u] = write[u]
        /\ write'[v].pc = "idle"
    BY <1>1, <1>2 DEF WriteEnqueue, TypeOK, NoWrite
  <1>4. /\ addr \in Waiting(pending'[n])
        /\ \A m \in Node : Waiting(pending[m]) \subseteq Waiting(pending'[m])
    <2>1. PICK p \in AddPendingBlock(pending[n], addr) :
            /\ pending' = [pending EXCEPT ![n] = p]
            /\ suspect' = suspect \cup Dropped(p, addr)
      BY <1>2 DEF WriteEnqueue
    <2>2. b \in BlocksOf(addr)
      BY <1>2 DEF Writing
    <2> QED
      BY <1>1, <2>1, <2>2, AddPendingQueues
  <1>5. /\ Writing(b) = {v} /\ Family(b)
        /\ \A r \in Calls(b) : /\ r.dest = Peer(n) /\ r.addr = addr
                               /\ r.caller \notin Writer
    BY <1>1, <1>2, WriterCalls DEF BlockInv, Family, Lone, Follows
  <1>6. Writing(b)' = {} /\ Replaying(b)' = Replaying(b) /\ Calls(b)' = Calls(b)
    BY <1>1, <1>3, <1>5, WritingAfter DEF Replaying, Calls
  <1>7. \A k \in Node : Still(k, b) /\ At(k, b)' = At(k, b)
    <2>1. \A k \in Node : Still(k, b)
      BY <1>3 DEF Still
    <2>2. \A k \in Node : Underway(k, b)' <=> Underway(k, b)
      BY <1>1, <1>3, <1>5, <1>6 DEF Underway
    <2> QED
      BY <2>1, <2>2, AtKept
  <1>8. Family(b)'
    BY <1>3, <1>5, <1>6 DEF Family, Lone
  <1>9. Ready(b)'
    BY <1>3, <1>6 DEF BlockInv, Ready
  <1>10. Backed(b)'
    BY <1>1, <1>2, <1>4, <1>5, <1>6, PeerApart DEF BlockInv, Backed
  <1>11. Faithful(b)'
    <2>1. ASSUME NEW x \in Replaying(b)
          PROVE  Requeued(x, b)'
      <3>1. x[1] = n /\ worker[x].addr = addr
        BY <1>2, <1>5, <2>1 DEF Family
      <3> QED
        BY <1>3, <1>4, <3>1 DEF Requeued
    <2>2. \A r \in Calls(b) : r.caller \in Node \X SubThread =>
                                r.caller \in Replaying(b)
      BY CallerAt
    <2> QED
      BY <1>5, <1>6, <2>1, <2>2 DEF Faithful
  <1>12. \A i \in Offset : Loose(b, i) => Loose(b, i)'
    <2>1. \A i \in Offset : Queued(b * BLOCK_SIZE + i) =>
                              Queued(b * BLOCK_SIZE + i)'
      BY <1>4 DEF Queued
    <2>2. \A i \in Offset : Covers(addr, b, i) => Queued(b * BLOCK_SIZE + i)'
      BY <1>4 DEF Covers, Queued
    <2> QED
      BY <1>2, <1>3, <1>5, <1>6, <2>1, <2>2 DEF Loose
  <1> QED
    BY <1>7, <1>8, <1>9, <1>10, <1>11, <1>12, AgreeKept DEF BlockInv, Quiet

-----------------------------------------------------------------------------
(* A call is served, or fails.                                               *)

\* What becomes of the only call at b.
LEMMA ServedAt ==
    ASSUME IInv, MirrorInv, NEW b \in Block, Family(b), NEW r \in Calls(b),
           Serve(r) \/ Unreachable(r)
    PROVE  \E q :
             /\ q.caller = r.caller /\ q.addr = r.addr /\ q.dest = r.dest
             /\ q.op = r.op /\ q.data = r.data
             /\ Calls(b)' = {} \/ Calls(b)' = {q}
             /\ \/ ServeReplicate(r) /\ q.st = "done"
                \/ ServeCommit(r) /\ q.st = "commit" /\ q.todo = r.todo
                \/ /\ ServeCommitOp(r) /\ Len(r.todo) # 1
                   /\ q.st = "commit" /\ q.todo = Tail(r.todo)
                \/ ServeCommitOp(r) /\ Len(r.todo) = 1 /\ q.st = "done"
                \/ Unreachable(r) /\ Calls(b)' = {}
             /\ ServeCommit(r) \/ (ServeCommitOp(r) /\ Len(r.todo) # 1) =>
                  Calls(b)' = {q}
  <1> DEFINE answered == [r EXCEPT !.st = "done", !.todo = <<>>]
             begun    == [r EXCEPT !.st = "commit"]
             next     == [r EXCEPT !.todo = Tail(@)]
  <1>1. r \in rpc /\ b \in BlocksOf(r.addr) /\ r \in Call /\ Calls(b) = {r}
    BY DEF Calls, IInv, TypeOK, Family, Lone
  <1>2. \A q \in {answered, begun, next} :
          /\ q.caller = r.caller /\ q.addr = r.addr /\ q.op = r.op
          /\ q.data = r.data /\ q.dest = r.dest
    BY <1>1 DEF Call
  <1>3. /\ answered.st = "done" /\ begun.st = "commit" /\ next.st = r.st
        /\ begun.todo = r.todo /\ next.todo = Tail(r.todo)
    BY <1>1 DEF Call
  <1>4. Reply(r) = rpc \ {r} \/ Reply(r) = (rpc \ {r}) \cup {answered}
    BY DEF Reply
  <1> HIDE DEF answered, begun, next
  <1>5. ASSUME NEW q, q.addr = r.addr
        PROVE  /\ rpc' = rpc \ {r} => Calls(b)' = {}
               /\ rpc' = (rpc \ {r}) \cup {q} => Calls(b)' = {q}
    BY <1>1, <1>5 DEF Calls
  <1>6. CASE ServeReplicate(r)
    <2>1. ~ServeCommit(r) /\ ~ServeCommitOp(r)
      BY <1>1, <1>6, CallStepType DEF ServeReplicate, ServeCommit, ServeCommitOp
    <2> QED
      BY <1>2, <1>3, <1>4, <1>5, <1>6, <2>1 DEF ServeReplicate
  <1>7. CASE ServeCommit(r)
    BY <1>2, <1>3, <1>5, <1>7 DEF ServeCommit, begun
  <1>8. CASE ServeCommitOp(r)
    <2>1. /\ ~ServeCommit(r) /\ r.st = "commit"
          /\ \/ Len(r.todo) # 1 /\ rpc' = (rpc \ {r}) \cup {next}
             \/ Len(r.todo) = 1 /\ rpc' = Reply(r)
      BY <1>1, <1>8, LastOp DEF next, ServeCommit
    <2>2. CASE Len(r.todo) # 1
      <3>1. rpc' = (rpc \ {r}) \cup {next} /\ next.addr = r.addr
        BY <1>2, <2>1, <2>2
      <3>2. Calls(b)' = {next}
        BY <1>5, <3>1
      <3> QED
        BY <1>2, <1>3, <1>8, <2>1, <2>2, <3>2
    <2>3. CASE Len(r.todo) = 1
      <3>1. rpc' = Reply(r) /\ answered.addr = r.addr
        BY <1>2, <2>1, <2>3
      <3>2. Calls(b)' = {} \/ Calls(b)' = {answered}
        BY <1>4, <1>5, <3>1
      <3> QED
        BY <1>2, <1>3, <1>8, <2>1, <2>3, <3>2
    <2> QED
      BY <2>1, <2>2, <2>3
  <1>9. CASE Unreachable(r)
    <2>1. Calls(b)' = {} /\ r.st = "sent"
      BY <1>5, <1>9 DEF Unreachable
    <2>2. /\ ~ServeCommitOp(r)
          /\ ServeCommit(r) => FALSE
      BY <1>9, <2>1 DEF ServeCommitOp, ServeCommit, Unreachable
    <2> QED
      BY <1>2, <1>9, <2>1, <2>2
  <1> QED
    BY <1>6, <1>7, <1>8, <1>9 DEF Serve

\* What serving a call at b leaves alone.
LEMMA ServedRest ==
    ASSUME IInv, MirrorInv, NEW b \in Block, BlockInv(b), NEW r \in Calls(b),
           Serve(r) \/ Unreachable(r)
    PROVE  /\ r \in Call /\ r.dest \in Node /\ r.addr \in Addr
           /\ b \in BlocksOf(r.addr) /\ Calls(b) = {r}
           /\ write' = write /\ worker' = worker /\ pending' = pending
           /\ Writing(b)' = Writing(b) /\ Replaying(b)' = Replaying(b)
           /\ \A w \in Writing(b) : /\ write[w].node = Peer(r.dest)
                                    /\ write[w].pc # "commit"
           /\ Still(Peer(r.dest), b) /\ At(Peer(r.dest), b)' = At(Peer(r.dest), b)
           /\ Family(b)' /\ Backed(b)'
           /\ \A i \in Offset : Loose(b, i) => Loose(b, i)'
  <1>1. /\ r \in Call /\ r.dest \in Node /\ r.addr \in Addr
        /\ b \in BlocksOf(r.addr) /\ Calls(b) = {r} /\ TypeOK
    BY Placed DEF Calls, IInv, BlockInv, Family, Lone
  <1>2. write' = write /\ worker' = worker /\ pending' = pending
    BY DEF Serve, ServeReplicate, ServeCommit, ServeCommitOp, Unreachable, replica
  <1>3. Writing(b)' = Writing(b) /\ Replaying(b)' = Replaying(b)
    BY <1>2 DEF Writing, Replaying
  <1>4. \A w \in Writing(b) : write[w].node = Peer(r.dest) /\ write[w].pc # "commit"
    BY <1>1, WriterCalls, Placed, PeerApart DEF BlockInv, Follows
  <1>5. \A q \in Calls(b)' : /\ q.caller = r.caller /\ q.addr = r.addr
                             /\ q.dest = r.dest /\ q.op = r.op
    BY ServedAt DEF BlockInv
  <1>6. Lone(Calls(b)')
    BY ServedAt DEF BlockInv, Lone
  <1>7. store'[Peer(r.dest)] = store[Peer(r.dest)]
    BY <1>1, PeerApart DEF Serve, ServeReplicate, ServeCommit, ServeCommitOp,
                           Unreachable, server, TypeOK
  <1>8. At(Peer(r.dest), b)' = At(Peer(r.dest), b)
    <2>1. Underway(Peer(r.dest), b)' <=> Underway(Peer(r.dest), b)
      BY <1>1, <1>2, <1>3, <1>5, PeerApart DEF Underway
    <2> QED
      BY <1>7, <2>1, AtKept DEF Still
  <1>9. Family(b)'
    BY <1>1, <1>2, <1>3, <1>5, <1>6 DEF BlockInv, Family, Follows
  <1>10. Backed(b)'
    BY <1>1, <1>2, <1>3, <1>5 DEF BlockInv, Backed
  <1>11. \A i \in Offset : Loose(b, i) => Loose(b, i)'
    BY <1>2, <1>3 DEF Loose, Queued
  <1> QED
    BY <1>1, <1>2, <1>3, <1>4, <1>7, <1>8, <1>9, <1>10, <1>11 DEF Still

LEMMA ServedFaithful ==
    ASSUME IInv, MirrorInv, NEW b \in Block, BlockInv(b), NEW r \in Calls(b),
           Serve(r) \/ Unreachable(r),
           \A q \in Calls(b)' : \A i \in Offset : Covers(r.addr, b, i) =>
             Carried(q, b, i)' = Carried(r, b, i)
    PROVE  Faithful(b)'
  <1>1. /\ r \in Call /\ r.dest \in Node /\ r.addr \in Addr /\ Calls(b) = {r}
        /\ write' = write /\ worker' = worker /\ pending' = pending
        /\ Writing(b)' = Writing(b)
        /\ \A w \in Writing(b) : write[w].pc # "commit"
        /\ At(Peer(r.dest), b)' = At(Peer(r.dest), b)
    BY ServedRest
  <1>2. \A q \in Calls(b)' : q.caller = r.caller /\ q.addr = r.addr
    BY ServedAt DEF BlockInv
  <1>3. ASSUME NEW q \in Calls(b)', NEW i \in Offset, Covers(q.addr, b, i)
        PROVE  /\ q.caller \in Writer =>
                    Carried(q, b, i)' = ByteOf(q.addr, write[q.caller].data, b, i)
               /\ q.caller = None =>
                    \A w \in Writing(b) : write[w].pc = "commitRemote" =>
                      Carried(q, b, i)' = ByteOf(q.addr, write[w].data, b, i)
               /\ q.caller \in Node \X SubThread =>
                    \/ Requeued(q.caller, b)'
                    \/ Carried(q, b, i)' = At(q.caller[1], b)'[i]
    <2>1. /\ q.caller = r.caller /\ q.addr = r.addr
          /\ Carried(q, b, i)' = Carried(r, b, i)
      BY <1>2, <1>3
    <2>2. /\ r.caller \in Writer =>
               Carried(r, b, i) = ByteOf(r.addr, write[r.caller].data, b, i)
          /\ r.caller = None =>
               \A w \in Writing(b) : write[w].pc = "commitRemote" =>
                 Carried(r, b, i) = ByteOf(r.addr, write[w].data, b, i)
          /\ r.caller \in Node \X SubThread =>
               \/ Requeued(r.caller, b)
               \/ Carried(r, b, i) = At(r.caller[1], b)[i]
      BY <1>3, <2>1 DEF BlockInv, Faithful
    <2>3. r.caller \in Node \X SubThread => r.caller[1] = Peer(r.dest)
      <3> SUFFICES ASSUME r.caller \in Node \X SubThread
                   PROVE  r.caller[1] = Peer(r.dest)
        OBVIOUS
      <3>1. r.dest = Peer(r.caller[1]) /\ r.caller[1] \in Node
        BY CallerAt DEF Follows
      <3> QED
        BY <3>1, PeerApart
    <2>4. r.caller \in Node \X SubThread =>
            (Requeued(r.caller, b)' <=> Requeued(r.caller, b))
      BY <1>1 DEF Requeued
    <2>5. CASE r.caller \in Writer
      BY <1>1, <2>1, <2>2, <2>5, CallerCases
    <2>6. CASE r.caller \in Node \X SubThread
      <3> PICK x : x = r.caller
        OBVIOUS
      <3>1. \/ Requeued(x, b)'
            \/ Carried(q, b, i)' = At(x[1], b)'[i]
        BY <1>1, <2>1, <2>2, <2>3, <2>4, <2>6
      <3> QED
        BY <2>1, <2>6, <3>1, CallerCases
    <2>7. CASE r.caller = None
      BY <2>1, <2>2, <2>7, CallerCases
    <2> QED
      BY <2>1, <2>5, <2>6, <2>7
  <1> QED
    BY <1>1, <1>3 DEF Faithful

LEMMA ReplicateServedAgrees ==
    ASSUME IInv, MirrorInv, NEW b \in Block, ~PastIntMax(b), BlockInv(b),
           NEW r \in Calls(b), ServeReplicate(r)
    PROVE  BlockInv(b)' /\ Quiet(b)
  <1>1. Serve(r)
    BY DEF Serve
  <1>2. PICK k \in Node, addr \in Addr, data \in Content :
          k = r.dest /\ addr = r.addr /\ data = r.data
    BY <1>1, ServedRest, CallStepType DEF ServeReplicate
  <1>3. /\ r \in Call /\ b \in BlocksOf(addr) /\ Calls(b) = {r}
        /\ write' = write /\ Writing(b)' = Writing(b)
        /\ \A w \in Writing(b) : write[w].node = Peer(k)
        /\ Still(Peer(k), b) /\ At(Peer(k), b)' = At(Peer(k), b)
        /\ Family(b)' /\ Backed(b)'
        /\ \A i \in Offset : Loose(b, i) => Loose(b, i)'
        /\ r.st = "sent" /\ r.op = "ReplicateBlock"
        /\ store[k] \in Store /\ store'[k] = Write(store[k], addr, data)
    BY <1>1, <1>2, ServedRest DEF ServeReplicate, IInv, TypeOK
  <1>4. \A q \in Calls(b)' : /\ q.addr = addr /\ q.dest = k /\ q.st = "done"
                             /\ q.op = "ReplicateBlock"
    <2>1. ~ServeCommit(r) /\ ~ServeCommitOp(r)
      BY <1>3 DEF ServeCommit, ServeCommitOp
    <2> QED
      BY <1>1, <1>2, <1>3, <2>1, ServedAt DEF BlockInv
  <1>5. /\ store'[k].blk = store[k].blk /\ store'[k].tmp[b] # None
        /\ Fresh(store'[k], addr, b)
        /\ \A i \in Offset : Covers(addr, b, i) =>
             store'[k].tmp[b][i] = ByteOf(addr, data, b, i)
    BY <1>3, StagedFresh
  <1>6. At(k, b)' = At(k, b)
    <2>1. ~Underway(k, b) /\ ~Underway(k, b)'
      BY <1>3, <1>4, PeerApart DEF Underway
    <2> QED
      BY <1>5, <2>1 DEF At, Shows
  <1>7. Ready(b)'
    <2>1. \A w \in Writing(b) : write[w].pc = "commitRemote" =>
            Fresh(store'[Peer(k)], write[w].addr, b)
      BY <1>3, FreshKept DEF BlockInv, Ready
    <2> QED
      BY <1>3, <1>4, <1>5, <2>1 DEF Ready
  <1>8. Faithful(b)'
    <2>1. ASSUME NEW q \in Calls(b)', NEW i \in Offset, Covers(addr, b, i)
          PROVE  Carried(q, b, i)' = Carried(r, b, i)
      <3>1. Carried(r, b, i) = ByteOf(addr, data, b, i)
        BY <1>2, <1>3 DEF Carried
      <3>2. q.dest = k /\ q.st = "done" /\ q.op = "ReplicateBlock"
        BY <1>4
      <3>3. Carried(q, b, i)' = store'[k].tmp[b][i]
        BY <3>2 DEF Carried, StagedCall
      <3> QED
        BY <1>5, <2>1, <3>1, <3>3
    <2> QED
      BY <1>1, <1>2, <2>1, ServedFaithful
  <1>9. \A m \in Node : At(m, b)' = At(m, b)
    BY <1>3, <1>6, PeerApart
  <1> QED
    BY <1>3, <1>7, <1>8, <1>9, AgreeKept DEF BlockInv, Quiet

\* What a CommitBlock is about to show is still to be agreed on.
LEMMA CommitLoose ==
    ASSUME IInv, MirrorInv, NEW b \in Block, BlockInv(b), NEW r \in Calls(b),
           r.op = "CommitBlock", NEW i \in Offset, Covers(r.addr, b, i)
    PROVE  Loose(b, i)
  <1>1. CASE r.caller = None
    <2>1. CASE \E w \in Writing(b) : write[w].pc = "commitRemote"
      BY <1>1, <2>1 DEF BlockInv, Family, Follows, Loose
    <2>2. CASE Replaying(b) # {}
      BY <1>1, <2>2 DEF BlockInv, Family, Follows, Loose
    <2>3. CASE r.addr \in Waiting(pending[Peer(r.dest)])
      <3>1. Peer(r.dest) \in Node
        BY Placed, PeerApart DEF IInv
      <3> QED
        BY <2>3, <3>1 DEF Loose, Queued, Covers
    <2> QED
      BY <1>1, <2>1, <2>2, <2>3 DEF BlockInv, Backed
  <1>2. CASE r.caller \in Writing(b)
    <2>1. r.caller \in Writer
      BY <1>2 DEF Writing
    <2>2. write[r.caller].pc # "replicate" /\ write[r.caller].addr = r.addr
      BY <2>1, CallerAt DEF Follows
    <2> QED
      BY <1>2, <2>2 DEF Loose
  <1>3. CASE r.caller \in Replaying(b)
    <2>1. r.caller \in Node \X SubThread
      BY <1>3 DEF Replaying
    <2>2. worker[r.caller].addr = r.addr
      BY <2>1, CallerAt DEF Follows
    <2> QED
      BY <1>3, <2>2 DEF Loose
  <1> QED
    BY <1>1, <1>2, <1>3, CallerAt

\* It is what a write brings, or the node is behind there.
LEMMA CommitBrought ==
    ASSUME IInv, MirrorInv, NEW b \in Block, BlockInv(b), NEW r \in Calls(b),
           r.op = "CommitBlock", NEW i \in Offset, Covers(r.addr, b, i)
    PROVE  Carried(r, b, i) \in Brought(b, i) \/ Behind(r.dest, b, i)
  <1>1. TypeOK /\ r.dest \in Node /\ Family(b)
    BY Placed DEF IInv, BlockInv
  <1>2. ASSUME NEW w \in Writing(b), write[w].pc = "commitRemote",
               Follows(r, write[w].node, write[w].addr),
               Carried(r, b, i) = ByteOf(r.addr, write[w].data, b, i)
        PROVE  Carried(r, b, i) \in Brought(b, i)
    BY <1>1, <1>2, Placed DEF Brought, Follows
  <1>3. ASSUME NEW x \in Replaying(b), Follows(r, x[1], worker[x].addr)
        PROVE  Behind(r.dest, b, i)
    <2>1. /\ x \in Node \X SubThread /\ x[1] = Peer(r.dest)
          /\ worker[x].addr = r.addr /\ worker[x].addr # None
      BY <1>3, PeerApart DEF Follows, Replaying
    <2>2. PICK t \in SubThread : x = <<Peer(r.dest), t>>
      BY <2>1
    <2> QED
      BY <2>1, <2>2 DEF Behind
  <1>4. CASE r.caller = None
    <2>1. ASSUME NEW w \in Writing(b), write[w].pc = "commitRemote"
          PROVE  Carried(r, b, i) \in Brought(b, i)
      BY <1>1, <1>2, <1>4, <2>1 DEF BlockInv, Faithful, Family
    <2>2. CASE Replaying(b) # {}
      BY <1>1, <1>3, <1>4, <2>2 DEF Family
    <2>3. CASE r.addr \in Waiting(pending[Peer(r.dest)])
      BY <2>3 DEF Behind
    <2> QED
      BY <1>4, <2>1, <2>2, <2>3 DEF BlockInv, Backed
  <1>5. CASE r.caller \in Writing(b)
    <2>1. r.caller \in Writer
      BY <1>5 DEF Writing
    <2>2. /\ write[r.caller].pc = "commitRemote"
          /\ Follows(r, write[r.caller].node, write[r.caller].addr)
          /\ Carried(r, b, i) = ByteOf(r.addr, write[r.caller].data, b, i)
      BY <2>1, CallerAt DEF BlockInv, Faithful
    <2> QED
      BY <1>2, <1>5, <2>2
  <1>6. CASE r.caller \in Replaying(b)
    <2>1. r.caller \in Node \X SubThread
      BY <1>6 DEF Replaying
    <2> QED
      BY <1>3, <1>6, <2>1, CallerAt
  <1> QED
    BY <1>4, <1>5, <1>6, CallerAt

LEMMA CommitServedAgrees ==
    ASSUME IInv, MirrorInv, NEW b \in Block, BlockInv(b),
           NEW r \in Calls(b), ServeCommit(r)
    PROVE  BlockInv(b)' /\ Moved(r.dest, b)
  <1>1. Serve(r) /\ r \in rpc
    BY DEF Serve, Calls
  <1>2. PICK k \in Node, addr \in Addr : k = r.dest /\ addr = r.addr
    BY <1>1, ServedRest
  <1>3. /\ r \in Call /\ b \in BlocksOf(addr) /\ Calls(b) = {r}
        /\ write' = write /\ Writing(b)' = Writing(b)
        /\ \A w \in Writing(b) : write[w].node = Peer(k)
        /\ Still(Peer(k), b) /\ At(Peer(k), b)' = At(Peer(k), b)
        /\ Family(b)' /\ Backed(b)'
        /\ \A i \in Offset : Loose(b, i) => Loose(b, i)'
        /\ r.st = "sent" /\ r.op = "CommitBlock" /\ store' = store
    BY <1>1, <1>2, ServedRest DEF ServeCommit
  <1>4. r.todo = Commit(addr)
    BY <1>1, <1>2, <1>3 DEF MirrorInv, CallsFit, CallFits
  <1>5. PICK q : /\ Calls(b)' = {q}
                 /\ q.addr = addr /\ q.dest = k /\ q.st = "commit"
                 /\ q.op = "CommitBlock" /\ q.todo = Commit(addr)
    <2>1. ~ServeReplicate(r) /\ ~ServeCommitOp(r)
      BY <1>3 DEF ServeReplicate, ServeCommitOp
    <2>2. Unreachable(r) => Calls(b)' = {}
      BY <1>3 DEF Unreachable, Calls
    <2>3. \E q : /\ q.caller = r.caller /\ q.addr = r.addr /\ q.dest = r.dest
                 /\ q.op = r.op /\ Calls(b)' = {q}
                 /\ q.st = "commit" /\ q.todo = r.todo
      BY <1>1, <2>1, <2>2, ServedAt DEF BlockInv
    <2> QED
      BY <1>2, <1>3, <1>4, <2>3
  <1>6. /\ StagedCall(r) /\ store[k].tmp[b] # None
        /\ Fresh(store[k], addr, b)
    BY <1>2, <1>3 DEF StagedCall, BlockInv, Ready
  <1>7. At(k, b) = AllignedRead(store[k].blk, b) /\ At(k, b)' = store[k].tmp[b]
    <2>1. ~Underway(k, b)
      BY <1>3, PeerApart DEF Underway
    <2>2. Underway(k, b)'
      BY <1>3, <1>5, CommitRest DEF Underway
    <2> QED
      BY <1>3, <2>1, <2>2 DEF At, Shows
  <1>8. Ready(b)'
    <2>1. ~StagedCall(q)
      BY <1>5 DEF StagedCall
    <2> QED
      BY <1>3, <1>5, <1>6, <2>1 DEF BlockInv, Ready
  <1>9. Faithful(b)'
    <2>1. ASSUME NEW i \in Offset
          PROVE  Carried(q, b, i)' = Carried(r, b, i)
      <3>1. Carried(r, b, i) = store[k].tmp[b][i]
        BY <1>2, <1>3, <1>6 DEF Carried
      <3>2. Carried(q, b, i)' = At(k, b)'[i]
        BY <1>5 DEF Carried, StagedCall
      <3> QED
        BY <1>7, <3>1, <3>2
    <2> QED
      BY <1>1, <1>5, <2>1, ServedFaithful
  <1>10. \A i \in Offset : Covers(addr, b, i) => Loose(b, i)'
    BY <1>2, <1>3, CommitLoose
  <1>11. \A i \in Offset : ~Covers(addr, b, i) => At(k, b)'[i] = At(k, b)[i]
    BY <1>6, <1>7 DEF Fresh
  <1>12. BlockInv(b)'
    BY <1>3, <1>8, <1>9, <1>10, <1>11, AgreeKept, PeerApart DEF BlockInv
  <1>13. ASSUME NEW i \in Offset, Covers(addr, b, i)
         PROVE  At(k, b)'[i] \in Brought(b, i)' \/ Behind(k, b, i)'
    <2>1. At(k, b)'[i] = Carried(r, b, i)
      BY <1>2, <1>3, <1>6, <1>7 DEF Carried
    <2>2. Brought(b, i)' = Brought(b, i) /\ (Behind(k, b, i)' <=> Behind(k, b, i))
      BY <1>1, ServedRest DEF Brought, Behind, Waiting
    <2> QED
      BY <1>2, <1>3, <1>13, <2>1, <2>2, CommitBrought
  <1> QED
    BY <1>2, <1>3, <1>11, <1>12, <1>13, PeerApart DEF Moved

LEMMA OpServedAgrees ==
    ASSUME IInv, MirrorInv, NEW b \in Block, BlockInv(b),
           NEW r \in Calls(b), ServeCommitOp(r)
    PROVE  BlockInv(b)' /\ Quiet(b)
  <1>1. Serve(r) /\ r \in rpc
    BY DEF Serve, Calls
  <1>2. PICK k \in Node, addr \in Addr, todo \in Seq(FileOp) :
          k = r.dest /\ addr = r.addr /\ todo = r.todo
    BY <1>1, ServedRest, CallStepType
  <1>3. /\ r \in Call /\ b \in BlocksOf(addr) /\ Calls(b) = {r}
        /\ write' = write /\ Writing(b)' = Writing(b)
        /\ \A w \in Writing(b) : write[w].node = Peer(k)
        /\ Still(Peer(k), b) /\ At(Peer(k), b)' = At(Peer(k), b)
        /\ Family(b)' /\ Backed(b)'
        /\ \A i \in Offset : Loose(b, i) => Loose(b, i)'
    BY <1>1, <1>2, ServedRest
  <1>4. /\ r.st = "commit" /\ r.op = "CommitBlock" /\ store[k] \in Store
        /\ store'[k] = Apply(store[k], Head(todo))
    BY <1>2, <1>3, CallStepType DEF ServeCommitOp, IInv, TypeOK
  <1>5. /\ todo \in Rests(addr)
        /\ b \in ToRename(todo) => store[k].tmp[b] # None
    BY <1>1, <1>2, <1>3, <1>4
       DEF MirrorInv, CallsFit, CallFits, BlockInv, Ready
  <1>6. \A q \in Calls(b)' :
          /\ q.addr = addr /\ q.dest = k /\ q.op = "CommitBlock"
          /\ \/ Len(todo) # 1 /\ q.st = "commit" /\ q.todo = Tail(todo)
             \/ Len(todo) = 1 /\ q.st = "done"
    <2>1. ~ServeReplicate(r) /\ ~ServeCommit(r)
      BY <1>4 DEF ServeReplicate, ServeCommit
    <2> QED
      BY <1>1, <1>2, <1>4, <2>1, ServedAt DEF BlockInv
  <1>7. Len(todo) # 1 => Calls(b)' # {}
    BY <1>1, <1>2, ServedAt DEF BlockInv
  <1>8. /\ Shows(store'[k], b, Len(todo) # 1 /\ b \in ToRename(Tail(todo)))
             = Shows(store[k], b, b \in ToRename(todo))
        /\ Len(todo) # 1 /\ b \in ToRename(Tail(todo)) => store'[k].tmp[b] # None
    BY <1>3, <1>4, <1>5, OpShows
  <1>9. At(k, b)' = At(k, b)
    <2>1. Underway(k, b) <=> b \in ToRename(todo)
      BY <1>2, <1>3, <1>4, PeerApart DEF Underway
    <2>2. Underway(k, b)' <=> Len(todo) # 1 /\ b \in ToRename(Tail(todo))
      <3>1. Underway(k, b)' <=> \E q \in Calls(b)' :
              q.st = "commit" /\ b \in ToRename(q.todo)
        BY <1>3, <1>6, PeerApart DEF Underway
      <3> QED
        BY <1>6, <1>7, <3>1
    <2> QED
      BY <1>8, <2>1, <2>2 DEF At, Shows
  <1>10. Ready(b)'
    <2>1. \A w \in Writing(b) : write[w].pc = "commitRemote" =>
            Fresh(store'[Peer(k)], write[w].addr, b)
      BY <1>3, FreshKept DEF BlockInv, Ready
    <2>2. \A q \in Calls(b)' : ~StagedCall(q)
      BY <1>6 DEF StagedCall
    <2>3. \A q \in Calls(b)' : q.st = "commit" /\ b \in ToRename(q.todo) =>
                                 store'[q.dest].tmp[b] # None
      BY <1>6, <1>8
    <2> QED
      BY <1>3, <2>1, <2>2, <2>3 DEF Ready
  <1>11. Faithful(b)'
    <2>1. ASSUME NEW q \in Calls(b)', NEW i \in Offset
          PROVE  Carried(q, b, i)' = Carried(r, b, i)
      <3>1. Carried(r, b, i) = At(k, b)[i]
        BY <1>2, <1>4 DEF Carried, StagedCall
      <3>2. q.dest = k /\ q.op = "CommitBlock" /\ q.st # "sent"
        BY <1>6
      <3>3. Carried(q, b, i)' = At(k, b)'[i]
        BY <3>2 DEF Carried, StagedCall
      <3> QED
        BY <1>9, <3>1, <3>3
    <2> QED
      BY <1>1, <2>1, ServedFaithful
  <1>12. \A m \in Node : At(m, b)' = At(m, b)
    BY <1>3, <1>9, PeerApart
  <1> QED
    BY <1>3, <1>10, <1>11, <1>12, AgreeKept DEF BlockInv, Quiet

LEMMA UnreachableAgrees ==
    ASSUME IInv, MirrorInv, NEW b \in Block, BlockInv(b),
           NEW r \in Calls(b), Unreachable(r)
    PROVE  BlockInv(b)' /\ Quiet(b)
  <1>1. /\ Calls(b) = {r} /\ r.dest \in Node
        /\ write' = write /\ Writing(b)' = Writing(b)
        /\ \A w \in Writing(b) : write[w].pc # "commit"
        /\ Family(b)' /\ Backed(b)'
        /\ \A i \in Offset : Loose(b, i) => Loose(b, i)'
        /\ r.st = "sent" /\ store' = store
    BY ServedRest DEF Unreachable, server
  <1>2. Calls(b)' = {}
    BY <1>1 DEF Unreachable, Calls
  <1>3. \A k \in Node : At(k, b)' = At(k, b)
    <2>1. \A k \in Node : Underway(k, b)' <=> Underway(k, b)
      BY <1>1, <1>2 DEF Underway
    <2> QED
      BY <1>1, <2>1, AtKept DEF Still
  <1>4. Ready(b)' /\ Faithful(b)'
    BY <1>1, <1>2 DEF BlockInv, Ready, Faithful
  <1> QED
    BY <1>1, <1>3, <1>4, AgreeKept DEF BlockInv, Quiet

-----------------------------------------------------------------------------
(* A sub-thread replays.                                                     *)

\* The one sub-thread at b that changes.
LEMMA ReplayingAfter ==
    ASSUME NEW b, NEW x \in Node \X SubThread,
           \A y \in (Node \X SubThread) \ {x} : worker'[y] = worker[y],
           Replaying(b) \subseteq {x}
    PROVE  /\ worker'[x].addr = None => Replaying(b)' = {}
           /\ worker'[x].addr # None /\ b \in BlocksOf(worker'[x].addr) =>
                Replaying(b)' = {x}
BY DEF Replaying

\* Who else can be at the blocks of a replay.
LEMMA ReplayAlone ==
    ASSUME IInv, MirrorInv, NEW b \in Block, Family(b), NEW x \in Replaying(b)
    PROVE  /\ Replaying(b) = {x}
           /\ \A w \in Writing(b) :
                /\ write[w].pc \in {"commitAlone", "enqueue"}
                /\ write[w].node = x[1] /\ write[w].addr = worker[x].addr
           /\ \A r \in Calls(b) : /\ r.caller = x \/ r.caller = None
                                  /\ Follows(r, x[1], worker[x].addr)
           /\ worker[x].pc = "read" => Calls(b) = {}
  <1>1. /\ Replaying(b) = {x}
        /\ \A w \in Writing(b) :
             /\ write[w].pc \in {"commitAlone", "enqueue"}
             /\ write[w].node = x[1] /\ write[w].addr = worker[x].addr
    BY DEF Family, Lone
  <1>2. ASSUME NEW r \in Calls(b)
        PROVE  /\ r.caller = x \/ r.caller = None
               /\ Follows(r, x[1], worker[x].addr)
               /\ worker[x].pc # "read"
    <2>1. CASE r.caller = None
      BY <2>1 DEF Family
    <2>2. CASE r.caller \in Writing(b)
      <3>1. r.caller \in Writer
        BY <2>2 DEF Writing
      <3>2. write[r.caller].pc \in {"replicate", "commitRemote"}
        BY <3>1, CallerAt
      <3> QED
        BY <1>1, <2>2, <3>2
    <2>3. CASE r.caller \in Replaying(b)
      <3>1. r.caller = x /\ x \in Node \X SubThread
        BY <1>1, <2>3 DEF Replaying
      <3> QED
        BY <3>1, CallerAt
    <2> QED
      BY <2>1, <2>2, <2>3, CallerAt
  <1> QED
    BY <1>1, <1>2

\* A replay whose call has been answered has no other.
LEMMA OwnReplayCall ==
    ASSUME IInv, MirrorInv, NEW b \in Block, Family(b), NEW x \in Replaying(b),
           Acked(x)
    PROVE  /\ \A r \in Settled(x) : b \notin BlocksOf(r.addr)
           /\ \E r \in Calls(b) : /\ Calls(b) = {r} /\ r.caller = x
                                  /\ r.st = "done"
                                  /\ Follows(r, x[1], worker[x].addr)
  <1>1. PICK r \in rpc : r.caller = x /\ r.st = "done"
    BY DEF Acked
  <1>2. x \in Node \X SubThread /\ b \in BlocksOf(worker[x].addr)
    BY DEF Replaying
  <1>3. Follows(r, x[1], worker[x].addr)
    BY <1>1, <1>2 DEF IInv, CallsMatch, MirrorInv, CallsFit, CallFits, Follows
  <1>4. r \in Calls(b)
    BY <1>1, <1>2, <1>3 DEF Calls, Follows
  <1>5. Calls(b) = {r}
    BY <1>4 DEF Family, Lone
  <1> QED
    BY <1>1, <1>3, <1>4, <1>5 DEF Settled, Calls

LEMMA PopAgrees ==
    ASSUME IInv, MirrorInv, NEW b \in Block, BlockInv(b),
           NEW x \in Node \X SubThread, WorkerPop(x), b \notin suspect'
    PROVE  BlockInv(b)' /\ Quiet(b)
  <1>1. /\ TypeOK /\ worker[x].pc = "pop" /\ x[1] \in Node
        /\ write' = write /\ rpc' = rpc /\ store' = store
    BY DEF IInv, WorkerPop, server
  <1>2. PICK out \in PopOutcomes(pending[x[1]]) :
          /\ pending' = [pending EXCEPT ![x[1]] = out[2]]
          /\ worker' = [worker EXCEPT ![x] = [pc |-> "read", addr |-> out[1]]]
          /\ suspect' = suspect
               \cup Overlap(out[1], RequeuingWrites(x[1], out[1]), {})
    BY DEF WorkerPop
  <1>3. PICK addr \in Addr : addr = out[1]
    BY <1>1, <1>2, PopType DEF TypeOK
  <1>4. \A n \in Node : \A a \in Waiting(pending[n]) \ {addr} : a \in Waiting(pending'[n])
    BY <1>1, <1>2, <1>3, WaitingPopped DEF TypeOK
  <1>5. /\ \A y \in (Node \X SubThread) \ {x} : worker'[y] = worker[y]
        /\ worker'[x].addr = addr /\ worker'[x].pc = "read"
        /\ worker[x].addr = None
    BY <1>1, <1>2, <1>3 DEF TypeOK, WorkerState
  <1>6. SameWork(b)
    BY <1>1 DEF SameWork, Writing, Calls
  <1>7. CASE b \notin BlocksOf(addr)
    <2>1. /\ Replaying(b)' = Replaying(b)
          /\ \A y \in Replaying(b) : worker'[y] = worker[y]
      BY <1>5, <1>7 DEF Replaying
    <2>2. \A k \in Node : Still(k, b)
      BY <1>1 DEF Still
    <2>3. \A n \in Node : \A a \in Waiting(pending[n]) :
            b \in BlocksOf(a) => a \in Waiting(pending'[n])
      BY <1>4, <1>7
    <2> QED
      BY <1>6, <2>1, <2>2, <2>3, BlockKept
  <1>8. CASE b \in BlocksOf(addr)
    <2>1. b \notin Overlap(addr, RequeuingWrites(x[1], addr), {})
      BY <1>2, <1>3
    <2>2. /\ Writing(b) \subseteq RequeuingWrites(x[1], addr)
          /\ Replaying(b) = {} /\ Abandoned(b) = {}
      BY <1>8, <2>1 DEF Overlap
    <2>3. \A w \in Writing(b) : /\ write[w].pc \in {"commitAlone", "enqueue"}
                                /\ write[w].node = x[1] /\ write[w].addr = addr
      BY <2>2 DEF RequeuingWrites
    <2>4. Calls(b) = {}
      <3> SUFFICES ASSUME NEW r \in Calls(b) PROVE FALSE
        OBVIOUS
      <3>1. r.caller # None
        BY <2>2 DEF Abandoned, Calls
      <3>2. r.caller \in Writing(b) /\ r.caller \in Writer
        BY <2>2, <3>1, CallerAt DEF Writing
      <3>3. write[r.caller].pc \in {"replicate", "commitRemote"}
        BY <3>2, CallerAt
      <3> QED
        BY <2>3, <3>2, <3>3
    <2>5. /\ Writing(b)' = Writing(b) /\ Calls(b)' = {} /\ Replaying(b)' = {x}
      <3>1. addr # None
        BY NoneAssumption
      <3> QED
        BY <1>5, <1>6, <1>8, <2>2, <2>4, <3>1, ReplayingAfter DEF SameWork
    <2>6. \A k \in Node : At(k, b)' = At(k, b)
      BY <1>1, <1>6, AtKept, UnderwayKept DEF Still
    <2>7. Family(b)' /\ Ready(b)' /\ Backed(b)' /\ Faithful(b)'
      BY <1>1, <1>5, <2>3, <2>5
         DEF BlockInv, Family, Lone, Ready, Backed, Faithful
    <2>8. \A i \in Offset : Loose(b, i) => Loose(b, i)'
      <3>1. \A i \in Offset : Covers(addr, b, i) => Loose(b, i)'
        BY <1>5, <2>5 DEF Loose
      <3>2. \A i \in Offset : Queued(b * BLOCK_SIZE + i) /\ ~Covers(addr, b, i) =>
                                Queued(b * BLOCK_SIZE + i)'
        BY <1>4 DEF Queued, Covers
      <3> QED
        BY <1>1, <2>2, <2>5, <3>1, <3>2 DEF Loose
    <2> QED
      BY <2>6, <2>7, <2>8, AgreeKept DEF BlockInv, Quiet
  <1> QED
    BY <1>7, <1>8

LEMMA ReadAgrees ==
    ASSUME IInv, MirrorInv, NEW b \in Block, BlockInv(b),
           NEW x \in Replaying(b), WorkerRead(x)
    PROVE  BlockInv(b)' /\ Quiet(b)
  <1>1. /\ TypeOK /\ x \in Node \X SubThread /\ worker[x].pc = "read"
        /\ write' = write /\ store' = store /\ pending' = pending
    BY DEF IInv, Replaying, WorkerRead, server
  <1>2. PICK n \in Node, addr \in Addr : n = x[1] /\ addr = worker[x].addr
    BY <1>1, Placed
  <1> PICK q : q = Sent(x, n, "ReplicateBlock", addr, Read(store[n].blk, addr))
    OBVIOUS
  <1>3. /\ rpc' = rpc \cup {q}
        /\ \A y \in (Node \X SubThread) \ {x} : worker'[y] = worker[y]
        /\ worker'[x].addr = addr /\ worker'[x].pc = "replicate"
    BY <1>1, <1>2 DEF WorkerRead, TypeOK, WorkerState
  <1>4. /\ q.caller = x /\ q.st = "sent" /\ q.op = "ReplicateBlock"
        /\ q.addr = addr /\ q.data = Read(store[n].blk, addr)
    BY DEF Sent
  <1>5. b \in BlocksOf(addr) /\ addr # None /\ store[n].blk \in Files
    BY <1>1, <1>2, NoneAssumption DEF Replaying, TypeOK, Store
  <1>6. /\ Replaying(b) = {x} /\ Calls(b) = {}
        /\ \A w \in Writing(b) :
             /\ write[w].pc \in {"commitAlone", "enqueue"}
             /\ write[w].node = n /\ write[w].addr = addr
    BY <1>1, <1>2, ReplayAlone DEF BlockInv
  <1>7. Writing(b)' = Writing(b) /\ Replaying(b)' = {x} /\ Calls(b)' = {q}
    BY <1>1, <1>3, <1>4, <1>5, <1>6, ReplayingAfter DEF Writing, Calls
  <1>8. \A k \in Node : (Underway(k, b)' <=> Underway(k, b))
                          /\ At(k, b)' = At(k, b)
    <2>1. \A k \in Node : Underway(k, b)' <=> Underway(k, b)
      BY <1>1, <1>4, <1>6, <1>7 DEF Underway
    <2> QED
      BY <1>1, <2>1, AtKept DEF Still
  <1>9. q.caller # None /\ q.caller \notin Writer
    BY <1>1, <1>4, CallerCases
  <1>10. Family(b)' /\ Backed(b)'
    BY <1>1, <1>2, <1>3, <1>6, <1>7, <1>9 DEF BlockInv, Family, Lone, Backed
  <1>11. Ready(b)'
    BY <1>1, <1>4, <1>6, <1>7 DEF Ready, StagedCall
  <1>12. Faithful(b)'
    <2>1. ASSUME NEW i \in Offset, Covers(addr, b, i), Writing(b) = {}
          PROVE  Carried(q, b, i)' = At(n, b)'[i]
      <3>1. Carried(q, b, i)' = ByteOf(addr, Read(store[n].blk, addr), b, i)
        BY <1>4 DEF Carried
      <3>2. At(n, b) = AllignedRead(store[n].blk, b)
        BY <1>6, <2>1 DEF At, Shows, Underway
      <3> QED
        BY <1>5, <1>8, <2>1, <3>1, <3>2, ReadBytes
    <2>2. Writing(b) # {} => Requeued(x, b)'
      BY <1>7 DEF Requeued
    <2>3. ASSUME NEW i \in Offset, Covers(addr, b, i)
          PROVE  Requeued(x, b)' \/ Carried(q, b, i)' = At(x[1], b)'[i]
      BY <1>2, <2>1, <2>2, <2>3
    <2> QED
      BY <1>1, <1>4, <1>6, <1>7, <1>9, <2>3 DEF Faithful
  <1>13. \A i \in Offset : Loose(b, i) => Loose(b, i)'
    BY <1>1, <1>2, <1>3, <1>6, <1>7 DEF Loose, Queued
  <1> QED
    BY <1>8, <1>10, <1>11, <1>12, <1>13, AgreeKept DEF BlockInv, Quiet

LEMMA ReplayReplicatedAgrees ==
    ASSUME IInv, MirrorInv, NEW b \in Block, BlockInv(b),
           NEW x \in Replaying(b), WorkerReplicated(x)
    PROVE  BlockInv(b)' /\ Quiet(b)
  <1>1. /\ TypeOK /\ x \in Node \X SubThread /\ worker[x].pc = "replicate"
        /\ Acked(x)
        /\ write' = write /\ store' = store /\ pending' = pending
    BY DEF IInv, Replaying, WorkerReplicated, server
  <1>2. PICK n \in Node, addr \in Addr : n = x[1] /\ addr = worker[x].addr
    BY <1>1, Placed
  <1> PICK q : q = Sent(x, n, "CommitBlock", addr, None)
    OBVIOUS
  <1>3. /\ rpc' = Settled(x) \cup {q}
        /\ \A y \in (Node \X SubThread) \ {x} : worker'[y] = worker[y]
        /\ worker'[x].addr = addr /\ worker'[x].pc = "commitRemote"
    BY <1>1, <1>2 DEF WorkerReplicated, TypeOK, WorkerState
  <1>4. /\ q.caller = x /\ q.st = "sent" /\ q.op = "CommitBlock"
        /\ q.addr = addr /\ q.dest = Peer(n)
    BY DEF Sent
  <1>5. b \in BlocksOf(addr) /\ addr # None
    BY <1>1, <1>2, NoneAssumption DEF Replaying
  <1>6. PICK r \in Calls(b) :
          /\ Calls(b) = {r} /\ r.caller = x /\ r.st = "done"
          /\ r.addr = addr /\ r.dest = Peer(n)
          /\ \A p \in Settled(x) : b \notin BlocksOf(p.addr)
    BY <1>1, <1>2, OwnReplayCall DEF BlockInv, Follows
  <1>7. /\ Replaying(b) = {x}
        /\ \A w \in Writing(b) :
             /\ write[w].pc \in {"commitAlone", "enqueue"}
             /\ write[w].node = n /\ write[w].addr = addr
    BY <1>1, <1>2, ReplayAlone DEF BlockInv
  <1>8. Writing(b)' = Writing(b) /\ Replaying(b)' = {x} /\ Calls(b)' = {q}
    BY <1>1, <1>3, <1>4, <1>5, <1>6, <1>7, ReplayingAfter DEF Writing, Calls
  <1>9. \A k \in Node : At(k, b)' = At(k, b)
    <2>1. \A k \in Node : Underway(k, b)' <=> Underway(k, b)
      BY <1>1, <1>4, <1>6, <1>8 DEF Underway
    <2> QED
      BY <1>1, <2>1, AtKept DEF Still
  <1>10. q.caller # None /\ q.caller \notin Writer
    BY <1>1, <1>4, CallerCases
  <1>11. Family(b)' /\ Backed(b)'
    BY <1>1, <1>2, <1>3, <1>7, <1>8, <1>10 DEF BlockInv, Family, Lone, Backed
  <1>12. r.op = "ReplicateBlock"
    BY <1>1, <1>6, CallerAt
  <1>13. StagedCall(r) /\ StagedCall(q)
    BY <1>4, <1>6, <1>12 DEF StagedCall
  <1>14. Ready(b)'
    <2>1. store[Peer(n)].tmp[b] # None /\ Fresh(store[Peer(n)], addr, b)
      BY <1>6, <1>13 DEF BlockInv, Ready
    <2> QED
      BY <1>1, <1>4, <1>7, <1>8, <2>1 DEF Ready
  <1>15. Faithful(b)'
    <2>1. ASSUME NEW i \in Offset, Covers(addr, b, i)
          PROVE  Requeued(x, b)' \/ Carried(q, b, i)' = At(x[1], b)'[i]
      <3>1. Requeued(x, b) \/ Carried(r, b, i) = At(x[1], b)[i]
        BY <1>1, <1>6, <2>1 DEF BlockInv, Faithful
      <3>2. Carried(q, b, i)' = Carried(r, b, i)
        BY <1>1, <1>4, <1>6, <1>12, <1>13 DEF Carried
      <3>3. Requeued(x, b) => Requeued(x, b)'
        BY <1>1, <1>2, <1>3, <1>8 DEF Requeued
      <3> QED
        BY <1>2, <1>9, <3>1, <3>2, <3>3
    <2> QED
      BY <1>1, <1>4, <1>7, <1>8, <1>10, <2>1 DEF Faithful
  <1>16. \A i \in Offset : Loose(b, i) => Loose(b, i)'
    BY <1>1, <1>2, <1>3, <1>7, <1>8 DEF Loose, Queued
  <1> QED
    BY <1>9, <1>11, <1>14, <1>15, <1>16, AgreeKept DEF BlockInv, Quiet

LEMMA ReplayCommittedAgrees ==
    ASSUME IInv, MirrorInv, NEW b \in Block, BlockInv(b),
           NEW x \in Replaying(b), WorkerCommitted(x)
    PROVE  BlockInv(b)' /\ Quiet(b)
  <1>1. /\ TypeOK /\ x \in Node \X SubThread /\ worker[x].pc = "commitRemote"
        /\ Acked(x)
        /\ write' = write /\ store' = store /\ pending' = pending
        /\ rpc' = Settled(x)
        /\ \A y \in (Node \X SubThread) \ {x} : worker'[y] = worker[y]
        /\ worker'[x].addr = None
    BY DEF IInv, Replaying, WorkerCommitted, server, TypeOK, NoWork
  <1>2. PICK n \in Node, addr \in Addr : n = x[1] /\ addr = worker[x].addr
    BY <1>1, Placed
  <1>3. PICK r \in Calls(b) :
          /\ Calls(b) = {r} /\ r.caller = x /\ r.st = "done"
          /\ r.addr = addr /\ r.dest = Peer(n)
          /\ \A p \in Settled(x) : b \notin BlocksOf(p.addr)
    BY <1>1, <1>2, OwnReplayCall DEF BlockInv, Follows
  <1>4. /\ Replaying(b) = {x}
        /\ \A w \in Writing(b) :
             /\ write[w].pc \in {"commitAlone", "enqueue"}
             /\ write[w].node = n /\ write[w].addr = addr
    BY <1>1, <1>2, ReplayAlone DEF BlockInv
  <1>5. Writing(b)' = Writing(b) /\ Replaying(b)' = {} /\ Calls(b)' = {}
    BY <1>1, <1>3, <1>4, ReplayingAfter DEF Writing, Calls
  <1>6. \A k \in Node : At(k, b)' = At(k, b)
    <2>1. \A k \in Node : Underway(k, b)' <=> Underway(k, b)
      BY <1>1, <1>3, <1>5 DEF Underway
    <2> QED
      BY <1>1, <2>1, AtKept DEF Still
  <1>7. Family(b)' /\ Ready(b)' /\ Backed(b)' /\ Faithful(b)'
    BY <1>1, <1>4, <1>5 DEF BlockInv, Family, Lone, Ready, Backed, Faithful
  <1>8. ASSUME NEW i \in Offset, Covers(addr, b, i)
        PROVE  Loose(b, i)' \/ At(Primary, b)'[i] = At(Backup, b)'[i]
    <2>1. CASE Writing(b) # {}
      <3>1. PICK w : w \in Writing(b)
        BY <2>1
      <3> QED
        BY <1>1, <1>4, <1>5, <1>8, <3>1 DEF Loose
    <2>2. CASE addr \in Waiting(pending[n])
      BY <1>1, <1>8, <2>2 DEF Loose, Queued, Covers
    <2>3. CASE Writing(b) = {} /\ addr \notin Waiting(pending[n])
      <3>1. Carried(r, b, i) = At(n, b)[i]
        BY <1>1, <1>2, <1>3, <1>8, <2>3 DEF BlockInv, Faithful, Requeued
      <3>2. r.op = "CommitBlock"
        BY <1>1, <1>3, CallerAt
      <3>3. Carried(r, b, i) = At(Peer(n), b)[i]
        BY <1>3, <3>2 DEF Carried, StagedCall
      <3> QED
        BY <1>6, <3>1, <3>3, PeerApart DEF Node
    <2> QED
      BY <2>1, <2>2, <2>3
  <1>9. ASSUME NEW i \in Offset, ~Covers(addr, b, i), Loose(b, i)
        PROVE  Loose(b, i)'
    BY <1>1, <1>2, <1>4, <1>5, <1>9 DEF Loose, Queued
  <1>10. Agree(b)'
    BY <1>6, <1>8, <1>9 DEF BlockInv, Agree, Node
  <1> QED
    BY <1>6, <1>7, <1>10 DEF BlockInv, Quiet

LEMMA RequeueAgrees ==
    ASSUME IInv, MirrorInv, NEW b \in Block, BlockInv(b),
           NEW x \in Replaying(b), WorkerRequeue(x), b \notin suspect'
    PROVE  BlockInv(b)' /\ Quiet(b)
  <1>1. TypeOK /\ x \in Node \X SubThread /\ Failed(x)
    BY DEF IInv, Replaying, WorkerRequeue
  <1>2. PICK n \in Node, addr \in Addr : n = x[1] /\ addr = worker[x].addr
    BY <1>1, Placed
  <1>3. /\ write' = write /\ store' = store /\ rpc' = rpc
        /\ \A y \in (Node \X SubThread) \ {x} : worker'[y] = worker[y]
        /\ worker'[x].addr = None
    BY <1>1, <1>2 DEF WorkerRequeue, server, TypeOK, NoWork
  <1>4. /\ addr \in Waiting(pending'[n])
        /\ \A m \in Node : Waiting(pending[m]) \subseteq Waiting(pending'[m])
    <2>1. PICK p \in AddPendingBlock(pending[n], addr) :
            /\ pending' = [pending EXCEPT ![n] = p]
            /\ suspect' = suspect \cup Dropped(p, addr)
      BY <1>2 DEF WorkerRequeue
    <2>2. b \in BlocksOf(addr)
      BY <1>2 DEF Replaying
    <2> QED
      BY <1>1, <1>2, <2>1, <2>2, AddPendingQueues
  <1>5. /\ Replaying(b) = {x}
        /\ \A w \in Writing(b) : write[w].pc \in {"commitAlone", "enqueue"}
        /\ \A r \in Calls(b) : r.caller = None /\ r.addr = addr /\ r.dest = Peer(n)
    BY <1>1, <1>2, ReplayAlone DEF BlockInv, Calls, Failed, Follows
  <1>6. Writing(b)' = Writing(b) /\ Replaying(b)' = {} /\ Calls(b)' = Calls(b)
    BY <1>1, <1>3, <1>5, ReplayingAfter DEF Writing, Calls
  <1>7. \A k \in Node : At(k, b)' = At(k, b)
    <2>1. \A k \in Node : Underway(k, b)' <=> Underway(k, b)
      BY <1>3, <1>6 DEF Underway
    <2> QED
      BY <1>3, <2>1, AtKept DEF Still
  <1>8. Family(b)'
    BY <1>3, <1>6 DEF BlockInv, Family, Lone
  <1>9. Ready(b)'
    BY <1>3, <1>6 DEF BlockInv, Ready
  <1>10. Backed(b)'
    BY <1>1, <1>2, <1>4, <1>5, <1>6, PeerApart DEF Backed
  <1>11. Faithful(b)'
    BY <1>3, <1>5, <1>6, CallerCases DEF Faithful
  <1>12. \A i \in Offset : Loose(b, i) => Loose(b, i)'
    <2>1. \A i \in Offset : Queued(b * BLOCK_SIZE + i) =>
                              Queued(b * BLOCK_SIZE + i)'
      BY <1>4 DEF Queued
    <2>2. \A i \in Offset : Covers(addr, b, i) => Queued(b * BLOCK_SIZE + i)'
      BY <1>4 DEF Covers, Queued
    <2> QED
      BY <1>2, <1>3, <1>5, <1>6, <2>1, <2>2 DEF Loose
  <1> QED
    BY <1>7, <1>8, <1>9, <1>10, <1>11, <1>12, AgreeKept DEF BlockInv, Quiet

-----------------------------------------------------------------------------
(* Broken connections and crashes.                                           *)

\* Nothing changes at b but its calls.
SameThreads(b) ==
    /\ Writing(b)' = Writing(b) /\ Replaying(b)' = Replaying(b)
    /\ \A w \in Writing(b) : write'[w] = write[w]
    /\ \A x \in Replaying(b) : worker'[x] = worker[x]
    /\ \A k \in Node : Still(k, b)
    /\ \A m \in Node : \A a \in Waiting(pending[m]) :
         b \in BlocksOf(a) => a \in Waiting(pending'[m])

LEMMA LooseKept ==
    ASSUME TypeOK, NEW b \in Block, SameThreads(b)
    PROVE  \A i \in Offset : Loose(b, i) => Loose(b, i)'
BY QueuedKept DEF SameThreads, Loose

LEMMA ThreadsKept ==
    ASSUME IInv, MirrorInv, NEW b \in Block, BlockInv(b), SameThreads(b),
           Calls(b)' = Calls(b)
    PROVE  BlockInv(b)' /\ Quiet(b)
BY BlockKept DEF SameThreads, SameWork

\* The only call at b is lost, before it is served or after.
LEMMA LostAgrees ==
    ASSUME IInv, MirrorInv, NEW b \in Block, BlockInv(b), SameThreads(b),
           NEW r, Calls(b) = {r}, Calls(b)' = {},
           \/ r.st # "commit"
           \/ \E x \in Replaying(b) :
                x[1] = Peer(r.dest) /\ IsAlligned(worker[x].addr)
    PROVE  BlockInv(b)' /\ Moved(r.dest, b) /\ (r.st # "commit" => Quiet(b))
  <1>1. TypeOK /\ \A i \in Offset : Loose(b, i) => Loose(b, i)'
    BY LooseKept DEF IInv
  <1>7. r.dest \in Node
    BY <1>1, Placed
  <1>2. Family(b)' /\ Backed(b)'
    BY DEF BlockInv, Family, Lone, Backed, SameThreads
  <1>3. Ready(b)'
    <2>1. \A w \in Writing(b) : write[w].pc = "commitRemote" =>
            Fresh(store'[write[w].node], write[w].addr, b)
      BY <1>1, FreshKept, Placed DEF BlockInv, Ready, SameThreads
    <2> QED
      BY <2>1 DEF Ready, SameThreads
  <1>4. \A w \in Writing(b) : write[w].pc # "commit"
    BY WriterCalls DEF BlockInv
  <1>5. Faithful(b)'
    BY <1>4 DEF Faithful, SameThreads
  <1>6. /\ Agree(b)' /\ Moved(r.dest, b)
        /\ r.st # "commit" => Quiet(b)
    <2>1. CASE r.st # "commit"
      <3>1. \A k \in Node : Underway(k, b)' <=> Underway(k, b)
        BY <2>1 DEF Underway, SameThreads
      <3>2. \A k \in Node : At(k, b)' = At(k, b)
        BY <3>1, AtKept DEF SameThreads
      <3> QED
        BY <1>1, <1>7, <3>2, AgreeKept, QuietMoves DEF BlockInv, Quiet
    <2>2. CASE r.st = "commit"
      <3> PICK x \in Replaying(b) :
               x[1] = Peer(r.dest) /\ IsAlligned(worker[x].addr)
        BY <2>2
      <3>1. \A i \in Offset : Covers(worker[x].addr, b, i)
        BY <1>1, Placed, AlignedCovers
      <3>2. \A i \in Offset : Loose(b, i)'
        BY <3>1 DEF Loose, SameThreads
      <3>3. \A i \in Offset : Behind(r.dest, b, i)'
        <4>1. x \in Node \X SubThread /\ worker'[x] = worker[x]
              /\ worker[x].addr # None
          BY DEF Replaying, SameThreads
        <4>2. PICK t \in SubThread : x = <<Peer(r.dest), t>>
          BY <4>1
        <4> QED
          BY <3>1, <4>1, <4>2 DEF Behind
      <3>4. \A k \in Node \ {r.dest} : At(k, b)' = At(k, b)
        <4>1. \A k \in Node \ {r.dest} : Underway(k, b)' <=> Underway(k, b)
          BY DEF Underway, SameThreads
        <4> QED
          BY <4>1, AtKept DEF SameThreads
      <3> QED
        BY <2>2, <3>2, <3>3, <3>4 DEF Agree, Moved
    <2> QED
      BY <2>1, <2>2
  <1> QED
    BY <1>2, <1>3, <1>5, <1>6 DEF BlockInv

\* The only call at b goes on without its caller.
LEMMA OrphanAgrees ==
    ASSUME IInv, MirrorInv, NEW b \in Block, BlockInv(b), SameThreads(b),
           NEW r \in Calls(b), r.caller # None, NEW q, Calls(b)' = {q},
           q.caller = None, q.dest = r.dest, q.op = r.op, q.addr = r.addr,
           q.st = r.st, q.todo = r.todo
    PROVE  BlockInv(b)' /\ Quiet(b)
  <1>1. /\ TypeOK /\ Calls(b) = {r} /\ r.dest \in Node
        /\ \A i \in Offset : Loose(b, i) => Loose(b, i)'
    BY LooseKept, Placed DEF IInv, BlockInv, Family, Lone
  <1>2. \A k \in Node : At(k, b)' = At(k, b)
    <2>1. \A k \in Node : Underway(k, b)' <=> Underway(k, b)
      BY <1>1 DEF Underway, SameThreads
    <2> QED
      BY <2>1, AtKept DEF SameThreads
  <1>3. Family(b)'
    <2>1. \A w \in Writing(b) :
            Follows(q, write[w].node, write[w].addr) /\ write[w].pc # "commit"
      BY WriterCalls DEF BlockInv, Follows
    <2>2. \A x \in Replaying(b) :
            Follows(q, x[1], worker[x].addr) /\ worker[x].pc # "read"
      BY <1>1, ReplayAlone DEF BlockInv, Follows
    <2> QED
      BY <2>1, <2>2 DEF BlockInv, Family, Lone, SameThreads
  <1>4. Ready(b)'
    <2>1. \A w \in Writing(b) : write[w].pc = "commitRemote" =>
            Fresh(store'[write[w].node], write[w].addr, b)
      BY <1>1, FreshKept, Placed DEF BlockInv, Ready, SameThreads
    <2>2. StagedCall(q) <=> StagedCall(r)
      BY DEF StagedCall
    <2>3. Still(r.dest, b)
      BY <1>1 DEF SameThreads
    <2>4. /\ StagedCall(q) =>
               store'[q.dest].tmp[b] # None /\ Fresh(store'[q.dest], q.addr, b)
          /\ q.st = "commit" /\ b \in ToRename(q.todo) =>
               store'[q.dest].tmp[b] # None
      BY <2>2, <2>3, FreshKept DEF BlockInv, Ready, Still
    <2> QED
      BY <2>1, <2>4 DEF Ready, SameThreads
  <1>5. Backed(b)'
    <2>1. r.op = "CommitBlock" =>
            \/ \E w \in Writing(b) : write[w].pc = "commitRemote"
            \/ Replaying(b) # {}
      <3>1. r.caller \in Writing(b) \/ r.caller \in Replaying(b)
        BY CallerAt
      <3>2. r.caller \in Writing(b) /\ r.op = "CommitBlock" =>
              write[r.caller].pc = "commitRemote"
        BY CallerAt DEF Writing
      <3> QED
        BY <3>1, <3>2
    <2> QED
      BY <2>1 DEF Backed, SameThreads
  <1>6. Faithful(b)'
    <2>1. \A w \in Writing(b) : write[w].pc # "commit"
      BY WriterCalls DEF BlockInv
    <2>2. ASSUME NEW w \in Writing(b), write[w].pc = "commitRemote",
                 NEW i \in Offset, Covers(r.addr, b, i)
          PROVE  Carried(q, b, i)' = ByteOf(r.addr, write[w].data, b, i)
      <3>1. r.caller = w
        BY <2>2, CallerAt DEF BlockInv, Family, Lone
      <3>2. r.op = "CommitBlock"
        BY <2>2, <3>1, CallerAt DEF Writing
      <3>3. Carried(r, b, i) = ByteOf(r.addr, write[w].data, b, i)
        BY <2>2, <3>1 DEF BlockInv, Faithful, Writing
      <3>4. Carried(q, b, i)' = Carried(r, b, i)
        BY <1>1, <1>2, <3>2 DEF Carried, StagedCall, SameThreads, Still
      <3> QED
        BY <3>3, <3>4
    <2> QED
      BY <2>1, <2>2, CallerCases DEF Faithful, SameThreads
  <1> QED
    BY <1>1, <1>2, <1>3, <1>4, <1>5, <1>6, AgreeKept DEF BlockInv, Quiet

\* What is left of the calls at a block that had only r, once n's calls are
\* abandoned.
Remains(r, n, left) ==
    \/ r \notin Outstanding(n) /\ left = {r}
    \/ r \in Outstanding(n) /\ r.st # "commit" /\ left = {}
    \/ \E q : /\ r \in Outstanding(n) /\ left = {q}
              /\ q.caller = None /\ q.dest = r.dest /\ q.op = r.op
              /\ q.addr = r.addr /\ q.st = r.st /\ q.todo = r.todo

LEMMA AbandonedCall ==
    ASSUME TypeOK, NEW n \in Node, NEW lost \in SUBSET Undelivered(n),
           NEW b, Lone(Calls(b)), NEW r \in Calls(b),
           NEW left, left = {p \in Abandon(n, lost) : b \in BlocksOf(p.addr)}
    PROVE  Remains(r, n, left)
  <1>1. r \in rpc /\ r \in Call /\ Calls(b) = {r} /\ b \in BlocksOf(r.addr)
    BY DEF Lone, Calls, TypeOK
  <1> PICK q : q = [r EXCEPT !.caller = None]
    OBVIOUS
  <1>2. /\ q.caller = None /\ q.dest = r.dest /\ q.op = r.op
        /\ q.addr = r.addr /\ q.st = r.st /\ q.todo = r.todo
    BY <1>1 DEF Call
  <1>3. \A p \in rpc : [p EXCEPT !.caller = None].addr = p.addr
    BY DEF TypeOK, Call
  <1>4. \A p \in rpc : b \in BlocksOf(p.addr) => p = r
    BY <1>1 DEF Calls
  <1>5. \A p \in left :
          \/ p = r /\ r \notin Outstanding(n)
          \/ p = q /\ r \in Outstanding(n) /\ r.st # "done" /\ r \notin lost
    <2> SUFFICES ASSUME NEW p \in left
                 PROVE  \/ p = r /\ r \notin Outstanding(n)
                        \/ /\ p = q /\ r \in Outstanding(n)
                           /\ r.st # "done" /\ r \notin lost
      OBVIOUS
    <2>1. p \in Abandon(n, lost) /\ b \in BlocksOf(p.addr)
      OBVIOUS
    <2>2. CASE p \in rpc \ Outstanding(n)
      BY <1>4, <2>1, <2>2
    <2>3. CASE p \notin rpc \ Outstanding(n)
      <3>1. PICK o \in Outstanding(n) :
              p = [o EXCEPT !.caller = None] /\ o.st # "done" /\ o \notin lost
        BY <2>1, <2>3 DEF Abandon
      <3>2. o \in rpc
        BY <3>1 DEF Outstanding
      <3>3. o = r
        BY <1>3, <1>4, <2>1, <3>1, <3>2
      <3> QED
        BY <3>1, <3>3
    <2> QED
      BY <2>2, <2>3
  <1>6. CASE r \notin Outstanding(n)
    <2>1. r \in left
      BY <1>1, <1>6 DEF Abandon
    <2> QED
      BY <1>5, <1>6, <2>1 DEF Remains
  <1>7. CASE r \in Outstanding(n) /\ (r.st = "done" \/ r \in lost)
    <2>1. r.st # "commit"
      BY <1>7 DEF Undelivered
    <2> QED
      BY <1>5, <1>7, <2>1 DEF Remains
  <1>8. CASE r \in Outstanding(n) /\ r.st # "done" /\ r \notin lost
    <2>1. q \in Abandon(n, lost)
      BY <1>8 DEF Abandon
    <2>2. q \in left
      BY <1>1, <1>2, <2>1
    <2> QED
      BY <1>2, <1>5, <1>8, <2>2 DEF Remains
  <1> QED
    BY <1>6, <1>7, <1>8

\* No call at b, none left.
LEMMA AbandonedNone ==
    ASSUME TypeOK, NEW n \in Node, NEW lost, NEW b, Calls(b) = {}
    PROVE  \A p \in Abandon(n, lost) : b \notin BlocksOf(p.addr)
  <1>1. \A p \in rpc : [p EXCEPT !.caller = None].addr = p.addr
    BY DEF TypeOK, Call
  <1> QED
    BY <1>1 DEF Calls, Abandon, Outstanding

LEMMA BreakAgrees ==
    ASSUME IInv, MirrorInv, NEW b \in Block, BlockInv(b),
           NEW n \in Node, Break(n)
    PROVE  BlockInv(b)' /\ Quiet(b)
  <1>1. PICK lost \in SUBSET Undelivered(n) : rpc' = Abandon(n, lost)
    BY DEF Break
  <1>2. TypeOK /\ SameThreads(b)
    BY DEF IInv, Break, server, replica, SameThreads, Writing, Replaying, Still
  <1>3. Calls(b)' = {p \in Abandon(n, lost) : b \in BlocksOf(p.addr)}
    BY <1>1 DEF Calls
  <1>4. CASE Calls(b) = {}
    BY <1>2, <1>3, <1>4, AbandonedNone, ThreadsKept
  <1>5. CASE Calls(b) # {}
    <2> PICK r \in Calls(b) : TRUE
      BY <1>5
    <2>1. Calls(b) = {r} /\ Lone(Calls(b))
      BY DEF BlockInv, Family, Lone
    <2>2. \/ Calls(b)' = Calls(b)
          \/ r.st # "commit" /\ Calls(b)' = {}
          \/ \E q : /\ r.caller # None /\ Calls(b)' = {q}
                    /\ q.caller = None /\ q.dest = r.dest /\ q.op = r.op
                    /\ q.addr = r.addr /\ q.st = r.st /\ q.todo = r.todo
      <3> PICK left : left = {p \in Abandon(n, lost) : b \in BlocksOf(p.addr)}
        OBVIOUS
      <3>1. Remains(r, n, left)
        BY <1>2, <2>1, AbandonedCall
      <3>2. Calls(b)' = left
        BY <1>3
      <3>3. r \in Outstanding(n) => r.caller # None
        BY DEF Outstanding
      <3> QED
        BY <2>1, <3>1, <3>2, <3>3 DEF Remains
    <2>3. CASE Calls(b)' = Calls(b)
      BY <1>2, <2>3, ThreadsKept
    <2>4. CASE r.st # "commit" /\ Calls(b)' = {}
      BY <1>2, <2>1, <2>4, LostAgrees
    <2>5. CASE \E q : /\ r.caller # None /\ Calls(b)' = {q}
                      /\ q.caller = None /\ q.dest = r.dest /\ q.op = r.op
                      /\ q.addr = r.addr /\ q.st = r.st /\ q.todo = r.todo
      BY <1>2, <2>5, OrphanAgrees
    <2> QED
      BY <2>2, <2>3, <2>4, <2>5
  <1> QED
    BY <1>4, <1>5

\* What a crash can be doing to a block that it leaves trusted.
LEMMA CrashedNear ==
    ASSUME TypeOK, NEW b \in Block, NEW n \in Node, Crash(n), b \notin suspect'
    PROVE  /\ \A a \in Waiting(pending[n]) : b \notin BlocksOf(a)
           /\ \A x \in Replaying(b) : x[1] # n
           /\ \A w \in Writing(b) : write[w].node = n => write[w].pc = "replicate"
           /\ \A r \in Calls(b) : r.dest = n /\ r.st = "commit" =>
                r.caller \in Node \X SubThread /\ IsAlligned(r.addr)
  <1>1. b \notin LostInCrash(n)
    BY DEF Crash
  <1> DEFINE inHand  == {worker[<<n, t>>].addr : t \in SubThread} \ {None}
             writing == {write[w].addr : w \in {v \in Writer :
                           /\ write[v].node = n
                           /\ write[v].pc \in {"commitRemote", "commit",
                                               "commitAlone", "enqueue"}}}
             serving == {r.addr : r \in {q \in rpc :
                           /\ q.dest = n /\ q.st = "commit"
                           /\ q.caller \in Node \X SubThread => ~IsAlligned(q.addr)}}
  <1>2. \A a \in Waiting(pending[n]) \cup inHand \cup writing \cup serving :
          b \notin BlocksOf(a)
    BY <1>1 DEF LostInCrash
  <1>3. ASSUME NEW x \in Replaying(b)
        PROVE  x[1] # n
    <2>1. x \in Node \X SubThread /\ worker[x].addr # None
          /\ b \in BlocksOf(worker[x].addr)
      BY DEF Replaying
    <2>2. PICK t \in SubThread : x = <<x[1], t>>
      BY <2>1
    <2>3. x[1] = n => worker[x].addr \in inHand
      BY <2>1, <2>2
    <2> QED
      BY <1>2, <2>1, <2>3
  <1>4. ASSUME NEW w \in Writing(b), write[w].node = n
        PROVE  write[w].pc = "replicate"
    <2>1. w \in Writer /\ write[w].pc # "idle" /\ b \in BlocksOf(write[w].addr)
      BY DEF Writing
    <2>2. write[w].pc \in {"replicate", "commitRemote", "commit",
                           "commitAlone", "enqueue"}
      BY <2>1, BusyType
    <2>3. write[w].pc # "replicate" => write[w].addr \in writing
      BY <1>4, <2>1, <2>2
    <2> QED
      BY <1>2, <2>1, <2>3
  <1>5. ASSUME NEW r \in Calls(b), r.dest = n, r.st = "commit"
        PROVE  r.caller \in Node \X SubThread /\ IsAlligned(r.addr)
    <2>1. r \in rpc /\ b \in BlocksOf(r.addr)
      BY DEF Calls
    <2>2. ~(r.caller \in Node \X SubThread /\ IsAlligned(r.addr)) =>
            r.addr \in serving
      BY <1>5, <2>1
    <2> QED
      BY <1>2, <2>1, <2>2
  <1> QED
    BY <1>2, <1>3, <1>4, <1>5

\* A write dies with its node before anything of it is committed.
LEMMA DyingAgrees ==
    ASSUME IInv, MirrorInv, NEW b \in Block, BlockInv(b),
           NEW n \in Node, NEW w \in Writing(b), write[w].node = n,
           write[w].pc = "replicate", Writing(b)' = {}, Replaying(b)' = {},
           \A k \in Node : Still(k, b),
           \A m \in Node : \A a \in Waiting(pending[m]) :
             b \in BlocksOf(a) => a \in Waiting(pending'[m]),
           \/ Calls(b)' = {} /\ \A r \in Calls(b) : r.st # "commit"
           \/ \E r \in Calls(b) : \E q :
                /\ Calls(b)' = {q} /\ q.caller = None /\ q.dest = r.dest
                /\ q.op = r.op /\ q.addr = r.addr /\ q.st = r.st
                /\ q.todo = r.todo
    PROVE  BlockInv(b)' /\ Quiet(b)
  <1>1. /\ TypeOK /\ Writing(b) = {w} /\ Replaying(b) = {} /\ Lone(Calls(b))
    BY DEF IInv, BlockInv, Family, Lone
  <1>2. \A i \in Offset : Loose(b, i) => Loose(b, i)'
    BY <1>1, QueuedKept DEF Loose
  <1>3. \A k \in Node : At(k, b)' = At(k, b)
    <2>1. \A k \in Node : Underway(k, b)' <=> Underway(k, b)
      BY <1>1 DEF Underway, Lone
    <2> QED
      BY <2>1, AtKept
  <1>4. \A q \in Calls(b)' : q.caller = None
    OBVIOUS
  <1>5. Family(b)' /\ Faithful(b)'
    BY <1>4, CallerCases DEF Family, Faithful, Lone
  <1>6. Ready(b)'
    <2> SUFFICES ASSUME NEW q \in Calls(b)'
                 PROVE  /\ StagedCall(q) => /\ store'[q.dest].tmp[b] # None
                                            /\ Fresh(store'[q.dest], q.addr, b)
                        /\ q.st = "commit" /\ b \in ToRename(q.todo) =>
                             store'[q.dest].tmp[b] # None
      BY DEF Ready
    <2>1. PICK r \in Calls(b) : /\ q.dest = r.dest /\ q.op = r.op
                                /\ q.addr = r.addr /\ q.st = r.st
                                /\ q.todo = r.todo
      OBVIOUS
    <2>2. (StagedCall(q) <=> StagedCall(r)) /\ Still(r.dest, b)
      BY <1>1, <2>1, Placed DEF StagedCall
    <2>3. /\ StagedCall(r) =>
               store[r.dest].tmp[b] # None /\ Fresh(store[r.dest], r.addr, b)
          /\ r.st = "commit" /\ b \in ToRename(r.todo) =>
               store[r.dest].tmp[b] # None
      BY DEF BlockInv, Ready
    <2>4. store'[r.dest].tmp[b] = store[r.dest].tmp[b]
      BY <2>2 DEF Still
    <2>5. StagedCall(q) => Fresh(store'[q.dest], q.addr, b)
      BY <2>1, <2>2, <2>3, FreshKept
    <2> QED
      BY <2>1, <2>2, <2>3, <2>4, <2>5
  <1>7. Backed(b)'
    <2> SUFFICES ASSUME NEW q \in Calls(b)', q.op = "CommitBlock"
                 PROVE  q.addr \in Waiting(pending'[Peer(q.dest)])
      BY DEF Backed
    <2>1. PICK r \in Calls(b) : q.op = r.op /\ q.addr = r.addr /\ q.dest = r.dest
      OBVIOUS
    <2>2. r.caller # w /\ w \in Writer
      BY <2>1, CallerAt DEF Writing
    <2>3. r.caller = None
      BY <1>1, <2>2, CallerAt
    <2>4. r.addr \in Waiting(pending[Peer(r.dest)]) /\ Peer(r.dest) \in Node
      BY <1>1, <2>1, <2>3, Placed, PeerApart DEF BlockInv, Backed
    <2> QED
      BY <2>1, <2>4 DEF Calls
  <1> QED
    BY <1>2, <1>3, <1>5, <1>6, <1>7, AgreeKept DEF BlockInv, Quiet

LEMMA CrashAgrees ==
    ASSUME IInv, MirrorInv, NEW b \in Block, BlockInv(b),
           NEW n \in Node, Crash(n), b \notin suspect'
    PROVE  BlockInv(b)' /\ Moved(n, b)
  <1>1. /\ TypeOK /\ Family(b) /\ Lone(Calls(b)) /\ Peer(n) \in Node
        /\ Peer(n) # n /\ \A k \in Node : Still(k, b)
    BY PeerApart DEF IInv, BlockInv, Family, Crash, Still
  <1>2. /\ \A a \in Waiting(pending[n]) : b \notin BlocksOf(a)
        /\ \A x \in Replaying(b) : x[1] # n
        /\ \A w \in Writing(b) : write[w].node = n => write[w].pc = "replicate"
        /\ \A r \in Calls(b) : r.dest = n /\ r.st = "commit" =>
             r.caller \in Node \X SubThread /\ IsAlligned(r.addr)
    BY <1>1, CrashedNear
  <1>3. PICK lost \in SUBSET Undelivered(n),
             late \in SUBSET {p \in rpc : p.dest = n /\ p.st = "done"} :
          rpc' = {p \in Abandon(n, lost) : p.dest = n => p \in late}
    BY DEF Crash
  <1> PICK left : left = {p \in Abandon(n, lost) : b \in BlocksOf(p.addr)}
    OBVIOUS
  <1>4. Calls(b)' = {p \in left : p.dest = n => p \in late}
    BY <1>3 DEF Calls
  <1>5. Calls(b) = {} => left = {}
    BY <1>1, AbandonedNone
  <1>6. \A m \in Node : \A a \in Waiting(pending[m]) :
          b \in BlocksOf(a) => a \in Waiting(pending'[m])
    BY <1>1, <1>2 DEF Crash, TypeOK
  <1>7. /\ Replaying(b)' = Replaying(b)
        /\ \A x \in Replaying(b) : worker'[x] = worker[x]
    BY <1>2 DEF Crash, Replaying, NoWork
  <1>8. \A w \in Writer :
          /\ write[w].node = n => write'[w] = NoWrite
          /\ write[w].node # n => write'[w] = write[w]
    BY DEF Crash
  <1>9. ASSUME NEW w \in Writing(b), write[w].node = n
        PROVE  BlockInv(b)' /\ Moved(n, b)
    <2>1. Writing(b) = {w} /\ Replaying(b) = {} /\ write[w].pc = "replicate"
      BY <1>1, <1>2, <1>9 DEF Family, Lone
    <2>2. Writing(b)' = {}
      BY <1>8, <1>9, <2>1 DEF Writing, NoWrite
    <2>3. \A r \in Calls(b) : r.dest = Peer(n)
      BY <1>1, <1>9, WriterCalls DEF Follows
    <2>4. \/ Calls(b)' = {} /\ \A r \in Calls(b) : r.st # "commit"
          \/ \E r \in Calls(b) : \E q :
               /\ Calls(b)' = {q} /\ q.caller = None /\ q.dest = r.dest
               /\ q.op = r.op /\ q.addr = r.addr /\ q.st = r.st
               /\ q.todo = r.todo
      <3>1. CASE Calls(b) = {}
        BY <1>4, <1>5, <3>1
      <3>2. CASE Calls(b) # {}
        <4> PICK r \in Calls(b) : TRUE
          BY <3>2
        <4>1. /\ Calls(b) = {r} /\ r.dest = Peer(n)
              /\ r \notin Outstanding(n) => r.caller = None
          BY <1>1, <2>3 DEF Lone, Calls, Outstanding
        <4>2. \A q : left = {q} /\ q.dest = Peer(n) => Calls(b)' = {q}
          BY <1>1, <1>4
        <4>3. CASE r \notin Outstanding(n) /\ left = {r}
          BY <4>1, <4>2, <4>3
        <4>4. CASE r.st # "commit" /\ left = {}
          BY <1>4, <4>1, <4>4
        <4>5. CASE \E q : /\ left = {q}
                          /\ q.caller = None /\ q.dest = r.dest /\ q.op = r.op
                          /\ q.addr = r.addr /\ q.st = r.st /\ q.todo = r.todo
          BY <4>1, <4>2, <4>5
        <4> QED
          BY <1>1, <4>3, <4>4, <4>5, AbandonedCall DEF Remains
      <3> QED
        BY <3>1, <3>2
    <2> QED
      BY <1>1, <1>6, <1>7, <1>9, <2>1, <2>2, <2>4, DyingAgrees, QuietMoves
  <1>10. ASSUME \A w \in Writing(b) : write[w].node # n
         PROVE  BlockInv(b)' /\ Moved(n, b)
    <2>1. /\ Writing(b)' = Writing(b)
          /\ \A w \in Writing(b) : write'[w] = write[w]
      BY <1>8, <1>10 DEF Writing, NoWrite
    <2>2. SameThreads(b)
      BY <1>1, <1>6, <1>7, <2>1 DEF SameThreads
    <2>3. CASE Calls(b) = {}
      BY <1>4, <1>5, <2>2, <2>3, ThreadsKept, QuietMoves
    <2>4. CASE Calls(b) # {}
      <3> PICK r \in Calls(b) : TRUE
        BY <2>4
      <3>1. Calls(b) = {r} /\ r.dest \in Node
        BY <1>1, Placed DEF Lone
      <3>2. r.dest = Peer(n) => r.caller = None
        <4>1. r.caller \in Writing(b) => Follows(r, write[r.caller].node, r.addr)
          BY CallerAt DEF Writing, Follows
        <4>2. r.caller \in Replaying(b) => Follows(r, r.caller[1], r.addr)
          BY CallerAt DEF Replaying, Follows
        <4>3. /\ r.caller \in Writing(b) => write[r.caller].node \in Node \ {n}
              /\ r.caller \in Replaying(b) => r.caller[1] \in Node \ {n}
          BY <1>1, <1>2, <1>10, Placed
        <4> QED
          BY <1>1, <4>1, <4>2, <4>3, CallerAt, PeerApart DEF Follows
      <3>3. r \notin Outstanding(n) /\ left = {r}
        BY <1>1, <3>2, AbandonedCall DEF Remains, Outstanding
      <3>4. Calls(b)' = Calls(b) \/ (r.dest = n /\ Calls(b)' = {})
        BY <1>4, <3>1, <3>3
      <3>5. CASE Calls(b)' = Calls(b)
        BY <2>2, <3>5, ThreadsKept, QuietMoves
      <3>6. CASE r.dest = n /\ Calls(b)' = {}
        <4>1. r.st = "commit" => \E x \in Replaying(b) :
                x[1] = Peer(r.dest) /\ IsAlligned(worker[x].addr)
          <5> HAVE r.st = "commit"
          <5>1. r.caller \in Node \X SubThread /\ IsAlligned(r.addr)
            BY <1>2, <3>6
          <5> QED
            BY <5>1, CallerAt, PeerApart DEF Follows
        <4> QED
          BY <2>2, <3>1, <3>6, <4>1, LostAgrees
      <3> QED
        BY <3>4, <3>5, <3>6
    <2> QED
      BY <2>3, <2>4
  <1> QED
    BY <1>9, <1>10

-----------------------------------------------------------------------------
(* Every step.                                                               *)

LEMMA ArriveAgrees ==
    ASSUME IInv, MirrorInv, NEW b \in Block, ~PastIntMax(b), BlockInv(b),
           NEW v \in Writer, WriteArrives(v), b \notin suspect'
    PROVE  /\ BlockInv(b)'
           /\ \A m \in Node : m = write'[v].node => Moved(m, b)
  <1>1. PICK n \in Node, addr \in Addr, data \in Payload :
          WriteAlone(v, n, addr, data) \/ WriteMirrored(v, n, addr, data)
    BY NodeAssumption DEF WriteArrives
  <1>2. CASE b \in BlocksOf(addr)
    <2>1. write'[v].node = n
      BY <1>1 DEF WriteAlone, WriteMirrored, IInv, TypeOK
    <2> QED
      BY <1>1, <1>2, <2>1, AloneAgrees, MirroredAgrees, QuietMoves
  <1>3. CASE b \notin BlocksOf(addr)
    <2>1. /\ TypeOK /\ data \in Content /\ \A k \in Node : store[k] \in Store
          /\ write[v].pc = "idle" /\ worker' = worker /\ pending' = pending
          /\ \A u \in Writer \ {v} : write'[u] = write[u]
          /\ write'[v].addr = addr /\ write'[v].node = n
      BY <1>1, PayloadAssumption
         DEF IInv, TypeOK, WriteAlone, WriteMirrored, replica
    <2>2. Calls(b)' = Calls(b)
      BY <1>1, <1>3 DEF WriteAlone, WriteMirrored, Sent, Calls
    <2>3. SameWork(b)
      BY <1>3, <2>1, <2>2 DEF SameWork, Writing
    <2>4. \A k \in Node : Still(k, b)
      <3>1. store' = store \/ store' = [store EXCEPT ![n] = Write(@, addr, data)]
        BY <1>1 DEF WriteAlone, WriteMirrored
      <3>2. CASE store' = store
        BY <3>2 DEF Still
      <3>3. CASE store' = [store EXCEPT ![n] = Write(@, addr, data)]
        BY <1>3, <2>1, <3>3, WriteElsewhere DEF Still, TypeOK
      <3> QED
        BY <3>1, <3>2, <3>3
    <2> QED
      BY <2>1, <2>3, <2>4, BlockKept, QuietMoves DEF Replaying
  <1> QED
    BY <1>2, <1>3

LEMMA StepAgrees ==
    ASSUME IInv, MirrorInv, NEW b \in Block, ~PastIntMax(b), BlockInv(b),
           NEW v \in Writer, WriteStep(v), b \notin suspect'
    PROVE  /\ BlockInv(b)'
           /\ \A m \in Node : m = write[v].node => Moved(m, b)
  <1>1. CASE v \in Writing(b)
    <2>1. ~WriteCommitFailed(v)
      BY <1>1 DEF WriteCommitFailed, Writing
    <2> QED
      BY <1>1, <2>1, ReplicatedAgrees, RejectedAgrees, CommittedAgrees, OpAgrees,
         ValidAgrees, EnqueueAgrees, QuietMoves, Placed DEF WriteStep, IInv
  <1>2. CASE v \notin Writing(b)
    <2>1. PICK n \in Node, addr \in Addr, data \in Content :
            /\ n = write[v].node /\ addr = write[v].addr /\ data = write[v].data
            /\ write[v].pc # "idle" /\ worker' = worker
            /\ \A u \in Writer \ {v} : write'[u] = write[u]
            /\ write'[v].pc = "idle" \/ write'[v].addr = addr
            /\ \A r \in rpc : r.caller # v => r \in rpc'
            /\ \A r \in rpc' : r \in rpc \/ (r.caller = v /\ r.addr = addr)
            /\ \/ store' = store
               \/ store' = [store EXCEPT ![n] = Write(@, addr, data)]
               \/ \E todo \in Rests(addr) :
                    store' = [store EXCEPT ![n] = Apply(@, Head(todo))]
      BY StepEffect
    <2>2. b \notin BlocksOf(addr)
      BY <1>2, <2>1 DEF Writing
    <2>3. TypeOK /\ \A k \in Node : store[k] \in Store
      BY DEF IInv, TypeOK
    <2>4. \A r \in rpc : r.caller = v => r.addr = addr
      BY <2>1 DEF MirrorInv, CallsFit, CallFits
    <2>5. SameWork(b)
      BY <1>2, <2>1, <2>2, <2>4 DEF SameWork, Writing, Calls
    <2>6. \A k \in Node : Still(k, b)
      <3>1. CASE store' = store
        BY <3>1 DEF Still
      <3>2. CASE store' = [store EXCEPT ![n] = Write(@, addr, data)]
        BY <2>1, <2>2, <2>3, <3>2, WriteElsewhere DEF Still, TypeOK
      <3>3. CASE \E todo \in Rests(addr) :
                   store' = [store EXCEPT ![n] = Apply(@, Head(todo))]
        BY <2>1, <2>2, <2>3, <3>3, ApplyElsewhere DEF Still, TypeOK
      <3> QED
        BY <2>1, <3>1, <3>2, <3>3
    <2>7. \A m \in Node : Waiting(pending[m]) \subseteq Waiting(pending'[m])
      <3>1. \/ pending' = pending
            \/ \E p \in AddPendingBlock(pending[n], addr) :
                 /\ pending' = [pending EXCEPT ![n] = p]
                 /\ suspect' = suspect \cup Dropped(p, addr)
        BY <2>1 DEF WriteStep, WriteReplicated, WriteRejected, WriteCommitFailed,
                    WriteCommitted, WriteCommitOp, WriteValid,
                    WriteAloneCommitted, WriteEnqueue, replica
      <3> QED
        BY <2>3, <3>1, AddPendingQueues
    <2> QED
      BY <2>1, <2>5, <2>6, <2>7, BlockKept, QuietMoves DEF Replaying
  <1> QED
    BY <1>1, <1>2

LEMMA ServeAgrees ==
    ASSUME IInv, MirrorInv, NEW b \in Block, ~PastIntMax(b), BlockInv(b),
           NEW r \in rpc, Serve(r) \/ Unreachable(r)
    PROVE  BlockInv(b)' /\ Moved(r.dest, b)
  <1>1. CASE r \in Calls(b)
    BY <1>1, ReplicateServedAgrees, CommitServedAgrees, OpServedAgrees,
       UnreachableAgrees, QuietMoves, Placed DEF Serve, IInv
  <1>2. CASE r \notin Calls(b)
    <2>1. TypeOK /\ CallsFit /\ \A k \in Node : store[k] \in Store
      BY DEF IInv, TypeOK, MirrorInv
    <2>2. b \notin BlocksOf(r.addr)
      BY <1>2 DEF Calls
    <2>3. /\ r.dest \in Node /\ r.addr \in Addr
          /\ write' = write /\ worker' = worker
          /\ \A q \in rpc : q # r => q \in rpc'
          /\ \/ store' = store
             \/ /\ r.data \in Content
                /\ store' = [store EXCEPT ![r.dest] = Write(@, r.addr, r.data)]
             \/ /\ r.todo \in Rests(r.addr)
                /\ store' = [store EXCEPT ![r.dest] = Apply(@, Head(r.todo))]
      BY <2>1, ServeEffect
    <2>4. \A q \in rpc' \ rpc : q.addr = r.addr
      BY <2>1, ServedCall
    <2>5. SameWork(b)
      BY <2>2, <2>3, <2>4 DEF SameWork, Writing, Calls
    <2>6. \A k \in Node : Still(k, b)
      <3>1. CASE store' = store
        BY <3>1 DEF Still
      <3>2. CASE /\ r.data \in Content
                 /\ store' = [store EXCEPT ![r.dest] = Write(@, r.addr, r.data)]
        BY <2>1, <2>2, <2>3, <3>2, WriteElsewhere DEF Still, TypeOK
      <3>3. CASE /\ r.todo \in Rests(r.addr)
                 /\ store' = [store EXCEPT ![r.dest] = Apply(@, Head(r.todo))]
        BY <2>1, <2>2, <2>3, <3>3, ApplyElsewhere DEF Still, TypeOK
      <3> QED
        BY <2>3, <3>1, <3>2, <3>3
    <2>7. pending' = pending
      BY DEF Serve, ServeReplicate, ServeCommit, ServeCommitOp, Unreachable,
             replica
    <2> QED
      BY <2>3, <2>5, <2>6, <2>7, BlockKept, QuietMoves DEF Replaying
  <1> QED
    BY <1>1, <1>2

\* The threads, the calls, the files and the queues are the same, but for
\* sub-threads that have no address in hand.
LEMMA IdleAgrees ==
    ASSUME IInv, MirrorInv, NEW b \in Block, BlockInv(b),
           write' = write, store' = store, rpc' = rpc, pending' = pending,
           \A x \in Node \X SubThread :
             \/ worker'[x] = worker[x]
             \/ worker[x].addr = None /\ worker'[x].addr = None
    PROVE  BlockInv(b)' /\ Quiet(b)
  <1>1. /\ Replaying(b)' = Replaying(b)
        /\ \A x \in Replaying(b) : worker'[x] = worker[x]
    BY DEF Replaying
  <1> QED
    BY <1>1, BlockKept DEF SameWork, Writing, Calls, Still

LEMMA WorkerAgrees ==
    ASSUME IInv, MirrorInv, NEW b \in Block, BlockInv(b),
           NEW x \in Node \X SubThread, Worker(x), b \notin suspect'
    PROVE  BlockInv(b)' /\ Quiet(b)
  <1>1. /\ TypeOK /\ store' = store /\ write' = write
        /\ \A y \in (Node \X SubThread) \ {x} : worker'[y] = worker[y]
        /\ worker[x] \in WorkerState
    BY DEF Worker, WorkerCheck, WorkerPop, WorkerRead, WorkerReplicated,
           WorkerCommitted, WorkerRequeue, server, IInv, TypeOK
  <1>2. CASE WorkerCheck(x)
    <2>1. worker[x].addr = None /\ worker'[x].addr = None
      BY <1>1, <1>2 DEF WorkerCheck, WorkerState, NoWork, TypeOK
    <2> QED
      BY <1>1, <1>2, <2>1, IdleAgrees DEF WorkerCheck
  <1>3. CASE WorkerPop(x)
    BY <1>3, PopAgrees
  <1>4. CASE /\ ~WorkerCheck(x) /\ ~WorkerPop(x)
             /\ x \in Replaying(b)
    BY <1>4, ReadAgrees, ReplayReplicatedAgrees, ReplayCommittedAgrees,
       RequeueAgrees DEF Worker
  <1>5. CASE /\ ~WorkerCheck(x) /\ ~WorkerPop(x)
             /\ x \notin Replaying(b)
    <2>1. worker[x].pc \in {"read", "replicate", "commitRemote"}
      BY <1>5 DEF Worker, WorkerRead, WorkerReplicated, WorkerCommitted,
                  WorkerRequeue
    <2>2. PICK n \in Node, addr \in Addr : n = x[1] /\ addr = worker[x].addr
      BY <1>1, <2>1, BusyType
    <2>3. b \notin BlocksOf(addr)
      BY <1>5, <2>2, NoneAssumption DEF Replaying
    <2>4. worker'[x].addr \in {addr, None}
      BY <1>1, <1>5, <2>2 DEF Worker, WorkerRead, WorkerReplicated,
         WorkerCommitted, WorkerRequeue, NoWork, TypeOK, WorkerState
    <2>5. /\ \A r \in rpc : r.caller # x => r \in rpc'
          /\ \A r \in rpc' : r \in rpc \/ r.addr = addr
      BY <1>5, <2>2 DEF Worker, WorkerRead, WorkerReplicated, WorkerCommitted,
                        WorkerRequeue, Settled, Sent
    <2>6. \A r \in rpc : r.caller = x => r.addr = addr
      BY <2>2 DEF MirrorInv, CallsFit, CallFits
    <2>7. SameWork(b)
      BY <1>1, <2>3, <2>5, <2>6 DEF SameWork, Writing, Calls
    <2>8. /\ Replaying(b)' = Replaying(b)
          /\ \A y \in Replaying(b) : worker'[y] = worker[y]
      BY <1>1, <1>5, <2>3, <2>4 DEF Replaying
    <2>9. \A m \in Node : Waiting(pending[m]) \subseteq Waiting(pending'[m])
      <3>1. \/ pending' = pending
            \/ \E p \in AddPendingBlock(pending[n], addr) :
                 /\ pending' = [pending EXCEPT ![n] = p]
                 /\ suspect' = suspect \cup Dropped(p, addr)
        BY <1>5, <2>2 DEF Worker, WorkerRead, WorkerReplicated, WorkerCommitted,
                          WorkerRequeue
      <3> QED
        BY <1>1, <2>2, <3>1, AddPendingQueues
    <2> QED
      BY <1>1, <2>7, <2>8, <2>9, BlockKept DEF Still
  <1> QED
    BY <1>2, <1>3, <1>4, <1>5

LEMMA ConsumerAgrees ==
    ASSUME IInv, MirrorInv, NEW b \in Block, BlockInv(b),
           NEW n \in Node, Consumer(n)
    PROVE  BlockInv(b)' /\ Quiet(b)
  <1>1. /\ TypeOK /\ store' = store /\ write' = write /\ rpc' = rpc
        /\ pending' = pending
    BY DEF Consumer, ConsumerDrain, ConsumerJoin, server, IInv
  <1>2. ASSUME NEW x \in Node \X SubThread
        PROVE  \/ worker'[x] = worker[x]
               \/ worker[x].addr = None /\ worker'[x].addr = None
    <2>1. CASE ConsumerDrain(n) /\ x[1] = n
      <3>1. worker'[x].addr = None /\ consumer[n] # "drain"
        BY <2>1 DEF ConsumerDrain, NoWork
      <3>2. worker[x].pc = "done" /\ worker[x] \in WorkerState
        BY <2>1, <3>1 DEF IInv, NoStrayWorker, TypeOK
      <3> QED
        BY <3>1, <3>2 DEF WorkerState
    <2>2. CASE ConsumerJoin(n) \/ x[1] # n
      BY <2>2 DEF Consumer, ConsumerDrain, ConsumerJoin
    <2> QED
      BY <2>1, <2>2 DEF Consumer
  <1> QED
    BY <1>1, <1>2, IdleAgrees

-----------------------------------------------------------------------------

LEMMA InitAgrees == Init => AgreeInv
  <1> SUFFICES ASSUME Init, NEW b \in Block PROVE BlockInv(b)
    BY DEF AgreeInv
  <1>1. Writing(b) = {} /\ Replaying(b) = {} /\ Calls(b) = {}
    BY DEF Init, Writing, Replaying, Calls, NoWrite, NoWork
  <1>2. Family(b) /\ Ready(b) /\ Backed(b) /\ Faithful(b)
    BY <1>1 DEF Family, Lone, Ready, Backed, Faithful
  <1>3. \A k \in Node : ~Underway(k, b) /\ store[k] = EmptyStore
    BY <1>1 DEF Underway, Init
  <1>4. Agree(b)
    BY <1>3 DEF Agree, At, Shows, Node
  <1> QED
    BY <1>2, <1>4 DEF BlockInv

\* A step changes what one node shows.
LEMMA NextMoves ==
    ASSUME IInv, MirrorInv, AgreeInv, [Next]_vars
    PROVE  /\ suspect \subseteq suspect'
           /\ \E m \in Node : \A b \in Block : b \notin suspect' /\ ~PastIntMax(b)
                => BlockInv(b)' /\ Moved(m, b)
  <1> DEFINE Good(b) == b \notin suspect' /\ ~PastIntMax(b)
             Kept(m) == \A b \in Block : Good(b) => BlockInv(b)' /\ Moved(m, b)
  <1>1. suspect \subseteq suspect'
    <2>1. \A n \in Node : \/ Start(n) \/ HeartBeat(n) \/ HeartBeatMissed(n)
                          \/ Break(n) \/ Crash(n) \/ Consumer(n)
                         => suspect \subseteq suspect'
      BY DEF Start, HeartBeat, HeartBeatMissed, Break, Crash, Consumer,
             ConsumerDrain, ConsumerJoin
    <2>2. \A v \in Writer : WriteArrives(v) => suspect \subseteq suspect'
      BY DEF WriteArrives, WriteAlone, WriteMirrored
    <2>3. \A v \in Writer : WriteStep(v) => suspect \subseteq suspect'
      BY StepEffect
    <2>4. \A r \in rpc : Serve(r) \/ Unreachable(r) => suspect' = suspect
      BY ServeEffect DEF IInv, MirrorInv
    <2>5. \A x \in Node \X SubThread : Worker(x) => suspect \subseteq suspect'
      BY DEF Worker, WorkerCheck, WorkerPop, WorkerRead, WorkerReplicated,
             WorkerCommitted, WorkerRequeue
    <2>6. \A c \in Checker : CheckArrives(c) \/ CheckStep(c) =>
                               suspect' = suspect
      BY DEF CheckArrives, CheckLocal, CheckStep, CheckRemote, CheckAnswer
    <2> QED
      BY <2>1, <2>2, <2>3, <2>4, <2>5, <2>6 DEF Next, vars
  <1>2. /\ Primary \in Node
        /\ \A b \in Block : Good(b) => BlockInv(b)
    BY <1>1 DEF AgreeInv, Node
  <1>3. ASSUME \A b \in Block : Good(b) => BlockInv(b)' /\ Quiet(b)
        PROVE  Kept(Primary)
    BY <1>2, <1>3, QuietMoves
  <1>4. CASE \/ \E n \in Node : Start(n) \/ HeartBeat(n) \/ HeartBeatMissed(n)
             \/ \E c \in Checker : CheckArrives(c) \/ CheckStep(c)
             \/ UNCHANGED vars
    <2>1. /\ write' = write /\ store' = store /\ rpc' = rpc
          /\ pending' = pending /\ worker' = worker
      BY <1>4 DEF Start, HeartBeat, HeartBeatMissed, CheckArrives, CheckLocal,
                  CheckStep, CheckRemote, CheckAnswer, vars, server, replica
    <2> QED
      BY <1>1, <1>2, <1>3, <2>1, IdleAgrees
  <1>5. CASE \/ \E n \in Node : Break(n) \/ Consumer(n)
             \/ \E x \in Node \X SubThread : Worker(x)
    BY <1>1, <1>2, <1>3, <1>5, BreakAgrees, ConsumerAgrees, WorkerAgrees
  <1>6. CASE \E n \in Node : Crash(n)
    BY <1>1, <1>2, <1>6, CrashAgrees
  <1>7. ASSUME NEW v \in Writer, WriteArrives(v)
        PROVE  \E m \in Node : Kept(m)
    <2>1. PICK m \in Node : m = write'[v].node
      BY <1>7, NodeAssumption
         DEF WriteArrives, WriteAlone, WriteMirrored, IInv, TypeOK
    <2> QED
      BY <1>1, <1>2, <1>7, <2>1, ArriveAgrees
  <1>8. ASSUME NEW v \in Writer, WriteStep(v)
        PROVE  \E m \in Node : Kept(m)
    <2>1. PICK m \in Node : m = write[v].node
      BY <1>8, StepEffect
    <2> QED
      BY <1>1, <1>2, <1>8, <2>1, StepAgrees
  <1>9. ASSUME NEW r \in rpc, Serve(r) \/ Unreachable(r)
        PROVE  \E m \in Node : Kept(m)
    <2>1. r.dest \in Node
      BY <1>9, ServeEffect DEF IInv, MirrorInv
    <2> QED
      BY <1>1, <1>2, <1>9, <2>1, ServeAgrees
  <1>10. \E m \in Node : Kept(m)
    BY <1>2, <1>4, <1>5, <1>6, <1>7, <1>8, <1>9 DEF Next
  <1> QED
    BY <1>1, <1>10

LEMMA NextAgrees ==
    ASSUME IInv, MirrorInv, AgreeInv, [Next]_vars
    PROVE  AgreeInv'
BY NextMoves DEF AgreeInv, PastIntMax

LEMMA AgreeInvariance == Spec => [](IInv /\ MirrorInv /\ AgreeInv)
BY MirrorInvariance, InitAgrees, NextAgrees, PTL DEF Spec

\* The mirrors hold the same bytes of every block that is not suspect, whatever
\* other writes, replays, checks, crashes and broken connections there are,
\* wherever nothing is under way, queued, or past INT_MAX.
THEOREM MirrorsStayEqual == Spec => []MirrorsAgree
  <1>1. ASSUME IInv, MirrorInv, AgreeInv
        PROVE  MirrorsAgree
    <2> SUFFICES ASSUME NEW b \in Block \ suspect, ~Busy(b), ~PastIntMax(b),
                        NEW i \in Offset, ~Queued(b * BLOCK_SIZE + i)
                 PROVE  AllignedRead(store[Primary].blk, b)[i]
                          = AllignedRead(store[Backup].blk, b)[i]
      BY DEF MirrorsAgree
    <2>1. BlockInv(b)
      BY <1>1 DEF AgreeInv
    <2>2. Writing(b) = {} /\ Replaying(b) = {} /\ Abandoned(b) = {}
      BY DEF Busy
    <2>3. Calls(b) = {}
      BY <1>1, <2>2, CallerAt DEF Calls, Abandoned
    <2>4. ~Loose(b, i) /\ \A k \in Node : ~Underway(k, b)
      BY <2>2, <2>3 DEF Loose, Underway
    <2>5. At(Primary, b)[i] = At(Backup, b)[i]
      BY <2>1, <2>4 DEF BlockInv, Agree
    <2> QED
      BY <2>4, <2>5 DEF At, Shows, Node
  <1> QED
    BY AgreeInvariance, <1>1, PTL

-----------------------------------------------------------------------------
(* The pair is an array of bytes in two copies.                              *)

LEMMA RenamingUnderway ==
    ASSUME IInv, MirrorInv, NEW k, NEW b \in Block
    PROVE  Renaming(k, b) <=> Underway(k, b)
  <1>1. ASSUME NEW w \in Writer, write[w].pc \in {"commit", "commitAlone"},
               b \in ToRename(write[w].todo)
        PROVE  w \in Writing(b)
    <2>1. write[w].addr \in Addr /\ write[w].todo \in Rests(write[w].addr)
      BY <1>1, BusyType DEF MirrorInv, Mirrored, Here, Midway, IInv
    <2> QED
      BY <1>1, <2>1, RestStep DEF Writing
  <1>2. ASSUME NEW r \in rpc, r.st = "commit", b \in ToRename(r.todo)
        PROVE  r \in Calls(b)
    <2>1. r.addr \in Addr /\ r.todo \in Rests(r.addr)
      BY <1>2 DEF MirrorInv, CallsFit, CallFits, IInv, TypeOK, Call
    <2> QED
      BY <1>2, <2>1, RestStep DEF Calls
  <1>3. \A todo : b \in ToRename(todo) <=>
                    \E i \in DOMAIN todo : todo[i] = <<"rename", b>>
    BY DEF ToRename
  <1>4. \A w \in Writing(b) : w \in Writer
    BY DEF Writing
  <1> QED
    BY <1>1, <1>2, <1>3, <1>4 DEF Renaming, Underway, Calls

LEMMA CopyAt ==
    ASSUME IInv, MirrorInv, NEW k \in Node, NEW b \in Block, BlockInv(b)
    PROVE  Copy(k, b) = At(k, b)
  <1>1. ASSUME Underway(k, b) PROVE store[k].tmp[b] # None
    <2>1. ASSUME NEW w \in Writing(b), write[w].node = k,
                 write[w].pc \in {"commit", "commitAlone"},
                 b \in ToRename(write[w].todo)
          PROVE  store[k].tmp[b] # None
      BY <2>1 DEF Writing, MirrorInv, Mirrored, Here, Midway, StagedAt
    <2> QED
      BY <1>1, <2>1 DEF Underway, BlockInv, Ready
  <1> QED
    BY <1>1, RenamingUnderway DEF Copy, At, Shows

\* Where a byte may differ, a write brings it or a node is behind.
LEMMA LooseSeen ==
    ASSUME TypeOK, NEW b \in Block, NEW i \in Offset, Loose(b, i)
    PROVE  Brought(b, i) # {} \/ \E k \in Node : Behind(k, b, i)
  <1>1. ASSUME NEW w \in Writing(b), write[w].pc # "replicate",
               Covers(write[w].addr, b, i)
        PROVE  Brought(b, i) # {}
    BY <1>1, WritingBrings DEF Writing
  <1>2. ASSUME NEW x \in Replaying(b), Covers(worker[x].addr, b, i)
        PROVE  \E k \in Node : Behind(k, b, i)
    <2>1. PICK n \in Node, t \in SubThread : x = <<n, t>> /\ worker[x].addr # None
      BY DEF Replaying
    <2> QED
      BY <1>2, <2>1, PeerApart DEF Behind
  <1>3. ASSUME NEW n \in Node, NEW a \in Waiting(pending[n]), Covers(a, b, i)
        PROVE  \E k \in Node : Behind(k, b, i)
    BY <1>3, PeerApart DEF Behind
  <1> QED
    BY <1>1, <1>2, <1>3 DEF Loose, Queued, Covers

\* What Mirrors sees of the state, in the words of the proof.
Seen ==
    \A b \in Block \ suspect : ~PastIntMax(b) =>
      /\ \A k \in Node : Copy(k, b) = At(k, b)
      /\ \A i \in Offset : \/ At(Primary, b)[i] = At(Backup, b)[i]
                           \/ Brought(b, i) # {}
                           \/ \E k \in Node : Behind(k, b, i)

LEMMA AllSeen == IInv /\ MirrorInv /\ AgreeInv => Seen
BY CopyAt, LooseSeen DEF AgreeInv, BlockInv, Agree, Seen, IInv

LEMMA InitCopies == Init => M!Init
  <1> SUFFICES ASSUME Init PROVE M!Init
    OBVIOUS
  <1>1. ASSUME NEW k \in Node, NEW b \in Block
        PROVE  Copy(k, b) = [i \in Offset |-> 0]
    <2>1. store[k].blk[b] = None /\ store[k].tmp[b] = None
      BY DEF Init, EmptyStore, NoFiles
    <2> QED
      BY <2>1 DEF Copy, AllignedRead, Zeros
  <1>2. ASSUME NEW b \in Block, NEW i \in Offset
        PROVE  Brought(b, i) = {} /\ {k \in Node : Behind(k, b, i)} = {}
    <2>1. Brought(b, i) = {}
      BY DEF Init, Brought, NoWrite
    <2>2. ASSUME NEW k \in Node PROVE ~Behind(k, b, i)
      <3>1. Waiting(pending[Peer(k)]) = {}
        BY PeerApart DEF Init, Waiting, NoPending
      <3> QED
        BY <3>1, PeerApart DEF Init, Behind, NoWork
    <2> QED
      BY <2>1, <2>2
  <1>3. suspect \cap Addressable = {}
    BY DEF Init
  <1> QED
    BY <1>1, <1>2, <1>3 DEF M!Init, Addressable

LEMMA NextCopies ==
    ASSUME IInv, MirrorInv, AgreeInv, Seen, Seen', [Next]_vars
    PROVE  M!Next
  <1>1. PICK m \in Node : \A b \in Block : b \notin suspect' /\ ~PastIntMax(b)
          => BlockInv(b)' /\ Moved(m, b)
    BY NextMoves
  <1>2. suspect \subseteq suspect'
    BY NextMoves
  <1>3. ASSUME NEW b \in Addressable \ suspect'
        PROVE  /\ \A k \in Node \ {m} : Copy(k, b)' = Copy(k, b)
               /\ \A i \in Offset : \/ Copy(m, b)'[i] = Copy(m, b)[i]
                                    \/ Copy(m, b)'[i] \in Brought(b, i)'
                                    \/ Behind(m, b, i)'
               /\ \A i \in Offset :
                    \/ \A k \in Node : Copy(k, b)'[i] = Copy(m, b)'[i]
                    \/ \E k \in Node : Behind(k, b, i)'
                    \/ Brought(b, i)' # {}
    <2>1. /\ b \in Block /\ b \notin suspect /\ ~PastIntMax(b) /\ Moved(m, b)
          /\ Primary \in Node /\ Backup \in Node
          /\ \A k \in Node : k = Primary \/ k = Backup
      BY <1>1, <1>2 DEF Addressable, Node
    <2>2. \A k \in Node : Copy(k, b) = At(k, b) /\ Copy(k, b)' = At(k, b)'
      BY <1>3, <2>1 DEF Seen, PastIntMax
    <2>3. \A i \in Offset : \/ At(Primary, b)'[i] = At(Backup, b)'[i]
                            \/ Brought(b, i)' # {}
                            \/ \E k \in Node : Behind(k, b, i)'
      BY <1>3, <2>1 DEF Seen, PastIntMax
    <2>4. \A i \in Offset : \/ \A k \in Node : Copy(k, b)'[i] = Copy(m, b)'[i]
                            \/ \E k \in Node : Behind(k, b, i)'
                            \/ Brought(b, i)' # {}
      BY <2>1, <2>2, <2>3
    <2> QED
      BY <2>1, <2>2, <2>4 DEF Moved
  <1>4. M!Step(m)
    BY <1>2, <1>3 DEF M!Step, Addressable, PastIntMax
  <1> QED
    BY <1>4 DEF M!Next

\* Whatever writes and replays of overlapping addresses there are, and wherever
\* a crash or a broken connection stops them, each step of the servers changes
\* one copy of the pair, to bytes a write brings or where that copy is behind,
\* and leaves the copies equal everywhere else.
THEOREM ReplicationMirrors == Spec => ImplementsMirrors
  <1>1. IInv /\ MirrorInv /\ AgreeInv /\ Seen /\ Seen' /\ [Next]_vars
          => [M!Next]_(M!vars)
    BY NextCopies
  <1> QED
    BY AgreeInvariance, AllSeen, InitCopies, <1>1, PTL
       DEF Spec, ImplementsMirrors, M!Spec

-----------------------------------------------------------------------------
(* A check sees what is on its own node.                                     *)

\* Every byte of an address is in one of its blocks.
LEMMA ByteSomewhere ==
    ASSUME NEW addr \in Addr, NEW j \in Offset
    PROVE  \E b \in BlocksOf(addr), i \in Offset : b * BLOCK_SIZE + i = addr + j
  <1> DEFINE n     == GetBlockNumber(addr)
             loc   == addr % BLOCK_SIZE
             size  == BLOCK_SIZE - loc
             start == n * BLOCK_SIZE
             next  == (n + 1) * BLOCK_SIZE
  <1>1. /\ n \in Nat /\ loc \in Offset /\ start \in Nat
        /\ addr = start + loc /\ next = start + BLOCK_SIZE
        /\ IsAlligned(addr) => loc = 0
    BY Place
  <1>2. CASE j < size
    <2>1. n \in BlocksOf(addr)
      BY DEF BlocksOf
    <2>2. loc + j \in Offset /\ start + (loc + j) = addr + j
      <3> HIDE DEF start, loc, n, next
      <3> QED
        BY <1>1, <1>2, BlockSizeAssumption DEF Offset
    <2> QED
      BY <2>1, <2>2
  <1>3. CASE ~(j < size)
    <2>1. j - size \in Offset /\ next + (j - size) = addr + j /\ loc # 0
      <3> HIDE DEF start, loc, n, next
      <3> QED
        BY <1>1, <1>3, BlockSizeAssumption DEF Offset
    <2>2. n + 1 \in BlocksOf(addr)
      BY <1>1, <2>1 DEF BlocksOf
    <2> QED
      BY <2>1, <2>2
  <1> QED
    BY <1>2, <1>3

LEMMA SameReads ==
    ASSUME NEW old \in Files, NEW new \in Files, NEW addr \in Addr,
           \A b \in BlocksOf(addr), i \in Offset : Covers(addr, b, i) =>
             AllignedRead(old, b)[i] = AllignedRead(new, b)[i]
    PROVE  Read(old, addr) = Read(new, addr)
  <1>1. Read(old, addr) \in Content /\ Read(new, addr) \in Content
    BY ReadType
  <1>2. ASSUME NEW j \in Offset
        PROVE  Read(old, addr)[j] = Read(new, addr)[j]
    <2> PICK b \in BlocksOf(addr), i \in Offset : b * BLOCK_SIZE + i = addr + j
      BY ByteSomewhere
    <2>1. (b * BLOCK_SIZE + i) - addr = j
      BY Place, BlockSizeAssumption DEF Offset
    <2>2. Covers(addr, b, i)
      BY <2>1 DEF Covers
    <2>3. /\ Read(old, addr)[j] = ByteOf(addr, Read(old, addr), b, i)
          /\ Read(new, addr)[j] = ByteOf(addr, Read(new, addr), b, i)
      BY <2>1 DEF ByteOf
    <2> QED
      BY <2>2, <2>3, ReadBytes
  <1> QED
    BY <1>1, <1>2 DEF Content

\* A block file changes only under its lock.
LEMMA FilesLocked ==
    ASSUME IInv, MirrorInv, [Next]_vars, NEW k \in Node, NEW b \in Block,
           store'[k].blk[b] # store[k].blk[b]
    PROVE  \/ \E w \in Writer : <<k, b>> \in WriteLocks(w)
           \/ \E r \in rpc : <<k, b>> \in CallLocks(r)
  <1>1. TypeOK /\ \A m \in Node : store[m] \in Store
    BY DEF IInv, TypeOK
  <1>2. ASSUME NEW m \in Node, NEW addr \in Addr, NEW data \in Content
        PROVE  store' # [store EXCEPT ![m] = Write(@, addr, data)]
    BY <1>1, WriteType DEF TypeOK
  <1>3. ASSUME NEW m \in Node, NEW addr \in Addr, NEW todo \in Rests(addr),
               store' = [store EXCEPT ![m] = Apply(@, Head(todo))]
        PROVE  m = k /\ b \in BlocksOf(addr)
    BY <1>1, <1>3, ApplyElsewhere DEF TypeOK
  <1>4. store' # store
    OBVIOUS
  <1>5. CASE \E v \in Writer : WriteArrives(v)
    <2>1. PICK n \in Node, addr \in Addr, data \in Content :
            store' = store \/ store' = [store EXCEPT ![n] = Write(@, addr, data)]
      BY <1>5, NodeAssumption, PayloadAssumption
         DEF WriteArrives, WriteAlone, WriteMirrored
    <2> QED
      BY <1>2, <1>4, <2>1
  <1>6. CASE \E v \in Writer : WriteStep(v)
    <2> PICK v \in Writer : WriteStep(v)
      BY <1>6
    <2>1. PICK n \in Node, addr \in Addr, data \in Content :
            /\ n = write[v].node /\ addr = write[v].addr
            /\ write[v].pc # "idle"
            /\ \/ store' = store
               \/ store' = [store EXCEPT ![n] = Write(@, addr, data)]
               \/ \E todo \in Rests(addr) :
                    store' = [store EXCEPT ![n] = Apply(@, Head(todo))]
      BY StepEffect
    <2>2. n = k /\ b \in BlocksOf(addr)
      BY <1>2, <1>3, <1>4, <2>1
    <2> QED
      BY <2>1, <2>2 DEF WriteLocks, Locks
  <1>7. CASE \E r \in rpc : Serve(r) \/ Unreachable(r)
    <2> PICK r \in rpc : Serve(r) \/ Unreachable(r)
      BY <1>7
    <2>1. /\ r.dest \in Node /\ r.addr \in Addr
          /\ \/ store' = store
             \/ /\ r.data \in Content
                /\ store' = [store EXCEPT ![r.dest] = Write(@, r.addr, r.data)]
             \/ /\ r.st = "commit" /\ r.todo \in Rests(r.addr)
                /\ store' = [store EXCEPT ![r.dest] = Apply(@, Head(r.todo))]
      BY <1>1, ServeEffect DEF MirrorInv
    <2>2. r.st = "commit" /\ r.dest = k /\ b \in BlocksOf(r.addr)
      BY <1>2, <1>3, <1>4, <2>1
    <2> QED
      BY <2>2 DEF CallLocks, Locks
  <1>8. CASE \/ \E n \in Node : \/ Start(n) \/ HeartBeat(n) \/ HeartBeatMissed(n)
                                \/ Break(n) \/ Crash(n) \/ Consumer(n)
             \/ \E x \in Node \X SubThread : Worker(x)
             \/ \E c \in Checker : CheckArrives(c) \/ CheckStep(c)
             \/ UNCHANGED vars
    <2>1. store' = store
      BY <1>8 DEF Start, HeartBeat, HeartBeatMissed, Break, Crash, Consumer,
             ConsumerDrain, ConsumerJoin, Worker, WorkerCheck, WorkerPop,
             WorkerRead, WorkerReplicated, WorkerCommitted, WorkerRequeue,
             CheckArrives, CheckLocal, CheckStep, CheckRemote, CheckAnswer,
             vars, server
    <2> QED
      BY <1>4, <2>1
  <1> QED
    BY <1>5, <1>6, <1>7, <1>8 DEF Next

\* What a check read is still there: it holds the lock.
Sighted(c) ==
    check[c].pc # "idle" =>
        check[c].data = Read(store[check[c].node].blk, check[c].addr)

Sight == \A c \in Checker : Sighted(c)

LEMMA CheckBusy ==
    ASSUME TypeOK, NEW c \in Checker, check[c].pc # "idle"
    PROVE  /\ check[c].pc \in {"read", "compare"} /\ check[c].node \in Node
           /\ check[c].addr \in Addr /\ check[c].data \in Content
BY DEF TypeOK, CheckState, NoCheck

\* What a check has of its own copy does not change while it waits.
SameSight(old, new) ==
    new.node = old.node /\ new.addr = old.addr /\ new.data = old.data

\* What a step does to a check.
LEMMA CheckEffect ==
    ASSUME TypeOK, [Next]_vars, NEW c \in Checker
    PROVE  \/ check'[c] = check[c]
           \/ CheckArrives(c) /\ store' = store
           \/ CheckRemote(c) /\ store' = store
           \/ CheckAnswer(c) /\ store' = store
           \/ check[c].pc # "idle" /\ check'[c] = ReadFails(check[c])
           \/ check'[c] = NoCheck /\ ~up'[check[c].node]
  <1>1. CASE \E d \in Checker : CheckArrives(d) \/ CheckStep(d)
    <2> PICK d \in Checker : CheckArrives(d) \/ CheckStep(d)
      BY <1>1
    <2>1. store' = store /\ \A e \in Checker \ {d} : check'[e] = check[e]
      BY DEF CheckArrives, CheckLocal, CheckStep, CheckRemote, CheckAnswer,
             TypeOK, server
    <2> QED
      BY <2>1 DEF CheckStep
  <1>2. CASE \E n \in Node : Break(n) \/ Crash(n)
    <2> PICK n \in Node : Break(n) \/ Crash(n)
      BY <1>2
    <2>1. Crash(n) => ~up'[n]
      BY DEF Crash, TypeOK
    <2> QED
      BY <2>1, LostRead
  <1>3. CASE \/ \E n \in Node : \/ Start(n) \/ HeartBeat(n) \/ HeartBeatMissed(n)
                                \/ Consumer(n)
             \/ \E w \in Writer : WriteArrives(w) \/ WriteStep(w)
             \/ \E r \in rpc : Serve(r) \/ Unreachable(r)
             \/ \E x \in Node \X SubThread : Worker(x)
             \/ UNCHANGED vars
    <2>1. \A n \in Node : \/ Start(n) \/ HeartBeat(n) \/ HeartBeatMissed(n)
                          \/ Consumer(n)
                         => check' = check
      BY DEF Start, HeartBeat, HeartBeatMissed, Consumer, ConsumerDrain,
             ConsumerJoin
    <2>2. \A w \in Writer : WriteArrives(w) => check' = check
      BY DEF WriteArrives, WriteAlone, WriteMirrored
    <2>3. \A w \in Writer : WriteStep(w) => check' = check
      BY DEF WriteStep, WriteReplicated, WriteRejected, WriteCommitFailed,
             WriteCommitted, WriteCommitOp, WriteValid, WriteAloneCommitted,
             WriteEnqueue
    <2>4. \A r \in rpc : Serve(r) \/ Unreachable(r) => check' = check
      BY DEF Serve, ServeReplicate, ServeCommit, ServeCommitOp, Unreachable
    <2>5. \A x \in Node \X SubThread : Worker(x) => check' = check
      BY DEF Worker, WorkerCheck, WorkerPop, WorkerRead, WorkerReplicated,
             WorkerCommitted, WorkerRequeue
    <2>6. UNCHANGED vars => check' = check
      BY DEF vars
    <2> QED
      BY <1>3, <2>1, <2>2, <2>3, <2>4, <2>5, <2>6
  <1> QED
    BY <1>1, <1>2, <1>3 DEF Next

\* Until it answers, its lock keeps its own copy as it read it.
LEMMA OwnCopyStays ==
    ASSUME IInv, MirrorInv, Sight, TypeOK', [Next]_vars, NEW c \in Checker,
           check[c].pc # "idle"
    PROVE  Read(store'[check[c].node].blk, check[c].addr) = check[c].data
  <1>1. TypeOK
    BY DEF IInv
  <1>2. PICK n \in Node, addr \in Addr : n = check[c].node /\ addr = check[c].addr
    BY <1>1, CheckBusy
  <1>3. check[c].data = Read(store[n].blk, addr)
    BY <1>2 DEF Sight, Sighted
  <1>4. ASSUME NEW b \in BlocksOf(addr)
        PROVE  store'[n].blk[b] = store[n].blk[b]
    <2>1. b \in Block /\ <<n, b>> \in CheckLocks(c)
      BY <1>2, BlocksOfType DEF CheckLocks, Locks
    <2>2. /\ \A w \in Writer : <<n, b>> \notin WriteLocks(w)
          /\ \A r \in rpc : <<n, b>> \notin CallLocks(r)
      BY <2>1 DEF IInv, LockInv, LocksExclusive
    <2> QED
      BY <2>1, <2>2, FilesLocked
  <1>5. store[n].blk \in Files /\ store'[n].blk \in Files
    BY <1>1 DEF TypeOK, Store
  <1>6. Read(store'[n].blk, addr) = Read(store[n].blk, addr)
    BY <1>4, <1>5, SameReads DEF AllignedRead
  <1> QED
    BY <1>2, <1>3, <1>6

LEMMA NextSights ==
    ASSUME IInv, MirrorInv, Sight, TypeOK', [Next]_vars
    PROVE  Sight'
  <1> SUFFICES ASSUME NEW c \in Checker, check'[c].pc # "idle"
               PROVE  check'[c].data
                        = Read(store'[check'[c].node].blk, check'[c].addr)
    BY DEF Sight, Sighted
  <1>1. TypeOK
    BY DEF IInv
  <1>2. CASE check[c].pc # "idle" /\ SameSight(check[c], check'[c])
    BY <1>2, OwnCopyStays DEF SameSight
  <1>3. CASE CheckArrives(c) /\ store' = store
    <2>1. PICK n \in Node, addr \in Addr : CheckLocal(c, n, addr)
      BY <1>3 DEF CheckArrives
    <2>2. /\ check'[c].node = n /\ check'[c].addr = addr
          /\ check'[c].data = Read(store[n].blk, addr)
      BY <1>1, <2>1 DEF CheckLocal, TypeOK
    <2> QED
      BY <1>3, <2>2
  <1>4. CASE CheckRemote(c)
    <2>1. check[c].pc # "idle" /\ SameSight(check[c], check'[c])
      BY <1>1, <1>4 DEF CheckRemote, SameSight, TypeOK, CheckState, NoCheck
    <2> QED
      BY <1>2, <2>1
  <1>5. CASE check[c].pc # "idle" /\ check'[c] = ReadFails(check[c])
    BY <1>1, <1>2, <1>5, FailedReadKeeps DEF SameSight
  <1>6. CASE check'[c] = check[c]
    BY <1>2, <1>6 DEF SameSight
  <1>7. ~CheckAnswer(c) /\ check'[c] # NoCheck
    BY <1>1 DEF CheckAnswer, NoCheck, TypeOK
  <1> QED
    BY <1>1, <1>3, <1>4, <1>5, <1>6, <1>7, CheckEffect

LEMMA InitSights == Init => Sight
BY DEF Init, Sight, Sighted, NoCheck

\* Two copies differ only for a reason.
LEMMA SameUnlessExcused ==
    ASSUME TypeOK, MirrorsAgree, NEW addr \in Addr, ~Excused(addr)
    PROVE  SameAt(addr)
  <1>1. ASSUME NEW b \in BlocksOf(addr), NEW i \in Offset, Covers(addr, b, i)
        PROVE  AllignedRead(store[Primary].blk, b)[i]
                 = AllignedRead(store[Backup].blk, b)[i]
    <2>1. b \in Block /\ b * BLOCK_SIZE + i = addr + ((b * BLOCK_SIZE + i) - addr)
      <3>1. b \in Block /\ b * BLOCK_SIZE \in Nat /\ addr \in Nat /\ i \in Nat
        <4>1. b \in Block /\ b \in Nat
          BY BlocksOfType, BlockType
        <4>2. addr \in Nat /\ i \in Nat
          BY AddrAssumption, IntMaxAssumption, BlockSizeAssumption DEF Offset
        <4> QED
          BY <4>1, <4>2, BlockSizeAssumption
      <3> PICK m \in Nat : m = b * BLOCK_SIZE
        BY <3>1
      <3>2. m + i = addr + ((m + i) - addr)
        BY <3>1
      <3> QED
        BY <3>1, <3>2
    <2>2. ~Queued(b * BLOCK_SIZE + i)
      BY <1>1, <2>1 DEF Covers, Excused
    <2> QED
      BY <2>1, <2>2 DEF MirrorsAgree, Excused
  <1>2. store[Primary].blk \in Files /\ store[Backup].blk \in Files
    BY DEF TypeOK, Store, Node
  <1> QED
    BY <1>1, <1>2, SameReads DEF SameAt

\* What a check finds is true of the moment the other node serves its Read: equal
\* copies if it will say VALID, copies that differ for a reason if not; and its own
\* copy is still the one it compared when it answers VALID.
THEOREM ChecksAreSound == Spec => CheckIsSound
  <1> DEFINE Served(c) ==
        check[c].pc = "read" /\ check'[c].remote # None =>
          IF CheckVerdict(check'[c]) = "VALID" THEN SameAt(check[c].addr)
          ELSE ~SameAt(check[c].addr) /\ Excused(check[c].addr)
  <1> DEFINE Answered(c) ==
        /\ check[c].pc = "compare" /\ check'[c].pc = "idle"
        /\ up'[check[c].node] /\ CheckVerdict(check[c]) = "VALID"
        => Read(store'[check[c].node].blk, check[c].addr) = check[c].remote
  <1>1. ASSUME IInv, MirrorInv, Sight, MirrorsAgree, TypeOK', [Next]_vars,
               NEW c \in Checker
        PROVE  Served(c)
    <2> SUFFICES ASSUME check[c].pc = "read", check'[c].remote # None
                 PROVE  IF CheckVerdict(check'[c]) = "VALID"
                        THEN SameAt(check[c].addr)
                        ELSE ~SameAt(check[c].addr) /\ Excused(check[c].addr)
      OBVIOUS
    <2>1. TypeOK
      BY <1>1 DEF IInv
    <2>2. check[c].remote = None
      BY <2>1 DEF TypeOK, CheckState, NoCheck
    <2>3. CheckRemote(c)
      <3>1. ~CheckArrives(c) /\ ~CheckAnswer(c)
        BY DEF CheckArrives, CheckLocal, CheckAnswer
      <3>2. check'[c] # check[c] /\ check'[c] # NoCheck
        BY <2>2 DEF NoCheck
      <3>3. check'[c] # ReadFails(check[c])
        BY <2>1, FailedReadKeeps
      <3> QED
        BY <1>1, <2>1, <3>1, <3>2, <3>3, CheckEffect
    <2>4. PICK n \in Node, addr \in Addr : n = check[c].node /\ addr = check[c].addr
      BY <2>1, CheckBusy
    <2>5. /\ check'[c].data = check[c].data
          /\ check'[c].remote = RemoteRead(n, addr)
      BY <2>1, <2>3, <2>4 DEF CheckRemote, TypeOK, CheckState, NoCheck
    <2>6. check'[c].remote = Read(store[Peer(n)].blk, addr)
      BY <2>5 DEF RemoteRead, ServeRead
    <2>7. check[c].data = Read(store[n].blk, addr)
      BY <1>1, <2>4 DEF Sight, Sighted
    <2>8. CheckVerdict(check'[c]) = "VALID" <=> SameAt(addr)
      BY <2>5, <2>6, <2>7 DEF CheckVerdict, SameAt, Node, Peer
    <2> QED
      BY <1>1, <2>1, <2>4, <2>8, SameUnlessExcused
  <1>2. ASSUME IInv, MirrorInv, Sight, TypeOK', [Next]_vars, NEW c \in Checker
        PROVE  Answered(c)
    BY <1>2, OwnCopyStays DEF CheckVerdict
  <1> DEFINE Sound(c) ==
         LET n == check[c].node
             addr == check[c].addr
         IN  /\ check[c].pc = "read" /\ check'[c].remote # None =>
                  IF CheckVerdict(check'[c]) = "VALID" THEN SameAt(addr)
                  ELSE ~SameAt(addr) /\ Excused(addr)
             /\ check[c].pc = "compare" /\ check'[c].pc = "idle" /\ up'[n]
                  /\ CheckVerdict(check[c]) = "VALID" =>
                  Read(store'[n].blk, addr) = check[c].remote
  <1>3. ASSUME IInv, MirrorInv, Sight, MirrorsAgree, TypeOK', [Next]_vars
        PROVE  [\A c \in Checker : Sound(c)]_vars
    BY <1>1, <1>2, <1>3
  <1>4. ASSUME [][\A c \in Checker : Sound(c)]_vars
        PROVE  CheckIsSound
    BY <1>4 DEF CheckIsSound
  <1> QED
    BY AgreeInvariance, TypeCorrect, MirrorsStayEqual, InitSights, NextSights,
       <1>3, <1>4, PTL DEF Spec
=============================================================================

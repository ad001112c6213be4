---------------------------- MODULE MirrorProofs -----------------------------
(* A Write that answers VALID can be read here and on the other mirror, or   *)
(* is queued for it, for any instance.                                       *)
(*                                                                           *)
(* The argument follows one write.  Its locks protect what it stages and     *)
(* commits here; there, nothing protects it but that nobody else is busy     *)
(* with its blocks, and this is what a block that is not suspect stands for. *)
EXTENDS LockProofs

-----------------------------------------------------------------------------
(* The files of one node that a write of data at addr goes through.          *)

StagedAt(st, addr, data, b) ==
    st.tmp[b] # None /\ Carries(st.tmp[b], addr, data, b)
LandedAt(st, addr, data, b) ==
    st.blk[b] # None /\ Carries(st.blk[b], addr, data, b)

Staged(st, addr, data) == \A b \in BlocksOf(addr) : StagedAt(st, addr, data, b)
Landed(st, addr, data) == \A b \in BlocksOf(addr) : LandedAt(st, addr, data, b)

\* todo is left of the commit.
Midway(st, addr, data, todo) ==
    /\ todo \in Rests(addr)
    /\ \A b \in ToRename(todo) : StagedAt(st, addr, data, b)
    /\ \A b \in BlocksOf(addr) \ ToRename(todo) : LandedAt(st, addr, data, b)

\* The files of addr are the same in two stores.
SameFiles(st, new, addr) ==
    \A b \in BlocksOf(addr) : new.blk[b] = st.blk[b] /\ new.tmp[b] = st.tmp[b]

LEMMA SameKeeps ==
    ASSUME NEW st, NEW new, NEW addr \in Addr, NEW data, NEW todo,
           SameFiles(st, new, addr)
    PROVE  /\ Staged(st, addr, data) => Staged(new, addr, data)
           /\ Landed(st, addr, data) => Landed(new, addr, data)
           /\ Midway(st, addr, data, todo) => Midway(new, addr, data, todo)
  <1>1. todo \in Rests(addr) => ToRename(todo) \subseteq BlocksOf(addr)
    BY RestStep
  <1> QED
    BY <1>1 DEF SameFiles, Staged, StagedAt, Landed, LandedAt, Midway

LEMMA StagedByWrite ==
    ASSUME NEW st \in Store, NEW addr \in Addr, NEW data \in Content
    PROVE  Staged(Write(st, addr, data), addr, data)
  <1> SUFFICES ASSUME NEW b \in BlocksOf(addr)
               PROVE  StagedAt(Write(st, addr, data), addr, data, b)
    BY DEF Staged
  <1>1. b \in Nat
    BY BlocksOfType, BlockType
  <1>2. Write(st, addr, data).tmp[b] = Over(AllignedRead(st.blk, b), addr, data, b)
    BY WriteStages
  <1>3. Write(st, addr, data).tmp[b] \in Content
    BY StagedContent
  <1> QED
    BY <1>1, <1>2, <1>3, OverCarries, NoneAssumption DEF StagedAt

LEMMA StagedMidway ==
    ASSUME NEW st, NEW addr \in Addr, NEW data, Staged(st, addr, data)
    PROVE  Midway(st, addr, data, Commit(addr))
BY CommitRest DEF Staged, Midway

LEMMA WriteElsewhere ==
    ASSUME NEW st \in Store, NEW addr \in Addr, NEW data \in Content,
           NEW b \in Block \ BlocksOf(addr)
    PROVE  /\ Write(st, addr, data).blk[b] = st.blk[b]
           /\ Write(st, addr, data).tmp[b] = st.tmp[b]
BY WriteType, WriteStages

\* One file operation touches the block it names.
LEMMA ApplyEffect ==
    ASSUME NEW st \in Store, NEW addr \in Addr, NEW todo \in Rests(addr)
    PROVE  LET n   == Head(todo)[2]
               new == Apply(st, Head(todo))
           IN  /\ n \in BlocksOf(addr) /\ n \in Block
               /\ \A b \in Block \ {n} :
                    new.blk[b] = st.blk[b] /\ new.tmp[b] = st.tmp[b]
               /\ Head(todo) = <<"remove", n>> => new.tmp[n] = st.tmp[n]
               /\ Head(todo) = <<"rename", n>> /\ st.tmp[n] # None =>
                    new.blk[n] = st.tmp[n]
  <1> DEFINE op == Head(todo)
             n  == op[2]
  <1>1. /\ n \in BlocksOf(addr)
        /\ op = <<"remove", n>> \/ op = <<"rename", n>>
    BY RestStep
  <1>2. n \in Block
    BY <1>1, BlocksOfType
  <1>3. st.blk \in Files /\ st.tmp \in Files
    BY DEF Store
  <1> HIDE DEF op
  <1>4. CASE op = <<"remove", n>>
    <2>1. op[1] = "remove" /\ op # <<"rename", n>>
      BY <1>4
    <2> HIDE DEF n
    <2>2. Apply(st, op) = [st EXCEPT !.blk[n] = None]
      BY <2>1 DEF Apply, Remove, n
    <2>3. /\ Apply(st, op).tmp = st.tmp
          /\ Apply(st, op).blk = [st.blk EXCEPT ![n] = None]
      BY <2>2 DEF Store
    <2> QED
      BY <1>1, <1>2, <1>3, <2>1, <2>3 DEF Files, op, n
  <1>5. CASE op = <<"rename", n>>
    <2>1. op[1] = "rename" /\ op[1] # "remove" /\ op # <<"remove", n>>
      BY <1>5
    <2> HIDE DEF n
    <2>2. Apply(st, op) = Rename(st, n)
      BY <2>1 DEF Apply, n
    <2>3. CASE st.tmp[n] = None
      BY <1>1, <1>2, <2>1, <2>2, <2>3 DEF Rename, op, n
    <2>4. CASE st.tmp[n] # None
      <3>1. /\ Apply(st, op).blk = [st.blk EXCEPT ![n] = st.tmp[n]]
            /\ Apply(st, op).tmp = [st.tmp EXCEPT ![n] = None]
        BY <2>2, <2>4 DEF Rename, Store
      <3> QED
        BY <1>1, <1>2, <1>3, <2>1, <3>1 DEF Files, op, n
    <2> QED
      BY <2>3, <2>4
  <1> QED
    BY <1>1, <1>4, <1>5

\* A step of a commit.
LEMMA MidwayStep ==
    ASSUME NEW st \in Store, NEW addr \in Addr, NEW data, NEW todo,
           Midway(st, addr, data, todo)
    PROVE  LET new == Apply(st, Head(todo))
           IN  IF Len(todo) = 1 THEN Landed(new, addr, data)
                                ELSE Midway(new, addr, data, Tail(todo))
  <1> DEFINE n   == Head(todo)[2]
             new == Apply(st, Head(todo))
  <1>1. /\ todo \in Rests(addr)
        /\ \A b \in ToRename(todo) : StagedAt(st, addr, data, b)
        /\ \A b \in BlocksOf(addr) \ ToRename(todo) : LandedAt(st, addr, data, b)
    BY DEF Midway
  <1>2. /\ n \in BlocksOf(addr) /\ BlocksOf(addr) \subseteq Block
        /\ \A b \in Block \ {n} :
             new.blk[b] = st.blk[b] /\ new.tmp[b] = st.tmp[b]
        /\ Head(todo) = <<"remove", n>> => new.tmp[n] = st.tmp[n]
        /\ Head(todo) = <<"rename", n>> /\ st.tmp[n] # None =>
             new.blk[n] = st.tmp[n]
    BY <1>1, ApplyEffect, BlocksOfType
  <1>3. /\ n \in ToRename(todo) /\ ToRename(todo) \subseteq BlocksOf(addr)
        /\ Len(todo) = 1 => ToRename(todo) = {n}
        /\ Len(todo) # 1 => Tail(todo) \in Rests(addr)
    BY <1>1, RestStep
  <1>4. \/ /\ Head(todo) = <<"remove", n>> /\ Len(todo) # 1
           /\ ToRename(Tail(todo)) = ToRename(todo)
        \/ /\ Head(todo) = <<"rename", n>>
           /\ Len(todo) # 1 => ToRename(Tail(todo)) = ToRename(todo) \ {n}
    BY <1>1, RestStep
  <1>5. \A b \in BlocksOf(addr) \ {n} :
          /\ StagedAt(st, addr, data, b) => StagedAt(new, addr, data, b)
          /\ LandedAt(st, addr, data, b) => LandedAt(new, addr, data, b)
    BY <1>2 DEF StagedAt, LandedAt
  <1> HIDE DEF n, new
  <1>6. CASE Head(todo) = <<"remove", n>> /\ Len(todo) # 1
               /\ ToRename(Tail(todo)) = ToRename(todo)
    <2>1. StagedAt(new, addr, data, n)
      BY <1>1, <1>2, <1>3, <1>6 DEF StagedAt
    <2>2. Midway(new, addr, data, Tail(todo))
      BY <1>1, <1>3, <1>5, <1>6, <2>1 DEF Midway
    <2> QED
      BY <1>6, <2>2 DEF new
  <1>7. CASE Head(todo) = <<"rename", n>>
               /\ (Len(todo) # 1 => ToRename(Tail(todo)) = ToRename(todo) \ {n})
    <2>1. LandedAt(new, addr, data, n)
      BY <1>1, <1>2, <1>3, <1>7 DEF StagedAt, LandedAt
    <2>2. CASE Len(todo) = 1
      <3>1. Landed(new, addr, data)
        BY <1>1, <1>3, <1>5, <2>1, <2>2 DEF Landed
      <3> QED
        BY <2>2, <3>1 DEF new
    <2>3. CASE Len(todo) # 1
      <3>1. Midway(new, addr, data, Tail(todo))
        BY <1>1, <1>3, <1>5, <1>7, <2>1, <2>3 DEF Midway
      <3> QED
        BY <2>3, <3>1 DEF new
    <2> QED
      BY <2>2, <2>3
  <1> QED
    BY <1>4, <1>6, <1>7

LEMMA ApplyElsewhere ==
    ASSUME NEW st \in Store, NEW addr \in Addr, NEW todo \in Rests(addr),
           NEW b \in Block \ BlocksOf(addr)
    PROVE  /\ Apply(st, Head(todo)).blk[b] = st.blk[b]
           /\ Apply(st, Head(todo)).tmp[b] = st.tmp[b]
BY ApplyEffect

-----------------------------------------------------------------------------
(* The invariant.                                                            *)

\* A call is about its caller's address, and does what its caller waits for.
CallFits(r) ==
    /\ r.st = "commit" => r.todo \in Rests(r.addr)
    /\ r.op = "CommitBlock" /\ r.st = "sent" => r.todo = Commit(r.addr)
    /\ r.caller \in Writer =>
         LET h == write[r.caller]
         IN  /\ r.addr = h.addr
             /\ h.pc = "replicate" => r.op = "ReplicateBlock" /\ r.data = h.data
             /\ h.pc = "commitRemote" => r.op = "CommitBlock"
    /\ r.caller \in Node \X SubThread =>
         LET h == worker[r.caller]
         IN  /\ r.addr = h.addr
             /\ h.pc = "replicate" => r.op = "ReplicateBlock"
             /\ h.pc = "commitRemote" => r.op = "CommitBlock"

CallsFit == \A r \in rpc : CallFits(r)

\* The files on w's own node.
Here(w) ==
    LET h == write[w]
        s == store[h.node]
    IN  /\ h.pc = "commitRemote" => Staged(s, h.addr, h.data)
        /\ h.pc \in {"commit", "commitAlone"} => Midway(s, h.addr, h.data, h.todo)
        /\ h.pc = "enqueue" => Landed(s, h.addr, h.data)

Trusted(w) ==
    /\ write[w].pc \in {"replicate", "commitRemote", "commit"}
    /\ BlocksOf(write[w].addr) \cap suspect = {}

\* Nobody else is busy with w's blocks, unless it is a call w has given up.
Sole(w) ==
    Trusted(w) =>
      \A b \in BlocksOf(write[w].addr) :
        /\ Writing(b) \subseteq {w}
        /\ Replaying(b) = {}
        /\ \A r \in rpc : b \in BlocksOf(r.addr) =>
             \/ r.caller = w
             \/ r.caller = None /\ Failed(w) /\ write[w].pc # "commit"

\* The files on the other node, as far as w's call has come.
There(w) ==
    LET h == write[w]
        s == store[Peer(h.node)]
    IN  Trusted(w) =>
          /\ \A r \in rpc : r.caller = w =>
               /\ r.st = "sent" /\ h.pc = "commitRemote" =>
                    Staged(s, h.addr, h.data)
               /\ r.st = "commit" => Midway(s, h.addr, h.data, r.todo)
               /\ r.st = "done" => IF h.pc = "replicate"
                                   THEN Staged(s, h.addr, h.data)
                                   ELSE Landed(s, h.addr, h.data)
          /\ h.pc = "commit" => Landed(s, h.addr, h.data)

Mirrored(w) == Here(w) /\ Sole(w) /\ There(w)

MirrorInv == CallsFit /\ \A w \in Writer : Mirrored(w)

-----------------------------------------------------------------------------
(* What leaves a write's blocks alone.                                       *)

LEMMA HereKept ==
    ASSUME TypeOK, NEW w \in Writer, Here(w), write'[w] = write[w],
           write[w].pc # "idle" =>
             SameFiles(store[write[w].node], store'[write[w].node], write[w].addr)
    PROVE  Here(w)'
  <1>1. CASE write[w].pc = "idle"
    BY <1>1 DEF Here
  <1>2. CASE write[w].pc # "idle"
    <2>1. write[w].addr \in Addr
      BY <1>2, BusyType
    <2> QED
      BY <1>2, <2>1, SameKeeps DEF Here
  <1> QED
    BY <1>1, <1>2

LEMMA TrustedBefore ==
    ASSUME NEW w \in Writer, write'[w] = write[w], suspect \subseteq suspect',
           Trusted(w)'
    PROVE  Trusted(w)
BY DEF Trusted

LEMMA ThereKept ==
    ASSUME TypeOK, NEW w \in Writer, There(w), write'[w] = write[w],
           suspect \subseteq suspect',
           Trusted(w)' =>
             /\ SameFiles(store[Peer(write[w].node)], store'[Peer(write[w].node)],
                          write[w].addr)
             /\ \A r \in rpc' : r.caller = w => r \in rpc
    PROVE  There(w)'
  <1> SUFFICES ASSUME Trusted(w)' PROVE There(w)'
    BY DEF There
  <1>1. Trusted(w) /\ write[w].addr \in Addr
    BY TrustedBefore, BusyType DEF Trusted
  <1> QED
    BY <1>1, SameKeeps DEF There

LEMMA SoleKept ==
    ASSUME NEW w \in Writer, Sole(w), write'[w] = write[w],
           suspect \subseteq suspect',
           Trusted(w)' =>
             /\ \A b \in BlocksOf(write[w].addr) :
                  /\ Writing(b)' \subseteq Writing(b)
                  /\ Replaying(b)' \subseteq Replaying(b)
                  /\ \A r \in rpc' : b \in BlocksOf(r.addr) =>
                       \E q \in rpc : q.caller = r.caller /\ q.addr = r.addr
             /\ Failed(w) => Failed(w)'
    PROVE  Sole(w)'
  <1> SUFFICES ASSUME Trusted(w)', NEW b \in BlocksOf(write[w].addr)
               PROVE  /\ Writing(b)' \subseteq {w}
                      /\ Replaying(b)' = {}
                      /\ \A r \in rpc' : b \in BlocksOf(r.addr) =>
                           \/ r.caller = w
                           \/ r.caller = None /\ Failed(w)' /\ write[w].pc # "commit"
    BY DEF Sole
  <1>1. Trusted(w)
    BY TrustedBefore
  <1>2. /\ Writing(b) \subseteq {w} /\ Replaying(b) = {}
        /\ \A q \in rpc : b \in BlocksOf(q.addr) =>
             \/ q.caller = w
             \/ q.caller = None /\ Failed(w) /\ write[w].pc # "commit"
    BY <1>1 DEF Sole
  <1> QED
    BY <1>2

\* Nothing a write or its calls depend on changes.
LEMMA QuietKeeps ==
    ASSUME TypeOK, MirrorInv, store' = store, write' = write, rpc' = rpc,
           suspect \subseteq suspect',
           \A x \in Node \X SubThread : worker'[x] # worker[x] =>
             /\ \A r \in rpc : r.caller # x
             /\ worker'[x].addr # None => \A w \in Writer : Trusted(w)' =>
                  BlocksOf(worker'[x].addr) \cap BlocksOf(write[w].addr) = {}
    PROVE  MirrorInv'
  <1>1. CallsFit'
    BY DEF MirrorInv, CallsFit, CallFits
  <1>2. ASSUME NEW w \in Writer
        PROVE  Mirrored(w)'
    <2>1. Here(w) /\ Sole(w) /\ There(w)
      BY DEF MirrorInv, Mirrored
    <2>2. Here(w)'
      BY <2>1, HereKept DEF SameFiles
    <2>3. There(w)'
      BY <2>1, ThereKept DEF SameFiles
    <2>4. Sole(w)'
      <3>1. \A b \in BlocksOf(write[w].addr) : Writing(b)' = Writing(b)
        BY DEF Writing
      <3>2. ASSUME Trusted(w)', NEW b \in BlocksOf(write[w].addr)
            PROVE  Replaying(b)' \subseteq Replaying(b)
        BY <3>2 DEF Replaying
      <3>3. Failed(w)' <=> Failed(w)
        BY DEF Failed
      <3> QED
        BY <2>1, <3>1, <3>2, <3>3, SoleKept
    <2> QED
      BY <2>2, <2>3, <2>4 DEF Mirrored
  <1> QED
    BY <1>1, <1>2 DEF MirrorInv

\* Staging, and an operation of a commit, at other blocks or on the other node.
LEMMA FarWrite ==
    ASSUME TypeOK, NEW m \in Node, NEW k \in Node, NEW a \in Addr,
           NEW addr \in Addr, NEW data \in Content,
           store' = [store EXCEPT ![m] = Write(@, a, data)],
           k = m => BlocksOf(a) \cap BlocksOf(addr) = {}
    PROVE  SameFiles(store[k], store'[k], addr)
  <1>1. store[m] \in Store /\ BlocksOf(addr) \subseteq Block
    BY BlocksOfType DEF TypeOK
  <1>2. k # m => store'[k] = store[k]
    BY DEF TypeOK
  <1>3. store'[m] = Write(store[m], a, data)
    BY DEF TypeOK
  <1> QED
    BY <1>1, <1>2, <1>3, WriteElsewhere DEF SameFiles

LEMMA FarApply ==
    ASSUME TypeOK, NEW m \in Node, NEW k \in Node, NEW a \in Addr,
           NEW addr \in Addr, NEW todo \in Rests(a),
           store' = [store EXCEPT ![m] = Apply(@, Head(todo))],
           k = m => BlocksOf(a) \cap BlocksOf(addr) = {}
    PROVE  SameFiles(store[k], store'[k], addr)
  <1>1. store[m] \in Store /\ BlocksOf(addr) \subseteq Block
    BY BlocksOfType DEF TypeOK
  <1>2. k # m => store'[k] = store[k]
    BY DEF TypeOK
  <1>3. store'[m] = Apply(store[m], Head(todo))
    BY DEF TypeOK
  <1> QED
    BY <1>1, <1>2, <1>3, ApplyElsewhere DEF SameFiles

\* Who holds no lock of w has none of its blocks on its node ...
LEMMA LocksApart ==
    ASSUME NEW n, NEW a1, NEW a2, Locks(n, a1) \cap Locks(n, a2) = {}
    PROVE  BlocksOf(a1) \cap BlocksOf(a2) = {}
  <1> SUFFICES ASSUME NEW b \in BlocksOf(a1), b \in BlocksOf(a2)
               PROVE  FALSE
    OBVIOUS
  <1>1. <<n, b>> \in Locks(n, a1) /\ <<n, b>> \in Locks(n, a2)
    BY DEF Locks
  <1> QED
    BY <1>1

LEMMA ApartHere ==
    ASSUME IInv, NEW w \in Writer, write[w].pc # "idle"
    PROVE  /\ \A a : Unlocked(write[w].node, a) =>
                BlocksOf(a) \cap BlocksOf(write[w].addr) = {}
           /\ \A v \in Writer \ {w} :
                write[v].pc # "idle" /\ write[v].node = write[w].node =>
                  BlocksOf(write[v].addr) \cap BlocksOf(write[w].addr) = {}
           /\ \A r \in rpc : r.st = "commit" /\ r.dest = write[w].node =>
                BlocksOf(r.addr) \cap BlocksOf(write[w].addr) = {}
  <1>1. /\ WriteLocks(w) = Locks(write[w].node, write[w].addr)
        /\ WriteLocks(w) \subseteq locked
    BY HeldBy DEF WriteLocks, IInv, LockInv
  <1>2. \A v \in Writer \ {w} :
          /\ WriteLocks(v) \cap WriteLocks(w) = {}
          /\ write[v].pc # "idle" => WriteLocks(v) = Locks(write[v].node, write[v].addr)
    BY DEF IInv, LockInv, LocksExclusive, WriteLocks
  <1>3. \A r \in rpc : r.st = "commit" =>
          WriteLocks(w) \cap CallLocks(r) = {} /\ CallLocks(r) = Locks(r.dest, r.addr)
    BY DEF IInv, LockInv, LocksExclusive, CallLocks
  <1> QED
    BY <1>1, <1>2, <1>3, FreeLocks, LocksApart

\* ... and who is not w has none on the other, while they are not suspect.
LEMMA ApartThere ==
    ASSUME NEW w \in Writer, Sole(w), Trusted(w)
    PROVE  /\ \A v \in Writer \ {w} : write[v].pc # "idle" =>
                BlocksOf(write[v].addr) \cap BlocksOf(write[w].addr) = {}
           /\ \A x \in Node \X SubThread : worker[x].addr # None =>
                BlocksOf(worker[x].addr) \cap BlocksOf(write[w].addr) = {}
           /\ \A r \in rpc :
                \/ r.caller = w
                \/ r.caller = None /\ Failed(w) /\ write[w].pc # "commit"
                \/ BlocksOf(r.addr) \cap BlocksOf(write[w].addr) = {}
BY DEF Sole, Writing, Replaying

LEMMA ApartAtStart ==
    ASSUME NEW w \in Writer, write[w].pc # "idle", NEW addr, NEW writes,
           NEW replays, w \notin writes, write'[w] = write[w], Trusted(w)',
           Overlap(addr, writes, replays) \subseteq suspect'
    PROVE  BlocksOf(addr) \cap BlocksOf(write[w].addr) = {}
BY DEF Overlap, Writing, Trusted

-----------------------------------------------------------------------------
(* A write arrives.                                                          *)

LEMMA WritingKept ==
    ASSUME NEW v \in Writer, \A u \in Writer \ {v} : write'[u] = write[u], NEW b,
           \/ write'[v].pc = "idle"
           \/ b \notin BlocksOf(write'[v].addr)
           \/ write[v].pc # "idle" /\ write'[v].addr = write[v].addr
    PROVE  Writing(b)' \subseteq Writing(b)
BY DEF Writing

\* A new call fits its caller.
LEMMA SentFits ==
    ASSUME NEW c \in Caller, NEW n \in Node, NEW addr \in Addr, NEW data,
           NEW op \in {"ReplicateBlock", "CommitBlock"},
           c \in Writer =>
             /\ write'[c].addr = addr
             /\ write'[c].pc = "replicate" =>
                  op = "ReplicateBlock" /\ data = write'[c].data
             /\ write'[c].pc = "commitRemote" => op = "CommitBlock",
           c \in Node \X SubThread =>
             /\ worker'[c].addr = addr
             /\ worker'[c].pc = "replicate" => op = "ReplicateBlock"
             /\ worker'[c].pc = "commitRemote" => op = "CommitBlock"
    PROVE  CallFits(Sent(c, n, op, addr, data))'
BY DEF CallFits, Sent

LEMMA ArriveMirrors ==
    ASSUME IInv, MirrorInv, NEW v \in Writer, WriteArrives(v)
    PROVE  MirrorInv'
  <1>1. PICK n \in WriteTo, addr \in Addr, data \in Payload :
          WriteAlone(v, n, addr, data) \/ WriteMirrored(v, n, addr, data)
    BY DEF WriteArrives
  <1>2. TypeOK /\ n \in Node /\ data \in Content
    BY NodeAssumption, PayloadAssumption DEF IInv
  <1>3. /\ write[v].pc = "idle" /\ Unlocked(n, addr) /\ worker' = worker
        /\ \A u \in Writer \ {v} : write'[u] = write[u]
        /\ write'[v].pc # "idle" /\ write'[v].addr = addr
        /\ write'[v].node = n /\ write'[v].data = data
    BY <1>1, <1>2 DEF WriteAlone, WriteMirrored, TypeOK, replica
  <1>4. /\ suspect \subseteq suspect'
        /\ \E replays : Overlap(addr, {}, replays) \subseteq suspect'
    BY <1>1 DEF WriteAlone, WriteMirrored
  <1>5. \A r \in rpc : r.caller # v
    BY <1>3 DEF IInv, CallsMatch
  <1>6. \A r \in rpc' : r \in rpc \/ (r.caller = v /\ r.addr = addr)
    BY <1>1 DEF WriteAlone, WriteMirrored, Sent
  <1>7. \A r \in rpc : CallFits(r)'
    BY <1>3, <1>5 DEF MirrorInv, CallsFit, CallFits
  <1>8. ASSUME NEW w \in Writer \ {v}
        PROVE  Mirrored(w)'
    <2>1. Here(w) /\ Sole(w) /\ There(w) /\ write'[w] = write[w]
      BY <1>3 DEF MirrorInv, Mirrored
    <2>2. ASSUME Trusted(w)'
          PROVE  BlocksOf(addr) \cap BlocksOf(write[w].addr) = {}
      <3>1. write[w].pc # "idle"
        BY <2>1, <2>2 DEF Trusted
      <3>2. w \notin {}
        OBVIOUS
      <3> QED
        BY <1>4, <2>1, <2>2, <3>1, <3>2, ApartAtStart
    <2>3. ASSUME NEW k \in Node, write[w].addr \in Addr,
                 k = n => BlocksOf(addr) \cap BlocksOf(write[w].addr) = {}
          PROVE  SameFiles(store[k], store'[k], write[w].addr)
      <3>1. CASE WriteAlone(v, n, addr, data)
        <4>1. store' = [store EXCEPT ![n] = Write(@, addr, data)]
          BY <3>1 DEF WriteAlone
        <4> QED
          BY <1>2, <2>3, <4>1, FarWrite
      <3>2. CASE WriteMirrored(v, n, addr, data)
        BY <3>2 DEF WriteMirrored, SameFiles
      <3> QED
        BY <1>1, <3>1, <3>2
    <2>4. Here(w)'
      <3>1. write[w].pc # "idle" =>
              /\ write[w].addr \in Addr /\ write[w].node \in Node
              /\ write[w].node = n =>
                   BlocksOf(addr) \cap BlocksOf(write[w].addr) = {}
        BY <1>2, <1>3, BusyType, ApartHere
      <3> QED
        BY <1>2, <2>1, <2>3, <3>1, HereKept
    <2>5. There(w)'
      <3>1. Trusted(w)' => write[w].addr \in Addr /\ Peer(write[w].node) \in Node
        BY <1>2, <2>1, BusyType, PeerType DEF Trusted
      <3>2. \A r \in rpc' : r.caller = w => r \in rpc
        BY <1>6
      <3> QED
        BY <1>2, <1>4, <2>1, <2>2, <2>3, <3>1, <3>2, ThereKept
    <2>6. Sole(w)'
      <3>1. ASSUME Trusted(w)', NEW b \in BlocksOf(write[w].addr)
            PROVE  /\ Writing(b)' \subseteq Writing(b)
                   /\ Replaying(b)' \subseteq Replaying(b)
                   /\ \A r \in rpc' : b \in BlocksOf(r.addr) => r \in rpc
        <4>1. b \notin BlocksOf(addr)
          BY <2>2, <3>1
        <4>2. Writing(b)' \subseteq Writing(b)
          BY <1>3, <4>1, WritingKept
        <4> QED
          BY <1>3, <1>6, <4>1, <4>2 DEF Replaying
      <3>2. Failed(w) => Failed(w)'
        BY <1>6 DEF Failed
      <3> QED
        BY <1>4, <2>1, <3>1, <3>2, SoleKept
    <2> QED
      BY <2>4, <2>5, <2>6 DEF Mirrored
  <1>9. CASE WriteAlone(v, n, addr, data)
    <2>1. /\ write'[v].pc = "commitAlone" /\ write'[v].todo = Commit(addr)
          /\ rpc' = rpc /\ store'[n] = Write(store[n], addr, data)
      BY <1>2, <1>9 DEF WriteAlone, TypeOK
    <2>2. store[n] \in Store
      BY <1>2 DEF TypeOK
    <2>3. Midway(store'[n], addr, data, Commit(addr))
      BY <1>2, <2>1, <2>2, StagedByWrite, StagedMidway
    <2>4. Mirrored(v)'
      BY <1>3, <2>1, <2>3 DEF Mirrored, Here, Sole, There, Trusted
    <2> QED
      BY <1>7, <1>8, <2>1, <2>4 DEF MirrorInv, CallsFit
  <1>10. CASE WriteMirrored(v, n, addr, data)
    <2> DEFINE q == Sent(v, n, "ReplicateBlock", addr, data)
    <2>1. /\ write'[v].pc = "replicate" /\ rpc' = rpc \cup {q}
          /\ Overlap(addr, {}, {}) \subseteq suspect'
      BY <1>2, <1>10 DEF WriteMirrored, TypeOK
    <2>2. q.caller = v /\ q.st = "sent"
      BY DEF Sent
    <2>3. CallFits(q)'
      BY <1>2, <1>3, <2>1, SentFits, CallerCases
    <2> HIDE DEF q
    <2>4. Here(v)' /\ There(v)'
      BY <1>5, <2>1, <2>2 DEF Here, There
    <2>5. Sole(v)'
      <3> SUFFICES ASSUME Trusted(v)', NEW b \in BlocksOf(addr)
                   PROVE  /\ Writing(b)' \subseteq {v}
                          /\ Replaying(b)' = {}
                          /\ \A r \in rpc' : b \in BlocksOf(r.addr) => r.caller = v
        BY <1>3 DEF Sole
      <3>1. b \notin Overlap(addr, {}, {})
        BY <1>3, <2>1 DEF Trusted
      <3>2. Writing(b) = {} /\ Replaying(b) = {} /\ Abandoned(b) = {}
        BY <3>1 DEF Overlap
      <3>3. Writing(b)' \subseteq {v} /\ Replaying(b)' = {}
        BY <1>3, <3>2 DEF Writing, Replaying
      <3>4. ASSUME NEW r \in rpc, b \in BlocksOf(r.addr)
            PROVE  FALSE
        <4>1. r.caller \in Writer \cup (Node \X SubThread) \cup {None}
          BY <1>2 DEF TypeOK, Call, Caller
        <4>2. r.caller # None
          BY <3>2, <3>4 DEF Abandoned
        <4>3. CASE r.caller \in Writer
          <5>1. r.addr = write[r.caller].addr /\ write[r.caller].pc # "idle"
            BY <4>3 DEF MirrorInv, CallsFit, CallFits, IInv, CallsMatch
          <5> QED
            BY <3>2, <3>4, <4>3, <5>1 DEF Writing
        <4>4. CASE r.caller \in Node \X SubThread
          <5>1. /\ r.addr = worker[r.caller].addr
                /\ worker[r.caller].pc \in {"replicate", "commitRemote"}
            BY <4>4 DEF MirrorInv, CallsFit, CallFits, IInv, CallsMatch
          <5>2. worker[r.caller].addr \in Addr
            BY <1>2, <4>4, <5>1, BusyType
          <5> QED
            BY <3>2, <3>4, <4>4, <5>1, <5>2, NoneAssumption DEF Replaying
        <4> QED
          BY <4>1, <4>2, <4>3, <4>4
      <3> QED
        BY <2>1, <2>2, <3>3, <3>4
    <2> QED
      BY <1>7, <1>8, <2>1, <2>3, <2>4, <2>5 DEF MirrorInv, CallsFit, Mirrored
  <1> QED
    BY <1>1, <1>9, <1>10

-----------------------------------------------------------------------------
(* A write goes on.                                                          *)

\* What every step of v's handler is like.
LEMMA StepEffect ==
    ASSUME IInv, MirrorInv, NEW v \in Writer, WriteStep(v)
    PROVE  LET n    == write[v].node
               addr == write[v].addr
               data == write[v].data
           IN  /\ write[v].pc # "idle" /\ n \in Node /\ addr \in Addr
               /\ data \in Content
               /\ worker' = worker /\ suspect \subseteq suspect'
               /\ \A u \in Writer \ {v} : write'[u] = write[u]
               /\ \/ write'[v].pc = "idle"
                  \/ /\ write'[v].node = n /\ write'[v].addr = addr
                     /\ write'[v].data = data
               /\ \A r \in rpc : r.caller # v => r \in rpc'
               /\ \A r \in rpc' : r \in rpc \/ (r.caller = v /\ r.addr = addr)
               /\ \/ store' = store
                  \/ store' = [store EXCEPT ![n] = Write(@, addr, data)]
                  \/ \E todo \in Rests(addr) :
                       store' = [store EXCEPT ![n] = Apply(@, Head(todo))]
  <1> DEFINE n    == write[v].node
             addr == write[v].addr
             data == write[v].data
  <1>1. TypeOK /\ write \in [Writer -> WriteState]
    BY DEF IInv, TypeOK
  <1>2. write[v].pc # "idle"
    BY DEF WriteStep, WriteReplicated, WriteRejected, WriteCommitFailed,
           WriteCommitted, WriteCommitOp, WriteValid, WriteAloneCommitted,
           WriteEnqueue
  <1>3. /\ n \in Node /\ addr \in Addr /\ data \in Content
        /\ write[v] \in [pc : {"replicate", "commitRemote", "commit",
                               "commitAlone", "enqueue"},
                         node : Node, addr : Addr, data : Payload,
                         todo : Seq(FileOp)]
    BY <1>1, <1>2, BusyType
  <1>4. /\ worker' = worker /\ suspect \subseteq suspect'
        /\ \A u \in Writer \ {v} : write'[u] = write[u]
    BY <1>1 DEF WriteStep, WriteReplicated, WriteRejected, WriteCommitFailed,
           WriteCommitted, WriteCommitOp, WriteValid, WriteAloneCommitted,
           WriteEnqueue, replica
  <1>5. \/ write'[v].pc = "idle"
        \/ /\ write'[v].node = n /\ write'[v].addr = addr
           /\ write'[v].data = data
    BY <1>1, <1>3 DEF WriteStep, WriteReplicated, WriteRejected,
           WriteCommitFailed, WriteCommitted, WriteCommitOp, WriteValid,
           WriteAloneCommitted, WriteEnqueue, NoWrite
  <1>6. /\ \A r \in rpc : r.caller # v => r \in rpc'
        /\ \A r \in rpc' : r \in rpc \/ (r.caller = v /\ r.addr = addr)
    BY DEF WriteStep, WriteReplicated, WriteRejected, WriteCommitFailed,
           WriteCommitted, WriteCommitOp, WriteValid, WriteAloneCommitted,
           WriteEnqueue, Settled, Sent
  <1>7. write[v].pc \in {"commit", "commitAlone"} => write[v].todo \in Rests(addr)
    BY DEF MirrorInv, Mirrored, Here, Midway
  <1>8. \/ store' = store
        \/ store' = [store EXCEPT ![n] = Write(@, addr, data)]
        \/ \E todo \in Rests(addr) :
             store' = [store EXCEPT ![n] = Apply(@, Head(todo))]
    BY <1>7 DEF WriteStep, WriteReplicated, WriteRejected, WriteCommitFailed,
           WriteCommitted, WriteCommitOp, WriteValid, WriteAloneCommitted,
           WriteEnqueue, server
  <1> QED
    BY <1>2, <1>3, <1>4, <1>5, <1>6, <1>8

LEMMA StepOthers ==
    ASSUME IInv, MirrorInv, NEW v \in Writer, WriteStep(v),
           NEW w \in Writer \ {v}
    PROVE  Mirrored(w)'
  <1> DEFINE n    == write[v].node
             addr == write[v].addr
             data == write[v].data
  <1>1. /\ write[v].pc # "idle" /\ n \in Node /\ addr \in Addr
        /\ data \in Content
        /\ worker' = worker /\ suspect \subseteq suspect'
        /\ \A u \in Writer \ {v} : write'[u] = write[u]
        /\ write'[v].pc = "idle" \/ write'[v].addr = addr
        /\ \A r \in rpc' : r \in rpc \/ (r.caller = v /\ r.addr = addr)
        /\ \/ store' = store
           \/ store' = [store EXCEPT ![n] = Write(@, addr, data)]
           \/ \E todo \in Rests(addr) :
                store' = [store EXCEPT ![n] = Apply(@, Head(todo))]
    BY StepEffect
  <1>2. /\ Here(w) /\ Sole(w) /\ There(w) /\ write'[w] = write[w] /\ TypeOK
        /\ v \in Writer \ {w}
    BY <1>1 DEF MirrorInv, Mirrored, IInv
  <1> HIDE DEF n, addr, data
  <1>3. ASSUME NEW k \in Node, write[w].addr \in Addr,
               k = n => BlocksOf(addr) \cap BlocksOf(write[w].addr) = {}
        PROVE  SameFiles(store[k], store'[k], write[w].addr)
    <2>1. CASE store' = store
      BY <2>1 DEF SameFiles
    <2>2. CASE store' = [store EXCEPT ![n] = Write(@, addr, data)]
      BY <1>1, <1>2, <1>3, <2>2, FarWrite
    <2>3. CASE \E todo \in Rests(addr) :
                 store' = [store EXCEPT ![n] = Apply(@, Head(todo))]
      BY <1>1, <1>2, <1>3, <2>3, FarApply
    <2> QED
      BY <1>1, <2>1, <2>2, <2>3
  <1>4. Here(w)'
    <2>1. write[w].pc # "idle" =>
            /\ write[w].addr \in Addr /\ write[w].node \in Node
            /\ write[w].node = n =>
                 BlocksOf(addr) \cap BlocksOf(write[w].addr) = {}
      BY <1>1, <1>2, BusyType, ApartHere DEF n, addr
    <2> QED
      BY <1>2, <1>3, <2>1, HereKept
  <1>5. ASSUME Trusted(w)'
        PROVE  BlocksOf(addr) \cap BlocksOf(write[w].addr) = {}
    BY <1>1, <1>2, <1>5, TrustedBefore, ApartThere DEF addr
  <1>6. There(w)'
    <2>1. Trusted(w)' => write[w].addr \in Addr /\ Peer(write[w].node) \in Node
      BY <1>2, BusyType, PeerType DEF Trusted
    <2>2. \A r \in rpc' : r.caller = w => r \in rpc
      BY <1>1
    <2> QED
      BY <1>1, <1>2, <1>3, <1>5, <2>1, <2>2, ThereKept
  <1>7. Sole(w)'
    <2>1. ASSUME Trusted(w)', NEW b \in BlocksOf(write[w].addr)
          PROVE  /\ Writing(b)' \subseteq Writing(b)
                 /\ Replaying(b)' \subseteq Replaying(b)
                 /\ \A r \in rpc' : b \in BlocksOf(r.addr) => r \in rpc
      <3>1. b \notin BlocksOf(addr)
        BY <1>5, <2>1
      <3>2. Writing(b)' \subseteq Writing(b)
        BY <1>1, <3>1, WritingKept
      <3> QED
        BY <1>1, <3>1, <3>2 DEF Replaying
    <2>2. Failed(w) => Failed(w)'
      BY <1>1 DEF Failed
    <2> QED
      BY <1>1, <1>2, <2>1, <2>2, SoleKept
  <1> QED
    BY <1>4, <1>6, <1>7 DEF Mirrored

LEMMA StepOwn ==
    ASSUME IInv, MirrorInv, NEW v \in Writer, WriteStep(v)
    PROVE  Mirrored(v)'
  <1> DEFINE n    == write[v].node
             m    == Peer(n)
             addr == write[v].addr
             data == write[v].data
             todo == write[v].todo
  <1>1. /\ TypeOK /\ write \in [Writer -> WriteState]
        /\ write[v].pc # "idle" /\ n \in Node /\ addr \in Addr
        /\ data \in Content
        /\ worker' = worker /\ suspect \subseteq suspect'
        /\ \A u \in Writer \ {v} : write'[u] = write[u]
        /\ \/ write'[v].pc = "idle"
           \/ /\ write'[v].node = n /\ write'[v].addr = addr
              /\ write'[v].data = data
    BY StepEffect DEF IInv, TypeOK
  <1>2. /\ store[n] \in Store /\ m \in Node /\ m # n
        /\ write[v] \in [pc : {"replicate", "commitRemote", "commit",
                               "commitAlone", "enqueue"},
                         node : Node, addr : Addr, data : Payload,
                         todo : Seq(FileOp)]
    BY <1>1, BusyType, PeerType DEF TypeOK
  <1>3. Here(v) /\ Sole(v) /\ There(v)
    BY DEF MirrorInv, Mirrored
  <1>4. CASE write'[v].pc = "idle"
    BY <1>4 DEF Mirrored, Here, Sole, There, Trusted
  \* v's call has been answered: nobody else touches its blocks.
  <1>5. ASSUME Acked(v), Trusted(v),
               NEW r \in Settled(v), NEW b \in BlocksOf(addr), b \in BlocksOf(r.addr)
        PROVE  FALSE
    BY <1>3, <1>5 DEF Sole, Acked, Settled, Failed
  <1>6. ASSUME NEW b, write'[v].pc # "idle"
        PROVE  Writing(b)' \subseteq Writing(b) /\ Replaying(b)' = Replaying(b)
    BY <1>1, <1>6, WritingKept DEF Replaying
  <1>7. CASE WriteReplicated(v)
    <2> DEFINE q == Sent(v, n, "CommitBlock", addr, None)
    <2>1. /\ write[v].pc = "replicate" /\ write'[v].pc = "commitRemote"
          /\ Acked(v) /\ rpc' = Settled(v) \cup {q}
          /\ store' = [store EXCEPT ![n] = Write(@, addr, data)]
          /\ suspect' = suspect
      BY <1>1, <1>7 DEF WriteReplicated
    <2>2. q.caller = v /\ q.st = "sent"
      BY DEF Sent
    <2> HIDE DEF q
    <2>3. store'[n] = Write(store[n], addr, data) /\ store'[m] = store[m]
      BY <1>1, <1>2, <2>1 DEF TypeOK
    <2>4. /\ write'[v].node = n /\ write'[v].addr = addr /\ write'[v].data = data
      BY <1>1, <2>1
    <2> HIDE DEF n, m, addr, data
    <2>5. Here(v)'
      BY <1>1, <1>2, <2>1, <2>3, <2>4, StagedByWrite DEF Here
    <2>6. Trusted(v)' => Trusted(v)
      BY <2>1, <2>4 DEF Trusted, addr
    <2>7. There(v)'
      <3> SUFFICES ASSUME Trusted(v)' PROVE Staged(store[m], addr, data)
        BY <2>1, <2>2, <2>3, <2>4 DEF There, Settled, m
      <3>1. PICK r \in rpc : r.caller = v /\ r.st = "done"
        BY <2>1 DEF Acked
      <3> QED
        BY <1>3, <2>1, <2>6, <3>1 DEF There, n, m, addr, data
    <2>8. Sole(v)'
      <3> SUFFICES ASSUME Trusted(v)', NEW b \in BlocksOf(addr)
                   PROVE  /\ Writing(b)' \subseteq {v} /\ Replaying(b)' = {}
                          /\ \A r \in rpc' : b \in BlocksOf(r.addr) => r.caller = v
        BY <2>4 DEF Sole
      <3>1. Writing(b) \subseteq {v} /\ Replaying(b) = {}
        BY <1>3, <2>6 DEF Sole, addr
      <3> QED
        BY <1>5, <1>6, <2>1, <2>2, <2>6, <3>1 DEF addr
    <2> QED
      BY <2>5, <2>7, <2>8 DEF Mirrored
  <1>8. CASE WriteCommitted(v)
    <2>1. /\ write[v].pc = "commitRemote" /\ write'[v].pc = "commit"
          /\ write'[v].todo = Commit(addr)
          /\ Acked(v) /\ rpc' = Settled(v) /\ store' = store
          /\ suspect' = suspect
      BY <1>1, <1>2, <1>8 DEF WriteCommitted, server
    <2>2. /\ write'[v].node = n /\ write'[v].addr = addr /\ write'[v].data = data
      BY <1>1, <2>1
    <2> HIDE DEF n, m, addr, data
    <2>3. Here(v)'
      BY <1>1, <1>3, <2>1, <2>2, StagedMidway DEF Here, n, addr, data
    <2>4. Trusted(v)' => Trusted(v)
      BY <2>1, <2>2 DEF Trusted, addr
    <2>5. There(v)'
      <3> SUFFICES ASSUME Trusted(v)' PROVE Landed(store[m], addr, data)
        BY <2>1, <2>2 DEF There, Settled, m
      <3>1. PICK r \in rpc : r.caller = v /\ r.st = "done"
        BY <2>1 DEF Acked
      <3>2. write[v].pc # "replicate"
        BY <2>1
      <3> QED
        BY <1>3, <2>1, <2>4, <3>1, <3>2 DEF There, n, m, addr, data
    <2>6. Sole(v)'
      <3> SUFFICES ASSUME Trusted(v)', NEW b \in BlocksOf(addr)
                   PROVE  /\ Writing(b)' \subseteq {v} /\ Replaying(b)' = {}
                          /\ \A r \in rpc' : b \notin BlocksOf(r.addr)
        BY <2>2 DEF Sole
      <3>1. Writing(b) \subseteq {v} /\ Replaying(b) = {}
        BY <1>3, <2>4 DEF Sole, addr
      <3> QED
        BY <1>5, <1>6, <2>1, <2>4, <3>1 DEF addr
    <2> QED
      BY <2>3, <2>5, <2>6 DEF Mirrored
  <1>9. CASE WriteCommitOp(v)
    <2>1. /\ write[v].pc \in {"commit", "commitAlone"}
          /\ write'[v].pc = write[v].pc /\ write'[v].todo = Tail(todo)
          /\ Len(todo) # 1 /\ rpc' = rpc /\ suspect' = suspect
          /\ store' = [store EXCEPT ![n] = Apply(@, Head(todo))]
      BY <1>1, <1>2, <1>9 DEF WriteCommitOp
    <2>2. store'[n] = Apply(store[n], Head(todo)) /\ store'[m] = store[m]
      BY <1>1, <1>2, <2>1 DEF TypeOK
    <2>3. /\ write'[v].node = n /\ write'[v].addr = addr /\ write'[v].data = data
          /\ write'[v].pc # "idle"
      BY <1>1, <2>1
    <2>4. Midway(store[n], addr, data, todo)
      BY <1>3, <2>1 DEF Here
    <2> HIDE DEF n, m, addr, data, todo
    <2>5. Midway(store'[n], addr, data, Tail(todo))
      BY <1>1, <1>2, <2>1, <2>2, <2>4, MidwayStep
    <2>6. Here(v)'
      BY <2>1, <2>3, <2>5 DEF Here
    <2>7. \A r \in rpc : r.caller # v
      BY <2>1 DEF IInv, CallsMatch
    <2>8. Trusted(v)' => Trusted(v)
      BY <2>1, <2>3 DEF Trusted, addr
    <2>9. There(v)'
      BY <1>3, <2>1, <2>2, <2>3, <2>7, <2>8 DEF There, n, m, addr, data
    <2>10. Sole(v)'
      <3>1. Failed(v)' <=> Failed(v)
        BY <2>1 DEF Failed
      <3> QED
        BY <1>3, <1>6, <2>1, <2>3, <2>8, <3>1 DEF Sole, addr
    <2> QED
      BY <2>6, <2>9, <2>10 DEF Mirrored
  <1>10. CASE WriteAloneCommitted(v)
    <2>1. /\ write[v].pc = "commitAlone" /\ write'[v].pc = "enqueue"
          /\ Len(todo) = 1
          /\ store' = [store EXCEPT ![n] = Apply(@, Head(todo))]
      BY <1>1, <1>2, <1>10 DEF WriteAloneCommitted
    <2>2. store'[n] = Apply(store[n], Head(todo))
      BY <1>1, <1>2, <2>1 DEF TypeOK
    <2>3. /\ write'[v].node = n /\ write'[v].addr = addr /\ write'[v].data = data
      BY <1>1, <2>1
    <2>4. Midway(store[n], addr, data, todo)
      BY <1>3, <2>1 DEF Here
    <2> HIDE DEF n, m, addr, data, todo
    <2>5. Landed(store'[n], addr, data)
      BY <1>1, <1>2, <2>1, <2>2, <2>4, MidwayStep
    <2>6. Here(v)' /\ Sole(v)' /\ There(v)'
      BY <2>1, <2>3, <2>5 DEF Here, Sole, There, Trusted
    <2> QED
      BY <2>6 DEF Mirrored
  <1>11. CASE \/ WriteRejected(v) \/ WriteCommitFailed(v) \/ WriteValid(v)
              \/ WriteEnqueue(v)
    <2>1. write'[v].pc = "idle"
      BY <1>1, <1>11 DEF WriteRejected, WriteCommitFailed, WriteValid,
                         WriteEnqueue, NoWrite
    <2> QED
      BY <1>4, <2>1
  <1> QED
    BY <1>7, <1>8, <1>9, <1>10, <1>11 DEF WriteStep

LEMMA StepMirrors ==
    ASSUME IInv, MirrorInv, NEW v \in Writer, WriteStep(v)
    PROVE  MirrorInv'
  <1>1. /\ TypeOK /\ write \in [Writer -> WriteState]
        /\ write[v].node \in Node /\ write[v].addr \in Addr
        /\ worker' = worker
        /\ \A u \in Writer \ {v} : write'[u] = write[u]
        /\ write[v].pc # "idle"
    BY StepEffect DEF IInv, TypeOK
  <1>2. CallsFit'
    <2>1. \A r \in rpc : r.caller # v => CallFits(r)'
      BY <1>1 DEF MirrorInv, CallsFit, CallFits
    <2>2. CASE WriteReplicated(v)
      <3> PICK n \in Node, addr \in Addr :
            n = write[v].node /\ addr = write[v].addr
        BY <1>1
      <3> DEFINE q == Sent(v, n, "CommitBlock", addr, None)
      <3>1. /\ rpc' = Settled(v) \cup {q} /\ write'[v].pc = "commitRemote"
            /\ write'[v].addr = addr
        <4>1. write[v] \in [pc : {"replicate", "commitRemote", "commit",
                                  "commitAlone", "enqueue"},
                            node : Node, addr : Addr, data : Payload,
                            todo : Seq(FileOp)]
          BY <1>1, BusyType
        <4> QED
          BY <1>1, <2>2, <4>1 DEF WriteReplicated
      <3>2. CallFits(q)'
        BY <1>1, <3>1, SentFits, CallerCases
      <3> HIDE DEF q
      <3> QED
        BY <2>1, <3>1, <3>2 DEF CallsFit, Settled
    <2>3. CASE ~WriteReplicated(v)
      <3>1. \A r \in rpc' : r \in rpc /\ r.caller # v
        BY <2>3 DEF WriteStep, WriteRejected, WriteCommitFailed,
               WriteCommitted, WriteCommitOp, WriteValid, WriteAloneCommitted,
               WriteEnqueue, Settled, Failed, IInv, CallsMatch
      <3> QED
        BY <2>1, <3>1 DEF CallsFit
    <2> QED
      BY <2>2, <2>3
  <1> QED
    BY <1>2, StepOwn, StepOthers DEF MirrorInv

-----------------------------------------------------------------------------
(* A call is served, or fails.                                               *)

\* A commit replies after its last operation.
LEMMA LastOp ==
    ASSUME NEW r \in Call, ServeCommitOp(r)
    PROVE  /\ r.st = "commit"
           /\ \/ /\ Len(r.todo) # 1
                 /\ rpc' = (rpc \ {r}) \cup {[r EXCEPT !.todo = Tail(@)]}
              \/ Len(r.todo) = 1 /\ rpc' = Reply(r)
  <1>1. r.todo \in Seq(FileOp)
    BY CallStepType
  <1>2. Len(r.todo) \in Nat
    BY <1>1
  <1>3. r.st = "commit"
    BY DEF ServeCommitOp
  <1>4. \/ Len(r.todo) > 1 /\ rpc' = (rpc \ {r}) \cup {[r EXCEPT !.todo = Tail(@)]}
        \/ Len(r.todo) = 1 /\ rpc' = Reply(r)
    BY ZenonT(30) DEF ServeCommitOp
  <1>5. \A k \in Nat : k > 1 => k # 1
    OBVIOUS
  <1> QED
    BY <1>2, <1>3, <1>4, <1>5

\* What becomes of the call.
LEMMA ServedCall ==
    ASSUME TypeOK, NEW r \in rpc, Serve(r) \/ Unreachable(r)
    PROVE  \A q \in rpc' \ rpc :
             /\ q.caller = r.caller /\ q.addr = r.addr /\ q.op = r.op
             /\ q.data = r.data
             /\ \/ q.st = "done"
                \/ /\ q.st = "commit" /\ q.todo = r.todo
                   /\ r.st = "sent" /\ r.op = "CommitBlock"
                \/ /\ q.st = "commit" /\ q.todo = Tail(r.todo)
                   /\ r.st = "commit" /\ Len(r.todo) # 1
  <1> DEFINE answered == [r EXCEPT !.st = "done", !.todo = <<>>]
             begun    == [r EXCEPT !.st = "commit"]
             next     == [r EXCEPT !.todo = Tail(@)]
  <1>1. r \in Call
    BY DEF TypeOK
  <1>2. \A q \in {answered, begun, next} :
          /\ q.caller = r.caller /\ q.addr = r.addr /\ q.op = r.op
          /\ q.data = r.data
    BY <1>1 DEF Call
  <1>3. /\ answered.st = "done" /\ begun.st = "commit" /\ next.st = r.st
        /\ begun.todo = r.todo /\ next.todo = Tail(r.todo)
    BY <1>1 DEF Call
  <1> HIDE DEF answered, begun, next
  <1>4. \A q \in Reply(r) \ rpc : q = answered /\ r.caller # None
    BY DEF Reply, answered
  <1>5. CASE ServeReplicate(r)
    BY <1>2, <1>3, <1>4, <1>5 DEF ServeReplicate
  <1>6. CASE ServeCommit(r)
    BY <1>2, <1>3, <1>6 DEF ServeCommit, begun
  <1>7. CASE ServeCommitOp(r)
    <2>1. r.st = "commit" /\ (rpc' = Reply(r) \/ (/\ Len(r.todo) # 1
                                                 /\ rpc' = (rpc \ {r}) \cup {next}))
      BY <1>1, <1>7, LastOp DEF next
    <2> QED
      BY <1>2, <1>3, <1>4, <2>1
  <1>8. CASE Unreachable(r)
    BY <1>8 DEF Unreachable
  <1> QED
    BY <1>5, <1>6, <1>7, <1>8 DEF Serve

LEMMA ServeEffect ==
    ASSUME TypeOK, CallsFit, NEW r \in rpc, Serve(r) \/ Unreachable(r)
    PROVE  /\ r.dest \in Node /\ r.addr \in Addr
           /\ write' = write /\ worker' = worker /\ suspect' = suspect
           /\ \A q \in rpc : q # r => q \in rpc'
           /\ \/ store' = store
              \/ /\ Unlocked(r.dest, r.addr) /\ r.data \in Content
                 /\ store' = [store EXCEPT ![r.dest] = Write(@, r.addr, r.data)]
              \/ /\ r.st = "commit" /\ r.todo \in Rests(r.addr)
                 /\ store' = [store EXCEPT ![r.dest] = Apply(@, Head(r.todo))]
  <1>1. /\ r.dest \in Node /\ r.addr \in Addr
        /\ r.op = "ReplicateBlock" => r.data \in Content
    BY CallStepType DEF TypeOK
  <1>2. r.st = "commit" => r.todo \in Rests(r.addr)
    BY DEF CallsFit, CallFits
  <1>3. /\ write' = write /\ worker' = worker /\ suspect' = suspect
        /\ \A q \in rpc : q # r => q \in rpc'
    BY DEF Serve, ServeReplicate, ServeCommit, ServeCommitOp, Unreachable,
           replica, Reply
  <1> QED
    BY <1>1, <1>2, <1>3 DEF Serve, ServeReplicate, ServeCommit, ServeCommitOp,
                            Unreachable, server

\* The call of a write whose blocks are not suspect.
LEMMA ServeOwn ==
    ASSUME IInv, MirrorInv, NEW r \in rpc, Serve(r) \/ Unreachable(r),
           r.caller \in Writer
    PROVE  There(r.caller)'
  <1> DEFINE w    == r.caller
             n    == write[w].node
             m    == Peer(n)
             addr == write[w].addr
             data == write[w].data
  <1> SUFFICES ASSUME Trusted(w)' PROVE There(w)'
    BY DEF There
  <1>1. /\ TypeOK /\ CallsFit /\ There(w)
        /\ write' = write /\ suspect' = suspect
    BY ServeEffect DEF IInv, MirrorInv, Mirrored
  <1>2. /\ Trusted(w)
        /\ write[w].pc \in {"replicate", "commitRemote"} /\ r.dest = m
        /\ r.addr = addr
        /\ write[w].pc = "replicate" => r.op = "ReplicateBlock" /\ r.data = data
        /\ write[w].pc = "commitRemote" => r.op = "CommitBlock"
        /\ r.st = "commit" => r.op = "CommitBlock"
        /\ r.op = "CommitBlock" /\ r.st = "sent" => r.todo = Commit(addr)
    BY <1>1, CallStepType
       DEF Trusted, IInv, CallsMatch, CallsFit, CallFits, TypeOK
  <1>3. /\ n \in Node /\ m \in Node /\ addr \in Addr /\ data \in Content
        /\ store[m] \in Store
    BY <1>1, <1>2, BusyType, PeerType DEF TypeOK
  <1>4. ASSUME NEW q \in rpc', q.caller = w
        PROVE  q \notin rpc \/ q = r
    BY <1>4, CallerCases DEF IInv, CallsMatch
  <1>5. /\ r.st = "sent" /\ write[w].pc = "commitRemote" =>
             Staged(store[m], addr, data)
        /\ r.st = "commit" => Midway(store[m], addr, data, r.todo)
    BY <1>1, <1>2 DEF There
  <1>6. CASE ServeReplicate(r)
    <2>1. /\ write[w].pc = "replicate" /\ r \notin rpc'
          /\ store' = [store EXCEPT ![m] = Write(@, addr, data)]
      <3>1. r.op = "ReplicateBlock" /\ r.st = "sent" /\ rpc' = Reply(r)
        BY <1>6 DEF ServeReplicate
      <3>2. r.op # "CommitBlock"
        BY <3>1
      <3>3. write[w].pc = "replicate"
        BY <1>2, <3>2
      <3>4. [r EXCEPT !.st = "done", !.todo = <<>>].st = "done"
        BY <1>1 DEF TypeOK, Call
      <3>5. r \notin rpc'
        BY <3>1, <3>4 DEF Reply
      <3> QED
        BY <1>2, <1>6, <3>3, <3>5 DEF ServeReplicate
    <2>2. Staged(store'[m], addr, data)
      BY <1>1, <1>3, <2>1, StagedByWrite DEF TypeOK
    <2>3. \A q \in rpc' : q.caller = w => q.st # "commit"
      BY <1>1, <1>2, <1>4, <1>6, <2>1, ServedCall DEF ServeReplicate
    <2> QED
      BY <1>1, <2>1, <2>2, <2>3 DEF There
  <1>7. CASE ServeCommit(r)
    <2>1. /\ write[w].pc = "commitRemote" /\ r.st = "sent" /\ store' = store
          /\ r.todo = Commit(addr)
          /\ \A q \in rpc' : q.caller = w => q.st = "commit" /\ q.todo = r.todo
      <3>1. r.op = "CommitBlock" /\ r.st = "sent" /\ store' = store
            /\ rpc' = (rpc \ {r}) \cup {[r EXCEPT !.st = "commit"]}
        BY <1>7 DEF ServeCommit
      <3>2. r.op # "ReplicateBlock"
        BY <3>1
      <3>3. /\ [r EXCEPT !.st = "commit"].st = "commit"
            /\ [r EXCEPT !.st = "commit"].todo = r.todo
        BY <1>1 DEF TypeOK, Call
      <3> QED
        BY <1>2, <1>4, <3>1, <3>2, <3>3
    <2>2. Midway(store[m], addr, data, Commit(addr))
      BY <1>3, <1>5, <2>1, StagedMidway
    <2> QED
      BY <1>1, <2>1, <2>2 DEF There
  <1>8. CASE ServeCommitOp(r)
    <2>1. /\ r.st = "commit" /\ write[w].pc = "commitRemote"
          /\ store' = [store EXCEPT ![m] = Apply(@, Head(r.todo))]
      BY <1>2, <1>8 DEF ServeCommitOp
    <2>2. store'[m] = Apply(store[m], Head(r.todo))
      BY <1>1, <1>3, <2>1 DEF TypeOK
    <2>3. IF Len(r.todo) = 1 THEN Landed(store'[m], addr, data)
                             ELSE Midway(store'[m], addr, data, Tail(r.todo))
      BY <1>3, <1>5, <2>1, <2>2, MidwayStep
    <2>4. \A q \in rpc' : q.caller = w =>
            \/ q.st = "done" /\ Len(r.todo) = 1
            \/ q.st = "commit" /\ q.todo = Tail(r.todo) /\ Len(r.todo) # 1
      <3>1. /\ [r EXCEPT !.todo = Tail(@)].todo = Tail(r.todo)
            /\ [r EXCEPT !.todo = Tail(@)].st = r.st
            /\ [r EXCEPT !.st = "done", !.todo = <<>>].st = "done"
        BY <1>1 DEF TypeOK, Call
      <3>2. \/ Len(r.todo) # 1 /\ rpc' = (rpc \ {r}) \cup {[r EXCEPT !.todo = Tail(@)]}
            \/ Len(r.todo) = 1 /\ rpc' = Reply(r)
        BY <1>1, <1>8, LastOp DEF TypeOK
      <3>3. \A q \in rpc \ {r} : q.caller # w
        BY CallerCases DEF IInv, CallsMatch
      <3> QED
        BY <2>1, <3>1, <3>2, <3>3 DEF Reply
    <2> QED
      BY <1>1, <2>1, <2>3, <2>4 DEF There
  <1>9. CASE Unreachable(r)
    <2>1. \A q \in rpc' : q.caller # w
      BY <1>4, <1>9 DEF Unreachable
    <2> QED
      BY <1>1, <1>2, <2>1 DEF There
  <1> QED
    BY <1>6, <1>7, <1>8, <1>9 DEF Serve

LEMMA ServeMirrors ==
    ASSUME IInv, MirrorInv, NEW r \in rpc, Serve(r) \/ Unreachable(r)
    PROVE  MirrorInv'
  <1>1. /\ TypeOK /\ CallsFit
        /\ r.dest \in Node /\ r.addr \in Addr
        /\ write' = write /\ worker' = worker /\ suspect' = suspect
        /\ \/ store' = store
           \/ /\ Unlocked(r.dest, r.addr) /\ r.data \in Content
              /\ store' = [store EXCEPT ![r.dest] = Write(@, r.addr, r.data)]
           \/ /\ r.st = "commit" /\ r.todo \in Rests(r.addr)
              /\ store' = [store EXCEPT ![r.dest] = Apply(@, Head(r.todo))]
    BY ServeEffect DEF IInv, MirrorInv
  <1>2. \A q \in rpc' \ rpc : q.caller = r.caller /\ q.addr = r.addr
    BY <1>1, ServedCall
  <1>3. CallsFit'
    <2>1. \A q \in rpc : CallFits(q)'
      BY <1>1 DEF CallsFit, CallFits
    <2>2. ASSUME NEW q \in rpc' \ rpc
          PROVE  CallFits(q)'
      <3>1. /\ q.caller = r.caller /\ q.addr = r.addr /\ q.op = r.op
            /\ q.data = r.data
            /\ \/ q.st = "done"
               \/ /\ q.st = "commit" /\ q.todo = r.todo
                  /\ r.st = "sent" /\ r.op = "CommitBlock"
               \/ /\ q.st = "commit" /\ q.todo = Tail(r.todo)
                  /\ r.st = "commit" /\ Len(r.todo) # 1
        BY <1>1, ServedCall
      <3>2. /\ r.st = "commit" => r.todo \in Rests(r.addr)
            /\ r.op = "CommitBlock" /\ r.st = "sent" => r.todo = Commit(r.addr)
        BY <1>1 DEF CallsFit, CallFits
      <3>3. q.st = "commit" => q.todo \in Rests(q.addr)
        BY <1>1, <3>1, <3>2, CommitRest, RestStep
      <3>4. q.st # "sent"
        BY <3>1
      <3> QED
        BY <1>1, <3>1, <3>3, <3>4 DEF CallsFit, CallFits
    <2> QED
      BY <2>1, <2>2 DEF CallsFit
  <1>4. ASSUME NEW w \in Writer
        PROVE  Mirrored(w)'
    <2>1. Here(w) /\ Sole(w) /\ There(w) /\ write'[w] = write[w]
      BY <1>1 DEF MirrorInv, Mirrored
    <2>2. ASSUME NEW k \in Node, write[w].addr \in Addr,
                 k = r.dest => BlocksOf(r.addr) \cap BlocksOf(write[w].addr) = {}
          PROVE  SameFiles(store[k], store'[k], write[w].addr)
      BY <1>1, <2>2, FarWrite, FarApply DEF SameFiles
    <2>3. Here(w)'
      <3>1. CASE store' = store
        BY <1>1, <2>1, <3>1, HereKept DEF SameFiles
      <3>2. CASE Unlocked(r.dest, r.addr) \/ r.st = "commit"
        <4>1. write[w].pc # "idle" =>
                /\ write[w].addr \in Addr /\ write[w].node \in Node
                /\ write[w].node = r.dest =>
                     BlocksOf(r.addr) \cap BlocksOf(write[w].addr) = {}
          BY <1>1, <3>2, BusyType, ApartHere
        <4> QED
          BY <1>1, <2>1, <2>2, <4>1, HereKept
      <3> QED
        BY <1>1, <3>1, <3>2
    <2>4. Failed(w) => Failed(w)'
      BY <1>2 DEF Failed
    <2>5. Sole(w)'
      <3>1. \A b : Writing(b)' = Writing(b) /\ Replaying(b)' = Replaying(b)
        BY <1>1 DEF Writing, Replaying
      <3>2. \A q \in rpc' : \E p \in rpc : p.caller = q.caller /\ p.addr = q.addr
        BY <1>2
      <3> QED
        BY <1>1, <2>1, <2>4, <3>1, <3>2, SoleKept
    <2>6. There(w)'
      <3> SUFFICES ASSUME Trusted(w)', r.caller # w PROVE There(w)'
        BY ServeOwn DEF There
      <3>1. Trusted(w)
        BY <1>1, <2>1, TrustedBefore
      <3>2. \A q \in rpc' : q.caller = w => q \in rpc
        BY <1>2
      <3>3. CASE BlocksOf(r.addr) \cap BlocksOf(write[w].addr) = {}
        <4>1. write[w].addr \in Addr /\ Peer(write[w].node) \in Node
          BY <1>1, <3>1, BusyType, PeerType DEF Trusted
        <4> QED
          BY <1>1, <2>1, <2>2, <3>2, <3>3, <4>1, ThereKept
      <3>4. CASE r.caller = None /\ Failed(w) /\ write[w].pc # "commit"
        BY <2>1, <2>4, <3>4 DEF There, Failed
      <3> QED
        BY <2>1, <3>1, <3>3, <3>4, ApartThere
    <2> QED
      BY <2>3, <2>5, <2>6 DEF Mirrored
  <1> QED
    BY <1>3, <1>4 DEF MirrorInv

-----------------------------------------------------------------------------
(* The consumer and its sub-threads.                                         *)

LEMMA ConsumerMirrors ==
    ASSUME IInv, MirrorInv, NEW n \in Node, Consumer(n)
    PROVE  MirrorInv'
  <1>1. /\ TypeOK /\ store' = store /\ write' = write /\ rpc' = rpc
        /\ suspect' = suspect
    BY DEF Consumer, ConsumerDrain, ConsumerJoin, server, IInv
  <1>2. ASSUME NEW x \in Node \X SubThread, worker'[x] # worker[x]
        PROVE  (\A r \in rpc : r.caller # x) /\ worker'[x].addr = None
    <2>1. CASE ConsumerDrain(n)
      <3>1. x[1] = n /\ worker'[x] = [NoWork EXCEPT !.pc = "check"]
        BY <1>2, <2>1 DEF ConsumerDrain
      <3>2. worker[x].pc = "done"
        BY <2>1, <3>1 DEF ConsumerDrain, IInv, NoStrayWorker
      <3> QED
        BY <3>1, <3>2 DEF IInv, CallsMatch, NoWork
    <2>2. CASE ConsumerJoin(n)
      BY <1>2, <2>2 DEF ConsumerJoin
    <2> QED
      BY <2>1, <2>2 DEF Consumer
  <1> QED
    BY <1>1, <1>2, QuietKeeps

LEMMA WorkerMirrors ==
    ASSUME IInv, MirrorInv, NEW x \in Node \X SubThread, Worker(x)
    PROVE  MirrorInv'
  <1>1. /\ TypeOK /\ worker \in [Node \X SubThread -> WorkerState]
        /\ store' = store /\ write' = write /\ suspect \subseteq suspect'
        /\ \A y \in (Node \X SubThread) \ {x} : worker'[y] = worker[y]
    BY DEF Worker, WorkerCheck, WorkerPop, WorkerRead, WorkerReplicated,
           WorkerCommitted, WorkerRequeue, server, IInv, TypeOK
  <1>2. CASE WorkerCheck(x) \/ WorkerPop(x) \/ WorkerRequeue(x)
    <2>1. rpc' = rpc /\ \A r \in rpc : r.caller # x
      BY <1>2 DEF WorkerCheck, WorkerPop, WorkerRequeue, Failed, IInv,
                  CallsMatch
    <2>2. CASE WorkerCheck(x) \/ WorkerRequeue(x)
      <3>1. worker'[x].addr = None
        BY <1>1, <2>2 DEF WorkerCheck, WorkerRequeue, WorkerState, NoWork
      <3> QED
        BY <1>1, <2>1, <3>1, QuietKeeps
    <2>3. CASE WorkerPop(x)
      <3>1. PICK addr \in Addr :
              /\ worker'[x].addr = addr
              /\ Overlap(addr, RequeuingWrites(x[1], addr), {}) \subseteq suspect'
        <4>1. PICK out \in PopOutcomes(pending[x[1]]) :
                /\ worker' = [worker EXCEPT ![x] = [pc |-> "read", addr |-> out[1]]]
                /\ suspect' = suspect
                     \cup Overlap(out[1], RequeuingWrites(x[1], out[1]), {})
          BY <2>3 DEF WorkerPop
        <4>2. out[1] \in Addr
          BY <1>1, PopType DEF TypeOK
        <4> QED
          BY <1>1, <4>1, <4>2
      <3>2. ASSUME NEW w \in Writer, Trusted(w)'
            PROVE  BlocksOf(addr) \cap BlocksOf(write[w].addr) = {}
        <4>1. /\ write[w].pc # "idle"
              /\ w \notin RequeuingWrites(x[1], addr)
              /\ write'[w] = write[w]
          BY <1>1, <3>2 DEF Trusted, RequeuingWrites
        <4> QED
          BY <3>1, <3>2, <4>1, ApartAtStart
      <3> QED
        BY <1>1, <2>1, <3>1, <3>2, QuietKeeps
    <2> QED
      BY <1>2, <2>2, <2>3
  <1>3. CASE WorkerRead(x) \/ WorkerReplicated(x) \/ WorkerCommitted(x)
    <2>1. PICK addr \in Addr : addr = worker[x].addr
      BY <1>1, <1>3, BusyType DEF WorkerRead, WorkerReplicated, WorkerCommitted
    <2>2. addr # None /\ worker'[x].addr \in {addr, None}
      BY <1>1, <1>3, <2>1, NoneAssumption
         DEF WorkerRead, WorkerReplicated, WorkerCommitted, NoWork, WorkerState
    <2>3. /\ \A r \in rpc : r.caller # x => r \in rpc'
          /\ \A r \in rpc' : \/ r \in rpc /\ r.caller # x
                             \/ r.caller = x /\ r.addr = addr
      BY <1>3, <2>1 DEF WorkerRead, WorkerReplicated, WorkerCommitted, Settled,
                        Sent, IInv, CallsMatch
    <2>4. CallsFit'
      <3>1. \A r \in rpc : r.caller # x => CallFits(r)'
        BY <1>1 DEF MirrorInv, CallsFit, CallFits
      <3>2. ASSUME NEW r \in rpc', r.caller = x
            PROVE  CallFits(r)'
        <4> PICK n \in Node : n = x[1]
          OBVIOUS
        <4>1. /\ worker'[x].addr = addr
              /\ \E op \in {"ReplicateBlock", "CommitBlock"} : \E data :
                   /\ r = Sent(x, n, op, addr, data)
                   /\ worker'[x].pc = "replicate" => op = "ReplicateBlock"
                   /\ worker'[x].pc = "commitRemote" => op = "CommitBlock"
          BY <1>1, <1>3, <2>1, <2>3, <3>2
             DEF WorkerRead, WorkerReplicated, WorkerCommitted, Settled,
                 WorkerState, IInv, CallsMatch
        <4> QED
          BY <4>1, SentFits, CallerCases
      <3> QED
        BY <2>3, <3>1, <3>2 DEF CallsFit
    <2>5. ASSUME NEW w \in Writer
          PROVE  Mirrored(w)'
      <3>1. Here(w) /\ Sole(w) /\ There(w) /\ write'[w] = write[w]
        BY <1>1 DEF MirrorInv, Mirrored
      <3>2. Here(w)'
        BY <1>1, <3>1, HereKept DEF SameFiles
      <3>3. There(w)'
        <4>1. \A r \in rpc' : r.caller = w => r \in rpc
          BY <2>3, CallerCases
        <4> QED
          BY <1>1, <3>1, <4>1, ThereKept DEF SameFiles
      <3>4. Sole(w)'
        <4>1. ASSUME Trusted(w)', NEW b \in BlocksOf(write[w].addr)
              PROVE  /\ Writing(b)' \subseteq Writing(b)
                     /\ Replaying(b)' \subseteq Replaying(b)
                     /\ \A r \in rpc' : b \in BlocksOf(r.addr) => r \in rpc
          <5>1. Trusted(w)
            BY <1>1, <3>1, <4>1, TrustedBefore
          <5>2. b \notin BlocksOf(addr)
            BY <2>1, <2>2, <3>1, <4>1, <5>1, ApartThere
          <5> QED
            BY <1>1, <2>1, <2>2, <2>3, <5>2 DEF Writing, Replaying
        <4>2. Failed(w) => Failed(w)'
          BY <2>3, CallerCases DEF Failed
        <4> QED
          BY <1>1, <3>1, <4>1, <4>2, SoleKept
      <3> QED
        BY <3>2, <3>3, <3>4 DEF Mirrored
    <2> QED
      BY <2>4, <2>5 DEF MirrorInv
  <1> QED
    BY <1>2, <1>3 DEF Worker

-----------------------------------------------------------------------------
(* Broken connections and crashes.                                           *)

\* A write whose call is abandoned has no other.
LEMMA AbandonSole ==
    ASSUME IInv, NEW n \in Node, NEW lost, rpc' \subseteq Abandon(n, lost),
           NEW w \in Writer, Sole(w), write'[w] = write[w],
           suspect \subseteq suspect',
           \A b : Writing(b)' \subseteq Writing(b) /\ Replaying(b)' \subseteq Replaying(b)
    PROVE  Sole(w)'
  <1> SUFFICES ASSUME Trusted(w)', NEW b \in BlocksOf(write[w].addr)
               PROVE  /\ Writing(b)' \subseteq {w}
                      /\ Replaying(b)' = {}
                      /\ \A r \in rpc' : b \in BlocksOf(r.addr) =>
                           \/ r.caller = w
                           \/ r.caller = None /\ Failed(w)' /\ write[w].pc # "commit"
    BY DEF Sole
  <1>1. Trusted(w)
    BY TrustedBefore
  <1>2. /\ Writing(b) \subseteq {w} /\ Replaying(b) = {}
        /\ \A q \in rpc : b \in BlocksOf(q.addr) =>
             \/ q.caller = w
             \/ q.caller = None /\ Failed(w) /\ write[w].pc # "commit"
    BY <1>1 DEF Sole
  <1>3. \A r \in rpc' : r.caller = w => r \in rpc /\ r.dest # Peer(n)
    BY AbandonKeeps, CallerCases DEF IInv
  <1>4. Failed(w) => Failed(w)'
    BY <1>3 DEF Failed
  <1>5. ASSUME NEW r \in rpc', b \in BlocksOf(r.addr)
        PROVE  \/ r.caller = w
               \/ r.caller = None /\ Failed(w)' /\ write[w].pc # "commit"
    <2>1. CASE r \in rpc
      BY <1>2, <1>4, <1>5, <2>1
    <2>2. CASE r \notin rpc
      <3>1. PICK q \in Outstanding(n) : r = [q EXCEPT !.caller = None]
        BY <2>2 DEF Abandon
      <3>2. /\ q \in rpc /\ q.caller # None /\ q.dest = Peer(n)
            /\ r.caller = None /\ r.addr = q.addr
        BY <3>1 DEF Outstanding, IInv, TypeOK, Call
      <3>3. q.caller = w
        BY <1>2, <1>5, <3>2
      <3>4. /\ write[w].pc # "commit"
            /\ \A p \in rpc : p.caller = w => p.dest = Peer(n)
        BY <3>2, <3>3 DEF IInv, CallsMatch
      <3> QED
        BY <1>3, <3>2, <3>4 DEF Failed
    <2> QED
      BY <2>1, <2>2
  <1> QED
    BY <1>2, <1>5

LEMMA AbandonFits ==
    ASSUME IInv, CallsFit, NEW n \in Node, NEW lost,
           rpc' \subseteq Abandon(n, lost),
           \A w \in Writer : write[w].node # n => write'[w] = write[w],
           \A x \in Node \X SubThread : x[1] # n => worker'[x] = worker[x]
    PROVE  CallsFit'
  <1> SUFFICES ASSUME NEW r \in rpc' PROVE CallFits(r)'
    BY DEF CallsFit
  <1>1. CASE r.caller = None
    <2>1. PICK q \in rpc : /\ r.st = q.st /\ r.op = q.op
                           /\ r.addr = q.addr /\ r.todo = q.todo
      BY DEF Abandon, Outstanding, IInv, TypeOK, Call
    <2> QED
      BY <1>1, <2>1, CallerAssumption DEF CallsFit, CallFits, Caller
  <1>2. CASE r.caller # None
    <2>1. r \in rpc /\ r.dest # Peer(n)
      BY <1>2, AbandonKeeps DEF IInv
    <2>2. /\ r.caller \in Writer => write'[r.caller] = write[r.caller]
          /\ r.caller \in Node \X SubThread => worker'[r.caller] = worker[r.caller]
      BY <2>1 DEF IInv, CallsMatch
    <2> QED
      BY <2>1, <2>2 DEF CallsFit, CallFits
  <1> QED
    BY <1>1, <1>2

LEMMA ProcessMirrors ==
    ASSUME IInv, MirrorInv, NEW n \in Node,
           \/ Start(n) \/ HeartBeat(n) \/ HeartBeatMissed(n)
           \/ Break(n) \/ Crash(n)
    PROVE  MirrorInv'
  <1>1. TypeOK /\ CallsFit /\ store' = store /\ suspect \subseteq suspect'
    BY DEF IInv, MirrorInv, Start, HeartBeat, HeartBeatMissed, Break, Crash,
           server
  <1>2. CASE Start(n) \/ HeartBeat(n) \/ HeartBeatMissed(n)
    <2>1. write' = write /\ rpc' = rpc /\ worker' = worker
      BY <1>2 DEF Start, HeartBeat, HeartBeatMissed
    <2> QED
      BY <1>1, <2>1, QuietKeeps
  <1>3. CASE Break(n) \/ Crash(n)
    <2>1. PICK lost : rpc' \subseteq Abandon(n, lost)
      BY <1>3 DEF Break, Crash
    <2>2. /\ \A w \in Writer : \/ write'[w] = write[w]
                               \/ write[w].node = n /\ write'[w] = NoWrite
          /\ \A x \in Node \X SubThread : \/ worker'[x] = worker[x]
                                          \/ x[1] = n /\ worker'[x] = NoWork
      BY <1>3 DEF Break, Crash, replica
    <2>3. CallsFit'
      BY <1>1, <2>1, <2>2, AbandonFits
    <2>4. ASSUME NEW w \in Writer
          PROVE  Mirrored(w)'
      <3>1. Here(w) /\ Sole(w) /\ There(w)
        BY DEF MirrorInv, Mirrored
      <3>2. CASE write'[w] = NoWrite
        BY <3>2 DEF Mirrored, Here, Sole, There, Trusted, NoWrite
      <3>3. CASE write'[w] = write[w]
        <4>1. Here(w)'
          BY <1>1, <3>1, <3>3, HereKept DEF SameFiles
        <4>2. \A r \in rpc' : r.caller = w => r \in rpc
          BY <1>1, <2>1, AbandonKeeps, CallerCases
        <4>3. There(w)'
          BY <1>1, <3>1, <3>3, <4>2, ThereKept DEF SameFiles
        <4>4. \A b : /\ Writing(b)' \subseteq Writing(b)
                     /\ Replaying(b)' \subseteq Replaying(b)
          BY <2>2 DEF Writing, Replaying, NoWrite, NoWork
        <4>5. Sole(w)'
          BY <1>1, <2>1, <3>1, <3>3, <4>4, AbandonSole
        <4> QED
          BY <4>1, <4>3, <4>5 DEF Mirrored
      <3> QED
        BY <2>2, <3>2, <3>3
    <2> QED
      BY <2>3, <2>4 DEF MirrorInv
  <1> QED
    BY <1>2, <1>3

-----------------------------------------------------------------------------

LEMMA InitMirrors == Init => MirrorInv
BY DEF Init, MirrorInv, CallsFit, Mirrored, Here, Sole, There, Trusted, NoWrite

LEMMA NextMirrors ==
    ASSUME IInv, MirrorInv, [Next]_vars
    PROVE  MirrorInv'
  <1>1. CASE \E c \in Checker : CheckArrives(c) \/ CheckStep(c)
    <2>1. /\ store' = store /\ write' = write /\ rpc' = rpc
          /\ worker' = worker /\ suspect' = suspect
      BY <1>1 DEF CheckArrives, CheckLocal, CheckStep, CheckRemote,
                  CheckAnswer, server, replica
    <2> QED
      BY <2>1, QuietKeeps DEF IInv
  <1>2. CASE UNCHANGED vars
    <2>1. /\ store' = store /\ write' = write /\ rpc' = rpc
          /\ worker' = worker /\ suspect' = suspect
      BY <1>2 DEF vars, server, replica
    <2> QED
      BY <2>1, QuietKeeps DEF IInv
  <1> QED
    BY <1>1, <1>2, ProcessMirrors, ConsumerMirrors, ArriveMirrors, StepMirrors,
       ServeMirrors, WorkerMirrors DEF Next

LEMMA MirrorInvariance == Spec => [](IInv /\ MirrorInv)
BY Invariance, InitMirrors, NextMirrors, PTL DEF Spec

\* A Write that answers VALID can be read on its own node, and on the other node
\* too or is in the queue of what to replay there, whatever other writes, replays,
\* crashes and broken connections there are, unless its blocks are suspect.
THEOREM ValidWritesAreMirrored == Spec => ValidIsMirrored
  <1> DEFINE Kept(w) ==
        LET n == write[w].node
            addr == write[w].addr
        IN  AnswersValid(w) /\ BlocksOf(addr) \cap suspect' = {} =>
              /\ Read(store'[n].blk, addr) = write[w].data
              /\ \/ Read(store'[Peer(n)].blk, addr) = write[w].data
                 \/ addr \in Waiting(pending'[n])
  <1>1. ASSUME IInv, MirrorInv, TypeOK', [Next]_vars
        PROVE  [\A w \in Writer : Kept(w)]_vars
    <2> SUFFICES ASSUME NEW w \in Writer, AnswersValid(w), Next,
                        BlocksOf(write[w].addr) \cap suspect' = {}
                 PROVE  Kept(w)
      BY <1>1
    <2> DEFINE n    == write[w].node
               addr == write[w].addr
               data == write[w].data
               todo == write[w].todo
    <2>1. /\ TypeOK /\ Here(w) /\ There(w)
          /\ write[w].pc \in {"commit", "enqueue"} /\ write'[w].pc = "idle"
          /\ up'[n]
      BY <1>1 DEF IInv, MirrorInv, Mirrored, AnswersValid
    <2>2. /\ n \in Node /\ addr \in Addr /\ data \in Content
          /\ Peer(n) \in Node /\ Peer(n) # n
          /\ store[n] \in Store
      BY <2>1, BusyType, PeerType DEF TypeOK
    <2>3. \A k \in Node : store'[k].blk \in Files
      BY <1>1 DEF TypeOK, Store
    <2>4. WriteValid(w) \/ WriteEnqueue(w)
      <3>1. write'[w] # write[w] /\ write \in [Writer -> WriteState]
        BY <2>1 DEF TypeOK
      <3>2. CASE \E v \in Writer : WriteArrives(v)
        <4>1. PICK v \in Writer : WriteArrives(v)
          BY <3>2
        <4>2. write[v].pc = "idle" /\ \A u \in Writer \ {v} : write'[u] = write[u]
          BY <2>1, <4>1 DEF WriteArrives, WriteAlone, WriteMirrored, TypeOK
        <4> QED
          BY <2>1, <3>1, <4>2
      <3>3. CASE \E v \in Writer : WriteStep(v)
        <4>1. PICK v \in Writer : WriteStep(v)
          BY <3>3
        <4>2. v = w
          BY <1>1, <3>1, <4>1, StepEffect
        <4>3. WriteCommitOp(w) => write'[w].pc = write[w].pc
          BY <3>1, <2>1 DEF WriteCommitOp, TypeOK
        <4> QED
          BY <2>1, <4>1, <4>2, <4>3
             DEF WriteStep, WriteReplicated, WriteRejected, WriteCommitFailed,
                 WriteCommitted, WriteAloneCommitted
      <3>4. CASE \E m \in Node : Crash(m)
        BY <2>1, <3>1, <3>4 DEF Crash, TypeOK
      <3>5. CASE write' = write
        BY <3>1, <3>5
      <3> QED
        BY <3>2, <3>3, <3>4, <3>5
           DEF Next, Start, HeartBeat, HeartBeatMissed, Break, Consumer,
               ConsumerDrain, ConsumerJoin, Serve, ServeReplicate, ServeCommit,
               ServeCommitOp, Unreachable, Worker, WorkerCheck, WorkerPop,
               WorkerRead, WorkerReplicated, WorkerCommitted, WorkerRequeue,
               CheckArrives, CheckLocal, CheckStep, CheckRemote, CheckAnswer,
               replica
    <2>5. CASE WriteValid(w)
      <3>1. /\ write[w].pc = "commit" /\ Len(todo) = 1
            /\ store'[n] = Apply(store[n], Head(todo))
            /\ store'[Peer(n)] = store[Peer(n)] /\ suspect' = suspect
        BY <2>1, <2>2, <2>5 DEF WriteValid, TypeOK
      <3>2. Midway(store[n], addr, data, todo) /\ Landed(store[Peer(n)], addr, data)
        BY <2>1, <3>1 DEF Here, There, Trusted
      <3>3. Landed(store'[n], addr, data) /\ Landed(store'[Peer(n)], addr, data)
        BY <2>2, <3>1, <3>2, MidwayStep
      <3>4. /\ Read(store'[n].blk, addr) = data
            /\ Read(store'[Peer(n)].blk, addr) = data
        BY <2>2, <2>3, <3>3, CarriedReads DEF Landed, LandedAt
      <3> QED
        BY <3>4
    <2>6. CASE WriteEnqueue(w)
      <3>1. PICK p \in AddPendingBlock(pending[n], addr) :
              /\ write[w].pc = "enqueue" /\ store' = store
              /\ pending'[n] = p /\ Dropped(p, addr) \subseteq suspect'
        BY <2>1, <2>2, <2>6 DEF WriteEnqueue, TypeOK
      <3>2. Landed(store'[n], addr, data)
        BY <2>1, <3>1 DEF Here
      <3>3. Read(store'[n].blk, addr) = data
        BY <2>2, <2>3, <3>2, CarriedReads DEF Landed, LandedAt
      <3>4. pending[n] \in Pending
        BY <2>1, <2>2 DEF TypeOK
      <3>5. addr \in Waiting(pending'[n])
        BY <2>2, <3>1, <3>4, WaitingPushed, BlocksOfType
      <3> QED
        BY <3>3, <3>5
    <2> QED
      BY <2>4, <2>5, <2>6
  <1>2. ASSUME [][\A w \in Writer : Kept(w)]_vars
        PROVE  ValidIsMirrored
    BY <1>2 DEF ValidIsMirrored
  <1> QED
    BY MirrorInvariance, TypeCorrect, <1>1, <1>2, PTL DEF Spec

\* A node that fails while it commits a mirrored write leaves the data of the write
\* readable on the other node, unless a block of the write was suspect before.
THEOREM CommittedSurvives == Spec => SurvivesCrash
  <1> DEFINE Survives(w) ==
        LET n == write[w].node
            addr == write[w].addr
        IN  /\ write[w].pc = "commit" /\ up[n] /\ ~up'[n]
            /\ BlocksOf(addr) \cap suspect = {}
            => Read(store'[Peer(n)].blk, addr) = write[w].data
  <1>1. ASSUME IInv, MirrorInv, TypeOK', [Next]_vars
        PROVE  [\A w \in Writer : Survives(w)]_vars
    <2> SUFFICES ASSUME NEW w \in Writer, Next, write[w].pc = "commit",
                        up[write[w].node], ~up'[write[w].node],
                        BlocksOf(write[w].addr) \cap suspect = {}
                 PROVE  Survives(w)
      BY <1>1
    <2> DEFINE n    == write[w].node
               addr == write[w].addr
               data == write[w].data
    <2>1. /\ n \in Node /\ addr \in Addr /\ data \in Content
          /\ Peer(n) \in Node
      BY <1>1, BusyType, PeerType DEF IInv
    <2>2. Landed(store[Peer(n)], addr, data)
      BY <1>1 DEF MirrorInv, Mirrored, There, Trusted
    <2>3. \E m \in Node : Crash(m)
      <3>1. up' # up
        OBVIOUS
      <3>2. CASE \E m \in Node : Start(m)
        BY <1>1, <2>1, <3>2 DEF Start, IInv, TypeOK
      <3>3. \A m \in Node :
              HeartBeat(m) \/ HeartBeatMissed(m) \/ Break(m) \/ Consumer(m)
                => up' = up
        BY DEF HeartBeat, HeartBeatMissed, Break, Consumer, ConsumerDrain,
               ConsumerJoin, server
      <3>4. \A v \in Writer : WriteArrives(v) \/ WriteStep(v) => up' = up
        BY DEF WriteArrives, WriteAlone, WriteMirrored, WriteStep,
               WriteReplicated, WriteRejected, WriteCommitFailed,
               WriteCommitted, WriteCommitOp, WriteValid, WriteAloneCommitted,
               WriteEnqueue, server
      <3>5. \A r \in rpc : Serve(r) \/ Unreachable(r) => up' = up
        BY DEF Serve, ServeReplicate, ServeCommit, ServeCommitOp, Unreachable,
               server
      <3>6. \A x \in Node \X SubThread : Worker(x) => up' = up
        BY DEF Worker, WorkerCheck, WorkerPop, WorkerRead, WorkerReplicated,
               WorkerCommitted, WorkerRequeue, server
      <3>7. \A c \in Checker : CheckArrives(c) \/ CheckStep(c) => up' = up
        BY DEF CheckArrives, CheckLocal, CheckStep, CheckRemote, CheckAnswer,
               server
      <3> QED
        BY <3>1, <3>2, <3>3, <3>4, <3>5, <3>6, <3>7 DEF Next
    <2>4. store' = store
      BY <2>3 DEF Crash
    <2>5. store'[Peer(n)].blk \in Files
      BY <1>1, <2>1 DEF TypeOK, Store
    <2> QED
      BY <2>1, <2>2, <2>4, <2>5, CarriedReads DEF Landed, LandedAt
  <1>2. ASSUME [][\A w \in Writer : Survives(w)]_vars
        PROVE  SurvivesCrash
    BY <1>2 DEF SurvivesCrash
  <1> QED
    BY MirrorInvariance, TypeCorrect, <1>1, <1>2, PTL DEF Spec
=============================================================================

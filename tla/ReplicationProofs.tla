------------------------- MODULE ReplicationProofs --------------------------
(* Theorems about Replication, for any addresses, block size, numbers of    *)
(* concurrent writes, checks and sub-threads, and any bounds.               *)
EXTENDS Replication, BlockStoreProofs

LEMMA PeerType == \A n \in Node : Peer(n) \in Node /\ Peer(n) # n
BY NodeAssumption DEF Peer, Node

LEMMA NoneLeft == <<>> \in Seq(FileOp)
OBVIOUS

LEMMA LocksType ==
    \A n \in Node, addr \in Addr : Locks(n, addr) \subseteq Node \X Block
BY BlocksOfType DEF Locks

LEMMA NoStoreType == EmptyStore \in Store
BY DEF EmptyStore, NoFiles, Store, Files

LEMMA StageType ==
    ASSUME NEW st \in [Node -> Store], NEW n \in Node, NEW addr \in Addr,
           NEW data \in Content
    PROVE  [st EXCEPT ![n] = Write(@, addr, data)] \in [Node -> Store]
BY WriteType

LEMMA FileOpType ==
    ASSUME NEW st \in [Node -> Store], NEW n \in Node, NEW todo \in Seq(FileOp),
           todo # <<>>
    PROVE  /\ [st EXCEPT ![n] = Apply(@, Head(todo))] \in [Node -> Store]
           /\ Tail(todo) \in Seq(FileOp)
  <1>1. Head(todo) \in FileOp /\ Tail(todo) \in Seq(FileOp)
    OBVIOUS
  <1> QED
    BY <1>1, ApplyType

\* A new call is well formed.
LEMMA SentType ==
    ASSUME NEW c \in Caller, NEW n \in Node, NEW addr \in Addr
    PROVE  /\ \A data \in Content : Sent(c, n, "ReplicateBlock", addr, data) \in Call
           /\ Sent(c, n, "CommitBlock", addr, None) \in Call
BY PeerType, CommitType DEF Sent, Call

\* Serving a call, or losing its caller, leaves it well formed.
LEMMA CallStepType ==
    ASSUME NEW r \in Call
    PROVE  /\ [r EXCEPT !.caller = None] \in Call
           /\ [r EXCEPT !.st = "done", !.todo = <<>>] \in Call
           /\ r.op = "CommitBlock" => [r EXCEPT !.st = "commit"] \in Call
           /\ r.todo # <<>> => [r EXCEPT !.todo = Tail(@)] \in Call
           /\ r.dest \in Node /\ r.addr \in Addr /\ r.todo \in Seq(FileOp)
           /\ r.op = "ReplicateBlock" => r.data \in Content
           /\ r.st = "commit" => r.op = "CommitBlock"
  <1> DEFINE Stage ==
        [caller : Caller \cup {None}, dest : Node, op : {"ReplicateBlock"},
         addr : Addr, data : Content, st : {"sent", "done"}, todo : {<<>>}]
  <1> DEFINE Comm ==
        [caller : Caller \cup {None}, dest : Node, op : {"CommitBlock"},
         addr : Addr, data : {None}, st : {"sent", "commit", "done"},
         todo : Seq(FileOp)]
  <1>0. Call = Stage \cup Comm
    BY DEF Call
  <1>1. CASE r \in Stage
    <2>1. r.todo = <<>> /\ r.op = "ReplicateBlock" /\ r.st # "commit"
      BY <1>1
    <2>2. [r EXCEPT !.caller = None] \in Stage
      BY <1>1
    <2>3. [r EXCEPT !.st = "done", !.todo = <<>>] \in Stage
      BY <1>1
    <2>4. r.dest \in Node /\ r.addr \in Addr /\ r.data \in Content
      BY <1>1
    <2>5. r.todo \in Seq(FileOp)
      BY <2>1, NoneLeft
    <2> QED
      BY <1>0, <2>1, <2>2, <2>3, <2>4, <2>5
  <1>2. CASE r \in Comm
    <2>1. r.todo \in Seq(FileOp) /\ r.op = "CommitBlock"
      BY <1>2
    <2>2. r.todo # <<>> => Tail(r.todo) \in Seq(FileOp)
      BY <2>1
    <2>3. [r EXCEPT !.caller = None] \in Comm
      BY <1>2
    <2>4. [r EXCEPT !.st = "done", !.todo = <<>>] \in Comm
      BY <1>2, NoneLeft
    <2>5. [r EXCEPT !.st = "commit"] \in Comm
      BY <1>2
    <2>6. r.todo # <<>> => [r EXCEPT !.todo = Tail(@)] \in Comm
      BY <1>2, <2>2
    <2>7. r.dest \in Node /\ r.addr \in Addr
      BY <1>2
    <2> HIDE DEF Stage, Comm
    <2> QED
      BY <1>0, <2>1, <2>3, <2>4, <2>5, <2>6, <2>7
  <1> QED
    BY <1>0, <1>1, <1>2

LEMMA ReplyType ==
    ASSUME rpc \subseteq Call, NEW r \in rpc
    PROVE  Reply(r) \subseteq Call
BY CallStepType DEF Reply

LEMMA AbandonType ==
    ASSUME rpc \subseteq Call, NEW n, NEW lost
    PROVE  Abandon(n, lost) \subseteq Call
BY CallStepType DEF Abandon, Outstanding

LEMMA WaitingType == \A p \in Pending : Waiting(p) \subseteq Addr
BY DEF Waiting, Pending

\* What may become of a queue that an address is added to: it keeps its fields but
\* for one more address in its map, and in its queue unless it was popped empty.
LEMMA AddPendingOutcome ==
    ASSUME NEW p \in Pending, NEW addr \in Addr,
           NEW out \in AddPendingBlock(p, addr)
    PROVE  /\ out \in Pending /\ out.underflow = p.underflow
           /\ addr \in p.map => out = p
           /\ addr \notin p.map =>
                /\ out.map = p.map \cup {addr}
                /\ \/ out.queue = Append(p.queue, addr)
                   \/ out.queue = p.queue /\ p.underflow
  <1> DEFINE q == Append(p.queue, addr)
             m == p.map \cup {addr}
  <1>1. q \in Seq(Addr) /\ m \in SUBSET Addr
    BY DEF Pending
  <1>2. addr \in p.map => out = p
    BY DEF AddPendingBlock
  <1>3. addr \notin p.map =>
          \/ out = [p EXCEPT !.queue = q, !.map = m]
          \/ out = [p EXCEPT !.map = m] /\ p.underflow
    BY DEF AddPendingBlock, Push, PushOutside
  <1> HIDE DEF q, m
  <1>4. ASSUME out = [p EXCEPT !.queue = q, !.map = m]
        PROVE  /\ out \in Pending /\ out.queue = q /\ out.map = m
               /\ out.underflow = p.underflow
    BY <1>1, <1>4 DEF Pending
  <1>5. ASSUME out = [p EXCEPT !.map = m]
        PROVE  /\ out \in Pending /\ out.queue = p.queue /\ out.map = m
               /\ out.underflow = p.underflow
    BY <1>1, <1>5 DEF Pending
  <1>6. out \in Pending /\ out.underflow = p.underflow
    BY <1>2, <1>3, <1>4, <1>5
  <1> QED
    BY <1>2, <1>3, <1>4, <1>5, <1>6 DEF q, m

LEMMA AddPendingType ==
    ASSUME NEW p \in Pending, NEW addr \in Addr,
           NEW out \in AddPendingBlock(p, addr)
    PROVE  out \in Pending /\ Dropped(out, addr) \subseteq Block
BY AddPendingOutcome, BlocksOfType DEF Dropped

\* A push keeps what is queued and queues the address, or drops its blocks.
LEMMA WaitingPushed ==
    ASSUME NEW p \in Pending, NEW addr \in Addr,
           NEW out \in AddPendingBlock(p, addr)
    PROVE  /\ Waiting(p) \subseteq Waiting(out)
           /\ Waiting(out) \subseteq Waiting(p) \cup {addr}
           /\ addr \in Waiting(out) \/ Dropped(out, addr) = BlocksOf(addr)
  <1> DEFINE q == p.queue
             a == Append(q, addr)
  <1>1. out.queue = q \/ out.queue = a
    BY AddPendingOutcome
  <1>2. /\ DOMAIN a = 1..(Len(q) + 1) /\ DOMAIN q = 1..Len(q)
        /\ \A i \in 1..Len(q) : a[i] = q[i]
        /\ a[Len(q) + 1] = addr /\ Len(q) \in Nat
    BY DEF Pending
  <1> HIDE DEF q, a
  <1>3. /\ DOMAIN q \subseteq DOMAIN a
        /\ \A i \in DOMAIN a : i = Len(q) + 1 \/ i \in DOMAIN q
    BY <1>2
  <1>4. {q[i] : i \in DOMAIN q} \subseteq {a[i] : i \in DOMAIN a}
    BY <1>2, <1>3
  <1>5. {a[i] : i \in DOMAIN a} \subseteq {q[i] : i \in DOMAIN q} \cup {addr}
    BY <1>2, <1>3
  <1>6. Waiting(p) = {q[i] : i \in DOMAIN q}
    BY DEF Waiting, q
  <1>7. Waiting(out) = Waiting(p) \/ Waiting(out) = {a[i] : i \in DOMAIN a}
    BY <1>1, <1>6 DEF Waiting
  <1> QED
    BY <1>4, <1>5, <1>6, <1>7 DEF Dropped

\* A pop takes away no address but the one it returns.
LEMMA WaitingPopped ==
    ASSUME NEW p \in Pending, NEW out \in PopOutcomes(p)
    PROVE  /\ Waiting(out[2]) \subseteq Waiting(p)
           /\ Waiting(p) \subseteq Waiting(out[2]) \cup {out[1]}
  <1> DEFINE q == p.queue
             h == Head(q)
             t == Tail(q)
  <1>1. CASE q = <<>>
    <2>1. PICK a \in Addr :
            out = <<a, [p EXCEPT !.map = @ \ {a}, !.underflow = TRUE]>>
      BY <1>1 DEF PopOutcomes
    <2>2. out[2].queue = p.queue
      BY <2>1 DEF Pending
    <2> QED
      BY <2>2 DEF Waiting
  <1>2. CASE q # <<>>
    <2>1. out = <<h, [p EXCEPT !.queue = t, !.map = @ \ {h}]>>
      BY <1>2 DEF PopOutcomes
    <2>2. out[1] = h /\ out[2].queue = t
      BY <2>1 DEF Pending
    <2>3. /\ Len(q) \in Nat /\ Len(q) > 0 /\ Len(t) = Len(q) - 1
          /\ DOMAIN t = 1..(Len(q) - 1) /\ DOMAIN q = 1..Len(q)
          /\ h = q[1]
          /\ \A i \in 1..(Len(q) - 1) : t[i] = q[i + 1]
      BY <1>2 DEF Pending
    <2> HIDE DEF q, h, t
    <2>4. \A i \in DOMAIN t : i + 1 \in DOMAIN q
      BY <2>3
    <2>5. \A i \in DOMAIN q :
            i = 1 \/ (i - 1 \in DOMAIN t /\ (i - 1) + 1 = i)
      BY <2>3
    <2>6. \A i \in DOMAIN t : t[i] = q[i + 1]
      BY <2>3
    <2>7. {t[i] : i \in DOMAIN t} \subseteq {q[i] : i \in DOMAIN q}
      BY <2>4, <2>6
    <2>8. \A i \in DOMAIN q : q[i] \in {t[j] : j \in DOMAIN t} \cup {h}
      BY <2>3, <2>5, <2>6
    <2> QED
      BY <2>2, <2>7, <2>8 DEF Waiting, q
  <1> QED
    BY <1>1, <1>2

\* Whatever a pop returns is an address.
LEMMA PopType ==
    ASSUME NEW p \in Pending, NEW out \in PopOutcomes(p)
    PROVE  out[1] \in Addr /\ out[2] \in Pending
  <1>1. CASE p.queue # <<>>
    <2>1. p.queue \in Seq(Addr)
      BY DEF Pending
    <2>2. Head(p.queue) \in Addr /\ Tail(p.queue) \in Seq(Addr)
      BY <1>1, <2>1
    <2> DEFINE h == Head(p.queue)
               t == Tail(p.queue)
    <2>3. out = <<h, [p EXCEPT !.queue = t, !.map = @ \ {h}]>>
      BY <1>1 DEF PopOutcomes
    <2>4. h \in Addr /\ t \in Seq(Addr)
      BY <2>2
    <2> HIDE DEF h, t
    <2>5. [p EXCEPT !.queue = t, !.map = @ \ {h}] \in Pending
      BY <2>4 DEF Pending
    <2> QED
      BY <2>3, <2>4, <2>5
  <1>2. CASE p.queue = <<>>
    <2>1. PICK a \in Addr :
            out = <<a, [p EXCEPT !.map = @ \ {a}, !.underflow = TRUE]>>
      BY <1>2 DEF PopOutcomes
    <2>2. [p EXCEPT !.map = @ \ {a}, !.underflow = TRUE] \in Pending
      BY DEF Pending
    <2> QED
      BY <2>1, <2>2
  <1> QED
    BY <1>1, <1>2

\* A handler that is busy has an address and data, and so does a sub-thread.
LEMMA BusyType ==
    ASSUME TypeOK
    PROVE  /\ \A w \in Writer : write[w].pc # "idle" =>
                /\ write[w].node \in Node /\ write[w].addr \in Addr
                /\ write[w].data \in Content /\ write[w].todo \in Seq(FileOp)
                /\ write[w] \in [pc : {"replicate", "commitRemote", "commit",
                                       "commitAlone", "enqueue"},
                                 node : Node, addr : Addr, data : Payload,
                                 todo : Seq(FileOp)]
           /\ \A x \in Node \X SubThread : worker[x].addr # None =>
                worker[x].addr \in Addr
           /\ \A x \in Node \X SubThread :
                worker[x].pc \in {"read", "replicate", "commitRemote"} =>
                  worker[x].addr \in Addr
           /\ \A c \in Checker : check[c].pc # "idle" =>
                check[c].node \in Node /\ check[c].addr \in Addr
BY PayloadAssumption, NoneAssumption
   DEF TypeOK, WriteState, WorkerState, CheckState, NoWrite, NoCheck

LEMMA LostInCrashType ==
    ASSUME TypeOK, NEW n \in Node
    PROVE  LostInCrash(n) \subseteq Block
  <1>1. Waiting(pending[n]) \subseteq Addr
    BY WaitingType DEF TypeOK
  <1>2. {worker[<<n, t>>].addr : t \in SubThread} \ {None} \subseteq Addr
    BY BusyType
  <1>3. \A w \in Writer : write[w].pc \in
          {"commitRemote", "commit", "commitAlone", "enqueue"} =>
            write[w].addr \in Addr
    BY BusyType
  <1>4. \A r \in rpc : r.addr \in Addr
    BY CallStepType DEF TypeOK
  <1> QED
    BY <1>1, <1>2, <1>3, <1>4, BlocksOfType DEF LostInCrash

LEMMA OverlapType ==
    \A addr \in Addr : \A s, t : Overlap(addr, s, t) \subseteq Block
BY BlocksOfType DEF Overlap

-----------------------------------------------------------------------------
(* Type correctness.                                                       *)

LEMMA InitType == Init => TypeOK
BY NoStoreType, BoundAssumption
   DEF Init, TypeOK, WriteState, WorkerState, CheckState, Pending, NoWork,
       NoPending

\* A check whose Read fails stays well formed.
LEMMA FailedReadType ==
    ASSUME TypeOK, NEW c \in Checker, check[c].pc # "idle"
    PROVE  ReadFails(check[c]) \in CheckState
  <1> DEFINE k == check[c]
  <1>1. \/ k \in [pc : {"read"}, node : Node, addr : Addr, data : Content,
                  remote : {None}]
        \/ k \in [pc : {"compare"}, node : Node, addr : Addr, data : Content,
                  remote : Content \cup {None}]
    BY DEF TypeOK, CheckState, NoCheck
  <1> HIDE DEF k
  <1>2. [k EXCEPT !.pc = "compare", !.remote = None]
          \in [pc : {"compare"}, node : Node, addr : Addr, data : Content,
               remote : Content \cup {None}]
    BY <1>1
  <1> QED
    BY <1>2 DEF ReadFails, CheckState, k

\* It keeps its node, its address and its data, and has none of the other copy.
LEMMA FailedReadKeeps ==
    ASSUME TypeOK, NEW c \in Checker, check[c].pc # "idle"
    PROVE  LET k == ReadFails(check[c])
           IN  /\ k.pc = "compare" /\ k.remote = None
               /\ k.node = check[c].node /\ k.addr = check[c].addr
               /\ k.data = check[c].data
  <1> DEFINE k == check[c]
  <1>1. \/ k \in [pc : {"read"}, node : Node, addr : Addr, data : Content,
                  remote : {None}]
        \/ k \in [pc : {"compare"}, node : Node, addr : Addr, data : Content,
                  remote : Content \cup {None}]
    BY DEF TypeOK, CheckState, NoCheck
  <1> HIDE DEF k
  <1> DEFINE f == [k EXCEPT !.pc = "compare", !.remote = None]
  <1>2. /\ f.pc = "compare" /\ f.remote = None /\ f.node = k.node
        /\ f.addr = k.addr /\ f.data = k.data
    BY <1>1
  <1> HIDE DEF f
  <1>3. ReadFails(check[c]) = f
    BY DEF ReadFails, f, k
  <1> QED
    BY <1>2, <1>3 DEF k

\* What a broken connection and a crash do to a check.
LEMMA LostRead ==
    ASSUME TypeOK, NEW n \in Node, Break(n) \/ Crash(n), NEW c \in Checker
    PROVE  \/ /\ check'[c] = check[c]
              /\ Crash(n) => check[c].node # n
           \/ /\ check[c].pc # "idle" /\ check'[c] = ReadFails(check[c])
              /\ Crash(n) => check[c].node # n
           \/ Crash(n) /\ check[c].node = n /\ check'[c] = NoCheck
  <1>1. \A m : \A d \in Unread(m) \cup Replied(m) : check[d].pc # "idle"
    BY DEF Unread, Replied
  <1>2. CASE Break(n)
    BY <1>1, <1>2 DEF Break, Crash
  <1>3. CASE Crash(n)
    BY <1>1, <1>3 DEF Crash
  <1> QED
    BY <1>2, <1>3

LEMMA ProcessType ==
    ASSUME TypeOK, NEW n \in Node,
           Start(n) \/ HeartBeat(n) \/ HeartBeatMissed(n) \/ Break(n)
    PROVE  TypeOK'
  <1> USE DEF TypeOK, server, replica, bounds
  <1>1. CASE Start(n)
    BY <1>1, PeerType DEF Start
  <1>2. CASE HeartBeat(n)
    BY <1>2, PeerType DEF HeartBeat
  <1>3. CASE HeartBeatMissed(n)
    BY <1>3, BoundAssumption DEF HeartBeatMissed
  <1>4. CASE Break(n)
    <2>1. rpc' \subseteq Call
      BY <1>4, AbandonType DEF Break
    <2>2. check' \in [Checker -> CheckState]
      <3>1. \A c \in Unread(n) \cup Replied(n) :
              c \in Checker /\ ReadFails(check[c]) \in CheckState
        BY FailedReadType DEF Unread, Replied
      <3> HIDE DEF TypeOK
      <3>2. check \in [Checker -> CheckState]
        BY DEF TypeOK
      <3> QED
        BY <1>4, <3>1, <3>2 DEF Break
    <2> QED
      BY <1>4, <2>1, <2>2, BoundAssumption DEF Break
  <1> QED
    BY <1>1, <1>2, <1>3, <1>4

LEMMA CrashType ==
    ASSUME TypeOK, NEW n \in Node, Crash(n)
    PROVE  TypeOK'
  <1>1. suspect' \subseteq Block
    BY LostInCrashType DEF Crash, TypeOK
  <1>2. rpc' \subseteq Call
    BY AbandonType DEF Crash, TypeOK
  <1>3. worker' \in [Node \X SubThread -> WorkerState]
    BY DEF Crash, TypeOK, NoWork, WorkerState
  <1>4. write' \in [Writer -> WriteState] /\ check' \in [Checker -> CheckState]
    <2>1. write' \in [Writer -> WriteState]
      BY DEF Crash, TypeOK, WriteState
    <2>2. \A m \in Node : \A c \in Unread(m) \cup Replied(m) :
            c \in Checker /\ ReadFails(check[c]) \in CheckState
      BY FailedReadType DEF Unread, Replied
    <2>3. NoCheck \in CheckState /\ Peer(n) \in Node
      BY PeerType DEF CheckState
    <2> QED
      BY <2>1, <2>2, <2>3 DEF Crash, TypeOK
  <1>5. pending' \in [Node -> Pending] /\ consumer' \in [Node -> {"loop", "drain"}]
    BY DEF Crash, TypeOK, Pending, NoPending
  <1>6. crashes' \in 0..MaxCrashes
    BY BoundAssumption DEF Crash, TypeOK
  <1>7. /\ up' \in [Node -> BOOLEAN] /\ isAlive' \in [Node -> BOOLEAN]
        /\ locked' \subseteq Node \X Block
    BY DEF Crash, TypeOK
  <1> QED
    BY <1>1, <1>2, <1>3, <1>4, <1>5, <1>6, <1>7 DEF Crash, TypeOK

\* What a waiting caller puts in the place of its call is well formed.
LEMMA SettledType ==
    ASSUME TypeOK, NEW c
    PROVE  Settled(c) \subseteq Call
BY DEF Settled, TypeOK

LEMMA WriteArrivesType ==
    ASSUME TypeOK, NEW w \in Writer, WriteArrives(w)
    PROVE  TypeOK'
  <1>1. PICK n \in WriteTo, addr \in Addr, data \in Payload :
          WriteAlone(w, n, addr, data) \/ WriteMirrored(w, n, addr, data)
    BY DEF WriteArrives
  <1>2. n \in Node /\ data \in Content
    BY NodeAssumption, PayloadAssumption
  <1>3. locked' \subseteq Node \X Block
    BY <1>1, <1>2, LocksType DEF WriteAlone, WriteMirrored, TypeOK
  <1>4. suspect' \subseteq Block
    BY <1>1, OverlapType DEF WriteAlone, WriteMirrored, TypeOK
  <1>5. CASE WriteAlone(w, n, addr, data)
    <2>1. store' \in [Node -> Store]
      BY <1>2, <1>5, StageType DEF WriteAlone, TypeOK
    <2>2. write' \in [Writer -> WriteState]
      BY <1>2, <1>5, CommitType DEF WriteAlone, TypeOK, WriteState
    <2> QED
      BY <1>3, <1>4, <1>5, <2>1, <2>2
         DEF WriteAlone, TypeOK, replica, bounds
  <1>6. CASE WriteMirrored(w, n, addr, data)
    <2>1. rpc' \subseteq Call
      BY <1>2, <1>6, SentType DEF WriteMirrored, TypeOK, Caller
    <2>2. write' \in [Writer -> WriteState]
      BY <1>2, <1>6, NoneLeft DEF WriteMirrored, TypeOK, WriteState
    <2> QED
      BY <1>3, <1>4, <1>6, <2>1, <2>2
         DEF WriteMirrored, TypeOK, replica, bounds
  <1> QED
    BY <1>1, <1>5, <1>6

\* A step of a Write that has begun.
LEMMA WriteStepType ==
    ASSUME TypeOK, NEW w \in Writer, WriteStep(w)
    PROVE  TypeOK'
  <1> DEFINE n == write[w].node
  <1>1. write[w].pc # "idle"
    BY DEF WriteStep, WriteReplicated, WriteRejected, WriteCommitFailed,
           WriteCommitted, WriteCommitOp, WriteValid, WriteAloneCommitted,
           WriteEnqueue
  <1>2. /\ n \in Node /\ write[w].addr \in Addr /\ write[w].data \in Content
        /\ write[w].todo \in Seq(FileOp)
        /\ write[w] \in [pc : {"replicate", "commitRemote", "commit",
                               "commitAlone", "enqueue"},
                         node : Node, addr : Addr, data : Payload,
                         todo : Seq(FileOp)]
    BY <1>1, BusyType
  <1>3. /\ NoWrite \in WriteState
        /\ [write[w] EXCEPT !.pc = "commitRemote"] \in WriteState
        /\ \A todo \in Seq(FileOp) :
             /\ [write[w] EXCEPT !.todo = todo] \in WriteState
             /\ \A pc \in {"commit", "enqueue"} :
                  [write[w] EXCEPT !.pc = pc, !.todo = todo] \in WriteState
    BY <1>2 DEF WriteState
  <1>4. Len(write[w].todo) > 0 =>
          /\ [store EXCEPT ![n] = Apply(@, Head(write[w].todo))]
               \in [Node -> Store]
          /\ Tail(write[w].todo) \in Seq(FileOp)
    <2>1. Len(write[w].todo) > 0 => write[w].todo # <<>>
      BY <1>2
    <2> QED
      BY <1>2, <2>1, FileOpType DEF TypeOK
  <1> HIDE DEF n
  <1>5. CASE WriteReplicated(w)
    <2>1. store' \in [Node -> Store]
      BY <1>2, <1>5, StageType DEF WriteReplicated, TypeOK, n
    <2>2. rpc' \subseteq Call
      <3>1. Sent(w, n, "CommitBlock", write[w].addr, None) \in Call
        BY <1>2, SentType DEF Caller
      <3> QED
        BY <1>5, <3>1, SettledType DEF WriteReplicated, n
    <2>3. write' \in [Writer -> WriteState]
      BY <1>3, <1>5 DEF WriteReplicated, TypeOK
    <2> QED
      BY <1>5, <2>1, <2>2, <2>3 DEF WriteReplicated, TypeOK, replica, bounds
  <1>6. CASE WriteRejected(w)
    BY <1>3, <1>6 DEF WriteRejected, TypeOK, replica, bounds
  <1>7. CASE WriteCommitFailed(w)
    <2>1. suspect' \subseteq Block
      BY <1>2, <1>7, BlocksOfType DEF WriteCommitFailed, TypeOK
    <2> QED
      BY <1>3, <1>7, <2>1 DEF WriteCommitFailed, TypeOK, replica, bounds
  <1>8. CASE WriteCommitted(w)
    <2>1. rpc' \subseteq Call
      BY <1>8, SettledType DEF WriteCommitted
    <2>2. write' \in [Writer -> WriteState]
      BY <1>2, <1>3, <1>8, CommitType DEF WriteCommitted, TypeOK
    <2> QED
      BY <1>8, <2>1, <2>2
         DEF WriteCommitted, TypeOK, server, replica, bounds
  <1>9. CASE WriteCommitOp(w)
    <2>1. Len(write[w].todo) > 0
      BY <1>2, <1>9 DEF WriteCommitOp
    <2>2. write' \in [Writer -> WriteState]
      BY <1>3, <1>4, <1>9, <2>1 DEF WriteCommitOp, TypeOK
    <2> QED
      BY <1>4, <1>9, <2>1, <2>2 DEF WriteCommitOp, TypeOK, replica, bounds, n
  <1>10. CASE WriteValid(w)
    <2>1. Len(write[w].todo) > 0
      BY <1>2, <1>10 DEF WriteValid
    <2> QED
      BY <1>3, <1>4, <1>10, <2>1 DEF WriteValid, TypeOK, replica, bounds, n
  <1>11. CASE WriteAloneCommitted(w)
    <2>1. Len(write[w].todo) > 0
      BY <1>2, <1>11 DEF WriteAloneCommitted
    <2>2. write' \in [Writer -> WriteState]
      BY <1>3, <1>11, NoneLeft DEF WriteAloneCommitted, TypeOK
    <2> QED
      BY <1>4, <1>11, <2>1, <2>2
         DEF WriteAloneCommitted, TypeOK, replica, bounds, n
  <1>12. CASE WriteEnqueue(w)
    <2>1. PICK p \in AddPendingBlock(pending[n], write[w].addr) :
            /\ pending' = [pending EXCEPT ![n] = p]
            /\ suspect' = suspect \cup Dropped(p, write[w].addr)
      BY <1>12 DEF WriteEnqueue, n
    <2>2. p \in Pending /\ Dropped(p, write[w].addr) \subseteq Block
      BY <1>2, AddPendingType DEF TypeOK
    <2>3. pending' \in [Node -> Pending] /\ suspect' \subseteq Block
      BY <2>1, <2>2 DEF TypeOK
    <2> QED
      BY <1>3, <1>12, <2>3 DEF WriteEnqueue, TypeOK, bounds
  <1> QED
    BY <1>5, <1>6, <1>7, <1>8, <1>9, <1>10, <1>11, <1>12 DEF WriteStep

LEMMA ServeType ==
    ASSUME TypeOK, NEW r \in rpc, Serve(r) \/ Unreachable(r)
    PROVE  TypeOK'
  <1>1. r \in Call
    BY DEF TypeOK
  <1>2. /\ r.dest \in Node /\ r.addr \in Addr /\ r.todo \in Seq(FileOp)
        /\ r.op = "ReplicateBlock" => r.data \in Content
        /\ Reply(r) \subseteq Call
    BY <1>1, CallStepType, ReplyType DEF TypeOK
  <1>3. CASE ServeReplicate(r)
    <2>1. store' \in [Node -> Store]
      BY <1>2, <1>3, StageType DEF ServeReplicate, TypeOK
    <2> QED
      BY <1>2, <1>3, <2>1 DEF ServeReplicate, TypeOK, replica, bounds
  <1>4. CASE ServeCommit(r)
    <2>1. rpc' \subseteq Call
      BY <1>1, <1>4, CallStepType DEF ServeCommit, TypeOK
    <2>2. locked' \subseteq Node \X Block
      BY <1>2, <1>4, LocksType DEF ServeCommit, TypeOK
    <2> QED
      BY <1>4, <2>1, <2>2 DEF ServeCommit, TypeOK, replica, bounds
  <1>5. CASE ServeCommitOp(r)
    <2>1. store' \in [Node -> Store]
      BY <1>2, <1>5, FileOpType DEF ServeCommitOp, TypeOK
    <2>2. rpc' \subseteq Call
      BY <1>1, <1>2, <1>5, CallStepType DEF ServeCommitOp, TypeOK
    <2>3. locked' \subseteq Node \X Block
      BY <1>5 DEF ServeCommitOp, TypeOK
    <2> QED
      BY <1>5, <2>1, <2>2, <2>3 DEF ServeCommitOp, TypeOK, replica, bounds
  <1>6. CASE Unreachable(r)
    BY <1>6 DEF Unreachable, TypeOK, server, replica, bounds
  <1> QED
    BY <1>3, <1>4, <1>5, <1>6 DEF Serve

LEMMA ConsumerType ==
    ASSUME TypeOK, NEW n \in Node, Consumer(n)
    PROVE  TypeOK'
  <1>1. worker' \in [Node \X SubThread -> WorkerState]
    BY DEF Consumer, ConsumerDrain, ConsumerJoin, TypeOK, WorkerState, NoWork
  <1> QED
    BY <1>1 DEF Consumer, ConsumerDrain, ConsumerJoin, TypeOK, server, bounds

LEMMA WorkerType ==
    ASSUME TypeOK, NEW x \in Node \X SubThread, Worker(x)
    PROVE  TypeOK'
  <1>1. x[1] \in Node
    OBVIOUS
  <1>2. /\ NoWork \in WorkerState
        /\ [NoWork EXCEPT !.pc = "check"] \in WorkerState
    BY DEF NoWork, WorkerState
  <1>3. worker[x].pc \in {"read", "replicate", "commitRemote"} =>
          /\ worker[x].addr \in Addr
          /\ \A pc \in {"replicate", "commitRemote"} :
               [worker[x] EXCEPT !.pc = pc] \in WorkerState
    BY NoneAssumption DEF TypeOK, WorkerState
  <1>4. worker[x].pc = "check" => [worker[x] EXCEPT !.pc = "pop"] \in WorkerState
    BY DEF TypeOK, WorkerState
  <1>5. CASE WorkerCheck(x)
    <2>1. worker' \in [Node \X SubThread -> WorkerState]
      BY <1>2, <1>4, <1>5 DEF WorkerCheck, TypeOK
    <2> QED
      BY <1>5, <2>1 DEF WorkerCheck, TypeOK, server, bounds
  <1>6. CASE WorkerPop(x)
    <2>1. PICK out \in PopOutcomes(pending[x[1]]) :
            /\ pending' = [pending EXCEPT ![x[1]] = out[2]]
            /\ worker' = [worker EXCEPT ![x] = [pc |-> "read", addr |-> out[1]]]
            /\ suspect' = suspect
                 \cup Overlap(out[1], RequeuingWrites(x[1], out[1]), {})
      BY <1>6 DEF WorkerPop
    <2>2. out[1] \in Addr /\ out[2] \in Pending
      BY <1>1, PopType DEF TypeOK
    <2>3. pending' \in [Node -> Pending]
      BY <2>1, <2>2 DEF TypeOK
    <2>4. worker' \in [Node \X SubThread -> WorkerState]
      BY <2>1, <2>2 DEF TypeOK, WorkerState
    <2>5. suspect' \subseteq Block
      BY <2>1, <2>2, OverlapType DEF TypeOK
    <2> QED
      BY <1>6, <2>3, <2>4, <2>5 DEF WorkerPop, TypeOK, server, bounds
  <1>7. CASE WorkerRead(x)
    <2>1. worker[x].addr \in Addr /\ worker' \in [Node \X SubThread -> WorkerState]
      BY <1>3, <1>7 DEF WorkerRead, TypeOK
    <2>2. Read(store[x[1]].blk, worker[x].addr) \in Content
      BY <1>1, <2>1, ReadType DEF TypeOK, Store
    <2>3. rpc' \subseteq Call
      BY <1>1, <1>7, <2>1, <2>2, SentType DEF WorkerRead, TypeOK, Caller
    <2> QED
      BY <1>7, <2>1, <2>3 DEF WorkerRead, TypeOK, server, bounds
  <1>8. CASE WorkerReplicated(x)
    <2>1. worker[x].addr \in Addr /\ worker' \in [Node \X SubThread -> WorkerState]
      BY <1>3, <1>8 DEF WorkerReplicated, TypeOK
    <2>2. rpc' \subseteq Call
      BY <1>1, <1>8, <2>1, SentType, SettledType DEF WorkerReplicated, Caller
    <2> QED
      BY <1>8, <2>1, <2>2 DEF WorkerReplicated, TypeOK, server, bounds
  <1>9. CASE WorkerCommitted(x)
    <2>1. worker' \in [Node \X SubThread -> WorkerState]
      BY <1>2, <1>9 DEF WorkerCommitted, TypeOK
    <2>2. rpc' \subseteq Call
      BY <1>9, SettledType DEF WorkerCommitted
    <2> QED
      BY <1>9, <2>1, <2>2 DEF WorkerCommitted, TypeOK, server, bounds
  <1>10. CASE WorkerRequeue(x)
    <2>1. worker' \in [Node \X SubThread -> WorkerState]
      BY <1>2, <1>10 DEF WorkerRequeue, TypeOK
    <2>2. PICK p \in AddPendingBlock(pending[x[1]], worker[x].addr) :
            /\ pending' = [pending EXCEPT ![x[1]] = p]
            /\ suspect' = suspect \cup Dropped(p, worker[x].addr)
      BY <1>10 DEF WorkerRequeue
    <2>3. worker[x].addr \in Addr
      BY <1>3, <1>10 DEF WorkerRequeue
    <2>4. p \in Pending /\ Dropped(p, worker[x].addr) \subseteq Block
      BY <1>1, <2>3, AddPendingType DEF TypeOK
    <2>5. pending' \in [Node -> Pending] /\ suspect' \subseteq Block
      BY <2>2, <2>4 DEF TypeOK
    <2> QED
      BY <1>10, <2>1, <2>5 DEF WorkerRequeue, TypeOK, server, bounds
  <1> QED
    BY <1>5, <1>6, <1>7, <1>8, <1>9, <1>10 DEF Worker

LEMMA CheckType ==
    ASSUME TypeOK, NEW c \in Checker, CheckArrives(c) \/ CheckStep(c)
    PROVE  TypeOK'
  <1>1. CASE CheckRemote(c)
    <2>1. check[c] \in [pc : {"read"}, node : Node, addr : Addr,
                         data : Content, remote : {None}]
      BY <1>1 DEF CheckRemote, TypeOK, CheckState, NoCheck
    <2> DEFINE v == RemoteRead(check[c].node, check[c].addr)
    <2>2. v \in Content \cup {None}
      BY <2>1, PeerType, ReadType DEF RemoteRead, ServeRead, TypeOK, Store
    <2>3. check' = [check EXCEPT ![c] =
                      [check[c] EXCEPT !.pc = "compare", !.remote = v]]
      BY <1>1 DEF CheckRemote, TypeOK
    <2> HIDE DEF v
    <2>4. check' \in [Checker -> CheckState]
      BY <2>1, <2>2, <2>3 DEF TypeOK, CheckState
    <2> QED
      BY <1>1, <2>4 DEF CheckRemote, TypeOK, server, replica, bounds
  <1>3. CASE CheckAnswer(c)
    <2>1. check' \in [Checker -> CheckState]
      BY <1>3 DEF CheckAnswer, TypeOK, CheckState
    <2> QED
      BY <1>3, <2>1 DEF CheckAnswer, TypeOK, replica, bounds
  <1>2. CASE CheckArrives(c)
    <2>1. PICK n \in Node, addr \in Addr : CheckLocal(c, n, addr)
      BY <1>2 DEF CheckArrives
    <2>2. Read(store[n].blk, addr) \in Content
      BY ReadType DEF TypeOK, Store
    <2>3. check' \in [Checker -> CheckState]
      BY <2>1, <2>2 DEF CheckLocal, TypeOK, CheckState
    <2>4. locked' \subseteq Node \X Block
      BY <2>1, LocksType DEF CheckLocal, TypeOK
    <2> QED
      BY <2>1, <2>3, <2>4 DEF CheckLocal, TypeOK, replica, bounds
  <1> QED
    BY <1>1, <1>2, <1>3 DEF CheckStep

\* Every state of every run has the types TypeOK gives: no step, with any
\* number of crashes and broken connections, produces an ill-formed file,
\* queue, handler or call.
THEOREM TypeCorrect == Spec => []TypeOK
  <1>1. ASSUME TypeOK, [Next]_vars
        PROVE  TypeOK'
    <2>1. CASE Next
      BY <1>1, <2>1, ProcessType, CrashType, WriteArrivesType, WriteStepType,
         ServeType, ConsumerType, WorkerType, CheckType DEF Next
    <2>2. CASE UNCHANGED vars
      BY <1>1, <2>2 DEF vars, server, replica, bounds, TypeOK
    <2> QED
      BY <1>1, <2>1, <2>2
  <1> QED
    BY InitType, <1>1, PTL DEF Spec

-----------------------------------------------------------------------------
(* The queue agrees with its map.                                          *)

\* QueueCoherent, of one node's queue and map.
Coherent(p) ==
    ~p.underflow =>
      /\ Waiting(p) = p.map
      /\ \A i, j \in DOMAIN p.queue : p.queue[i] = p.queue[j] => i = j

LEMMA AddKeeps ==
    ASSUME NEW p \in Pending, NEW addr \in Addr, Coherent(p),
           NEW out \in AddPendingBlock(p, addr)
    PROVE  Coherent(out)
  <1> DEFINE q == p.queue
             a == Append(q, addr)
  <1>1. /\ q \in Seq(Addr) /\ p.map \subseteq Addr
        /\ p = [queue |-> q, map |-> p.map, underflow |-> p.underflow]
    BY DEF Pending
  <1>2. /\ a \in Seq(Addr) /\ a # <<>> /\ Len(a) = Len(q) + 1
        /\ DOMAIN a = 1..(Len(q) + 1) /\ DOMAIN q = 1..Len(q)
        /\ \A i \in 1..Len(q) : a[i] = q[i]
        /\ a[Len(q) + 1] = addr /\ Len(q) \in Nat
    BY <1>1
  <1>3. CASE addr \in p.map
    BY <1>3 DEF AddPendingBlock
  <1>4. CASE p.underflow
    <2>1. out.underflow
      BY <1>4, AddPendingOutcome
    <2> QED
      BY <2>1 DEF Coherent
  <1>5. CASE addr \notin p.map /\ ~p.underflow
    <2>1. /\ out.queue = a /\ out.map = p.map \cup {addr}
          /\ out.underflow = p.underflow
      BY <1>5, AddPendingOutcome
    <2> HIDE DEF a, q
    <2>2. /\ {q[i] : i \in 1..Len(q)} = p.map
          /\ \A i, j \in 1..Len(q) : q[i] = q[j] => i = j
      BY <1>2, <1>5 DEF Coherent, Waiting, q
    <2>3. \A i \in 1..(Len(q) + 1) : i = Len(q) + 1 \/ i \in 1..Len(q)
      BY <1>2
    <2>4. {a[i] : i \in 1..(Len(q) + 1)} = p.map \cup {addr}
      <3>1. {a[i] : i \in 1..(Len(q) + 1)} \subseteq p.map \cup {addr}
        BY <1>2, <2>2, <2>3
      <3>2. \A v \in p.map : \E i \in 1..(Len(q) + 1) : a[i] = v
        <4>1. 1..Len(q) \subseteq 1..(Len(q) + 1)
          BY <1>2
        <4> QED
          BY <1>2, <2>2, <4>1
      <3>3. Len(q) + 1 \in 1..(Len(q) + 1) /\ a[Len(q) + 1] = addr
        BY <1>2
      <3> QED
        BY <3>1, <3>2, <3>3
    <2>5. \A i \in 1..Len(q) : a[i] # addr
      BY <1>2, <1>5, <2>2
    <2>6. \A i, j \in 1..(Len(q) + 1) : a[i] = a[j] => i = j
      BY <1>2, <2>2, <2>3, <2>5
    <2> QED
      BY <1>2, <2>1, <2>4, <2>6 DEF Coherent, Waiting
  <1> QED
    BY <1>3, <1>4, <1>5

LEMMA PopKeeps ==
    ASSUME NEW p \in Pending, NEW out \in PopOutcomes(p), Coherent(p)
    PROVE  Coherent(out[2])
  <1> DEFINE q == p.queue
             h == Head(q)
             t == Tail(q)
  <1>1. /\ q \in Seq(Addr)
        /\ p = [queue |-> q, map |-> p.map, underflow |-> p.underflow]
    BY DEF Pending
  <1>2. CASE q = <<>>
    <2>1. PICK a \in Addr :
            out = <<a, [p EXCEPT !.map = @ \ {a}, !.underflow = TRUE]>>
      BY <1>2 DEF PopOutcomes
    <2>2. out[2].underflow = TRUE
      BY <1>1, <2>1
    <2> QED
      BY <2>2 DEF Coherent
  <1>3. CASE q # <<>>
    <2>0. out[2] = [p EXCEPT !.queue = t, !.map = @ \ {h}]
      BY <1>3 DEF PopOutcomes
    <2>1. /\ out[2].queue = t /\ out[2].map = p.map \ {h}
          /\ out[2].underflow = p.underflow
      BY <2>0 DEF Pending
    <2>2. /\ Len(q) \in Nat /\ Len(q) > 0 /\ Len(t) = Len(q) - 1
          /\ DOMAIN t = 1..(Len(q) - 1) /\ DOMAIN q = 1..Len(q)
          /\ h = q[1]
          /\ \A i \in 1..(Len(q) - 1) : t[i] = q[i + 1]
      BY <1>1, <1>3
    <2> HIDE DEF q, h, t
    <2>3. CASE ~p.underflow
      <3>1. /\ {q[i] : i \in 1..Len(q)} = p.map
            /\ \A i, j \in 1..Len(q) : q[i] = q[j] => i = j
        BY <2>2, <2>3 DEF Coherent, Waiting, q
      <3>2. \A i \in 1..(Len(q) - 1) : i + 1 \in 1..Len(q) /\ i + 1 # 1
        BY <2>2
      <3>3. \A i \in 1..Len(q) : i = 1 \/ i - 1 \in 1..(Len(q) - 1)
        BY <2>2
      <3>4. 1 \in 1..Len(q)
        BY <2>2
      <3>5. \A v : v \in {t[i] : i \in 1..(Len(q) - 1)} <=> v \in p.map \ {h}
        <4>1. ASSUME NEW i \in 1..(Len(q) - 1)
              PROVE  t[i] \in p.map \ {h}
          BY <2>2, <3>1, <3>2, <3>4
        <4>2. ASSUME NEW v \in p.map \ {h}
              PROVE  \E i \in 1..(Len(q) - 1) : t[i] = v
          <5>1. PICK j \in 1..Len(q) : q[j] = v
            BY <3>1
          <5>2. j # 1 /\ j - 1 \in 1..(Len(q) - 1) /\ (j - 1) + 1 = j
            BY <2>2, <3>3, <5>1
          <5> QED
            BY <2>2, <5>1, <5>2
        <4> QED
          BY <4>1, <4>2
      <3>6. \A i, j \in 1..(Len(q) - 1) : t[i] = t[j] => i = j
        BY <2>2, <3>1, <3>2
      <3>7. {t[i] : i \in 1..(Len(q) - 1)} = p.map \ {h}
        BY <3>5
      <3> QED
        BY <2>1, <2>2, <3>6, <3>7 DEF Coherent, Waiting
    <2>4. CASE p.underflow
      BY <2>1, <2>4 DEF Coherent
    <2> QED
      BY <2>1, <2>3, <2>4
  <1> QED
    BY <1>2, <1>3

-----------------------------------------------------------------------------
(* What each step does to a node's queue.                                  *)

LEMMA PendingStep ==
    ASSUME TypeOK, [Next]_vars, NEW n \in Node
    PROVE  \/ pending'[n] = pending[n]
           \/ \E addr \in Addr : pending'[n] \in AddPendingBlock(pending[n], addr)
           \/ pending'[n] = NoPending
           \/ \E x \in {n} \X SubThread : \E out \in PopOutcomes(pending[n]) :
                worker[x].pc = "pop" /\ pending'[n] = out[2]
  <1>1. CASE \E m \in Node : Crash(m)
    BY <1>1 DEF Crash, TypeOK
  <1>2. CASE \E w \in Writer : WriteEnqueue(w)
    <2>1. PICK w \in Writer : WriteEnqueue(w)
      BY <1>2
    <2>2. write[w].node \in Node /\ write[w].addr \in Addr
      BY <2>1, BusyType DEF WriteEnqueue
    <2> QED
      BY <2>1, <2>2 DEF WriteEnqueue, TypeOK
  <1>3. CASE \E x \in Node \X SubThread : WorkerRequeue(x)
    <2>1. PICK x \in Node \X SubThread : WorkerRequeue(x)
      BY <1>3
    <2>2. x[1] \in Node /\ worker[x].addr \in Addr
      BY <2>1, BusyType DEF WorkerRequeue
    <2> QED
      BY <2>1, <2>2 DEF WorkerRequeue, TypeOK
  <1>4. CASE \E x \in Node \X SubThread : WorkerPop(x)
    <2>1. PICK x \in Node \X SubThread : WorkerPop(x)
      BY <1>4
    <2>2. PICK out \in PopOutcomes(pending[x[1]]) :
            pending' = [pending EXCEPT ![x[1]] = out[2]]
      BY <2>1 DEF WorkerPop
    <2>3. x[1] \in Node /\ worker[x].pc = "pop"
      BY <2>1 DEF WorkerPop
    <2>4. n = x[1] => x \in {n} \X SubThread /\ pending'[n] = out[2]
      BY <2>2, <2>3 DEF TypeOK
    <2> QED
      BY <2>2, <2>3, <2>4 DEF TypeOK
  <1>5. CASE pending' = pending
    BY <1>5
  <1>6. CASE \E m \in Node : \/ Start(m) \/ HeartBeat(m) \/ HeartBeatMissed(m)
                             \/ Break(m) \/ Consumer(m)
    BY <1>5, <1>6 DEF Start, HeartBeat, HeartBeatMissed, Break, Consumer,
                      ConsumerDrain, ConsumerJoin, replica
  <1>7. CASE \E w \in Writer : WriteArrives(w) \/ WriteStep(w)
    BY <1>2, <1>5, <1>7
       DEF WriteArrives, WriteAlone, WriteMirrored, WriteStep,
           WriteReplicated, WriteRejected, WriteCommitFailed, WriteCommitted,
           WriteCommitOp, WriteValid, WriteAloneCommitted, replica
  <1>8. CASE \E r \in rpc : Serve(r) \/ Unreachable(r)
    BY <1>5, <1>8 DEF Serve, ServeReplicate, ServeCommit, ServeCommitOp,
                      Unreachable, replica
  <1>9. CASE \E x \in Node \X SubThread : Worker(x)
    BY <1>3, <1>4, <1>5, <1>9 DEF Worker, WorkerCheck, WorkerRead,
                                  WorkerReplicated, WorkerCommitted
  <1>10. CASE \E c \in Checker : CheckArrives(c) \/ CheckStep(c)
    BY <1>5, <1>10 DEF CheckArrives, CheckLocal, CheckStep, CheckRemote,
                       CheckAnswer, replica
  <1>11. CASE UNCHANGED vars
    BY <1>5, <1>11 DEF vars, replica
  <1> QED
    BY <1>1, <1>6, <1>7, <1>8, <1>9, <1>10, <1>11 DEF Next

\* Until it is popped empty, the queue holds exactly the addresses of the map, each
\* once, for any number of sub-threads that pop and requeue, any writes, crashes
\* and failed calls.
THEOREM QueueMatchesMap == Spec => []QueueCoherent
  <1>1. QueueCoherent <=> \A n \in Node : Coherent(pending[n])
    BY DEF QueueCoherent, Coherent
  <1>2. QueueCoherent' <=> \A n \in Node : Coherent(pending'[n])
    BY DEF QueueCoherent, Coherent
  <1>3. Init => QueueCoherent
    BY DEF Init, QueueCoherent, Waiting, NoPending
  <1>4. ASSUME TypeOK, QueueCoherent, [Next]_vars
        PROVE  QueueCoherent'
    <2> SUFFICES ASSUME NEW n \in Node
                 PROVE  Coherent(pending'[n])
      BY <1>2
    <2>1. Coherent(pending[n]) /\ pending[n] \in Pending
      BY <1>1, <1>4 DEF TypeOK
    <2>2. Coherent(NoPending)
      BY DEF Coherent, Waiting, NoPending
    <2> QED
      BY <1>4, <2>1, <2>2, PendingStep, AddKeeps, PopKeeps
  <1> QED
    BY <1>3, <1>4, TypeCorrect, PTL DEF Spec

=============================================================================

---------------------------- MODULE Replication -----------------------------
(***************************************************************************)
(* The mirrored pair: two HafsImpl servers (server.cc), each with its      *)
(* block files, its Replicator (replicator.h) and the HafsClient through   *)
(* which it calls the other (client_impl.h).                               *)
(*                                                                         *)
(* A client Write locks its blocks, stages and commits on the other mirror *)
(* with two RPCs, and commits locally; while the other mirror looks dead   *)
(* it commits locally only and queues the address.  A consumer thread per  *)
(* node replays the queue with numCPU sub-threads once the other is back.  *)
(*                                                                         *)
(* A process is down, or up with all its threads.  A crash loses the       *)
(* memory and keeps the files.  A call is a record in rpc from the moment  *)
(* it is sent until its reply is consumed; a caller whose call is gone     *)
(* sees a failed Status.  No call has a deadline.                          *)
(*                                                                         *)
(* The health a Replicator reports steers clients, never the data: module  *)
(* Failover adds it to these actions.                                      *)
(***************************************************************************)
EXTENDS BlockStore, FiniteSets

CONSTANTS
    Primary, Backup, \* the two nodes
    WriteTo,         \* the nodes clients send Write to
    Writer,          \* the Write calls that can be in progress at once
    Payload,         \* what clients write
    SubThread,       \* the numCPU sub-threads of a node's consumer
    Checker,         \* the CheckConsistancy calls in progress at once
    MaxCrashes,      \* bound: crashes of either process
    MaxBreaks        \* bound: connections broken, heartbeats missed

Node == {Primary, Backup}

ASSUME NodeAssumption == Primary # Backup /\ WriteTo \subseteq Node
ASSUME PayloadAssumption == Payload \subseteq Content
ASSUME BoundAssumption == MaxCrashes \in Nat /\ MaxBreaks \in Nat

\* The threads that call the other mirror.
Caller == Writer \cup (Node \X SubThread)

ASSUME CallerAssumption ==
    None \notin Caller /\ Writer \cap (Node \X SubThread) = {}

VARIABLES
    up,       \* the process is running
    store,    \* its block files
    locked,   \* the block mutexes held, as <<node, block>>
    isAlive,  \* otherMirrorClient.isAlive, as of the last heartbeat
    pending,  \* the Replicator's queue and map
    consumer, \* what the consumer thread is doing
    worker,   \* the consumer's sub-threads
    write,    \* the Write handlers
    check,    \* the CheckConsistancy handlers
    rpc,      \* the calls between the mirrors
    crashes, breaks, \* how much of the bounds is used
    suspect   \* history: blocks something may have set apart (see below)

server  == <<up, store, locked>>
replica == <<isAlive, pending, consumer, worker>>
bounds  == <<crashes, breaks>>
vars    == <<server, replica, write, check, rpc, bounds, suspect>>

Peer(n) == IF n = Primary THEN Backup ELSE Primary

NoWrite   == [pc |-> "idle", node |-> Primary, addr |-> None,
              data |-> None, todo |-> <<>>]
NoCheck   == [pc |-> "idle", node |-> Primary, addr |-> None,
              data |-> None, remote |-> None]
NoWork    == [pc |-> "done", addr |-> None]
NoPending == [queue |-> <<>>, map |-> {}, underflow |-> FALSE]

WriteState ==
    {NoWrite} \cup
    [pc : {"replicate", "commitRemote", "commit", "commitAlone", "enqueue"},
     node : Node, addr : Addr, data : Payload, todo : Seq(FileOp)]

CheckState ==
    {NoCheck} \cup
    [pc : {"read"}, node : Node, addr : Addr, data : Content,
     remote : {None}] \cup
    [pc : {"compare"}, node : Node, addr : Addr, data : Content,
     remote : Content \cup {None}]

WorkerState ==
    [pc : {"done", "check", "pop"}, addr : {None}] \cup
    [pc : {"read", "replicate", "commitRemote"}, addr : Addr]

Pending == [queue : Seq(Addr), map : SUBSET Addr, underflow : BOOLEAN]

\* A call whose caller is None runs on with nobody waiting for its reply.
Call ==
    [caller : Caller \cup {None}, dest : Node, op : {"ReplicateBlock"},
     addr : Addr, data : Content, st : {"sent", "done"}, todo : {<<>>}] \cup
    [caller : Caller \cup {None}, dest : Node, op : {"CommitBlock"},
     addr : Addr, data : {None}, st : {"sent", "commit", "done"},
     todo : Seq(FileOp)]

TypeOK ==
    /\ up \in [Node -> BOOLEAN]
    /\ store \in [Node -> Store]
    /\ locked \subseteq Node \X Block
    /\ isAlive \in [Node -> BOOLEAN]
    /\ pending \in [Node -> Pending]
    /\ consumer \in [Node -> {"loop", "drain"}]
    /\ worker \in [Node \X SubThread -> WorkerState]
    /\ write \in [Writer -> WriteState]
    /\ check \in [Checker -> CheckState]
    /\ rpc \subseteq Call
    /\ crashes \in 0..MaxCrashes
    /\ breaks \in 0..MaxBreaks
    /\ suspect \subseteq Block

Init ==
    /\ up = [n \in Node |-> FALSE]
    /\ store = [n \in Node |-> EmptyStore]
    /\ locked = {}
    /\ isAlive = [n \in Node |-> FALSE]
    /\ pending = [n \in Node |-> NoPending]
    /\ consumer = [n \in Node |-> "loop"]
    /\ worker = [x \in Node \X SubThread |-> NoWork]
    /\ write = [w \in Writer |-> NoWrite]
    /\ check = [c \in Checker |-> NoCheck]
    /\ rpc = {}
    /\ crashes = 0 /\ breaks = 0
    /\ suspect = {}

-----------------------------------------------------------------------------
(* Locks, calls and the queue.                                             *)

\* lockAddress: both mutexes are taken in one step.  (The code takes the
\* second while it holds the first, always in ascending order.)
Unlocked(n, addr) == \A b \in BlocksOf(addr) : <<n, b>> \notin locked
Locks(n, addr) == {n} \X BlocksOf(addr)

Sent(c, n, op, addr, data) ==
    [caller |-> c, dest |-> Peer(n), op |-> op, addr |-> addr, data |-> data,
     st |-> "sent", todo |-> IF op = "CommitBlock" THEN Commit(addr) ELSE <<>>]

Acked(c)  == \E r \in rpc : r.caller = c /\ r.st = "done"
Failed(c) == \A r \in rpc : r.caller # c
Settled(c) == {r \in rpc : r.caller # c}

\* The addresses in the queue.
Waiting(p) == {p.queue[i] : i \in DOMAIN p.queue}

\* push and insert, into the queue and the map.
Push(p, addr) == [p EXCEPT !.queue = Append(@, addr), !.map = @ \cup {addr}]

\* Once the queue was popped empty, its window may be inverted: what is pushed
\* falls outside of it, and only the map has it.
PushOutside(p, addr) ==
    IF p.underflow THEN {[p EXCEPT !.map = @ \cup {addr}]} ELSE {}

\* Mutant: pushes without looking in the map.
AddPendingBlockTwice(p, addr) == {Push(p, addr)}

\* What may become of a queue when addr is added to it.
AddPendingBlock(p, addr) ==
    IF addr \in p.map THEN {p} ELSE {Push(p, addr)} \cup PushOutside(p, addr)

\* The blocks of an address that was added to a queue and is not in it.
Dropped(p, addr) == IF addr \in Waiting(p) THEN {} ELSE BlocksOf(addr)

\* queue.empty(), read without queueLock.
MayLookEmpty(p)    == p.queue = <<>>
MayLookNonEmpty(p) == p.queue # <<>> \/ p.underflow

\* Mutant: the address stays in the map.
PopKeepsMap(p) == IF p.queue = <<>> THEN {<<a, p>> : a \in Addr}
                  ELSE {<<Head(p.queue), [p EXCEPT !.queue = Tail(@)]>>}

\* front() and pop() under queueLock.  On an empty queue front() returns
\* whatever the memory holds and pop() moves the window's start past its end.
PopOutcomes(p) ==
    IF p.queue # <<>>
    THEN {<<Head(p.queue), [p EXCEPT !.queue = Tail(@),
                                     !.map = @ \ {Head(p.queue)}]>>}
    ELSE {<<a, [p EXCEPT !.map = @ \ {a}, !.underflow = TRUE]>> : a \in Addr}

-----------------------------------------------------------------------------
(* The history variable.  A block becomes suspect when something happens   *)
(* that may set its two copies apart for good: two operations that touch   *)
(* it overlap, a CommitBlock fails, a crash interrupts a commit or loses a *)
(* queued address, or a queue that was popped empty drops one.  The code   *)
(* has no such variable and no action reads it; MirrorsAgree says that     *)
(* nothing else sets the mirrors apart.                                    *)

Writing(b) ==
    {w \in Writer : write[w].pc # "idle" /\ b \in BlocksOf(write[w].addr)}
Replaying(b) ==
    {x \in Node \X SubThread :
       worker[x].addr # None /\ b \in BlocksOf(worker[x].addr)}
Abandoned(b) == {r \in rpc : r.caller = None /\ b \in BlocksOf(r.addr)}

Busy(b) == Writing(b) # {} \/ Replaying(b) # {} \/ Abandoned(b) # {}

\* The blocks of addr another operation is busy with, but for harmless writes
\* and replays.
Overlap(addr, writes, replays) ==
    {b \in BlocksOf(addr) : \/ Writing(b) \ writes # {}
                            \/ Replaying(b) \ replays # {}
                            \/ Abandoned(b) # {}}

\* A local write and this node's replay of the same address may overlap: the
\* write queues the address again.
RequeuingWrites(n, addr) ==
    {w \in Writer : /\ write[w].pc \in {"commitAlone", "enqueue"}
                    /\ write[w].node = n /\ write[w].addr = addr}
OwnReplays(n, addr) ==
    {x \in {n} \X SubThread : worker[x].addr = addr}

LostInCrash(n) ==
    LET atRisk == {"commitRemote", "commit", "commitAlone", "enqueue"}
        queued == Waiting(pending[n])
        inHand == {worker[<<n, t>>].addr : t \in SubThread} \ {None}
        writing == {write[w].addr : w \in {v \in Writer :
                      write[v].node = n /\ write[v].pc \in atRisk}}
        serving == {r.addr : r \in {q \in rpc :
                      /\ q.dest = n /\ q.st = "commit"
                      /\ q.caller \in Node \X SubThread => ~IsAlligned(q.addr)}}
    IN  UNION {BlocksOf(a) : a \in queued \cup inHand \cup writing \cup serving}

-----------------------------------------------------------------------------
(* Processes and heartbeats.                                               *)

\* main: the HafsClient constructor makes the first heartbeat itself.
Start(n) ==
    /\ ~up[n]
    /\ up' = [up EXCEPT ![n] = TRUE]
    /\ isAlive' = [isAlive EXCEPT ![n] = up[Peer(n)]]
    /\ UNCHANGED <<store, locked, pending, consumer, worker, write,
                   check, rpc, bounds, suspect>>

\* startHeartBeat's loop: once a second, ordered with nothing else.
HeartBeat(n) ==
    /\ up[n]
    /\ isAlive' = [isAlive EXCEPT ![n] = up[Peer(n)]]
    /\ UNCHANGED <<server, pending, consumer, worker, write, check,
                   rpc, bounds, suspect>>

\* The heartbeat fails although the other process runs.
HeartBeatMissed(n) ==
    /\ up[n] /\ up[Peer(n)]
    /\ breaks < MaxBreaks
    /\ breaks' = breaks + 1
    /\ isAlive' = [isAlive EXCEPT ![n] = FALSE]
    /\ UNCHANGED <<server, pending, consumer, worker, write, check,
                   rpc, crashes, suspect>>

\* The calls n is waiting for.
Outstanding(n) == {r \in rpc : r.dest = Peer(n) /\ r.caller # None}

\* n's side of its calls goes away.  Those in lost never reach the other
\* mirror; the rest run there with nobody waiting for their reply.
Abandon(n, lost) ==
    (rpc \ Outstanding(n))
      \cup {[r EXCEPT !.caller = None] :
              r \in {q \in Outstanding(n) : q.st # "done"} \ lost}

Undelivered(n) == {r \in Outstanding(n) : r.st = "sent"}

\* The checks of n that wait for the Read they sent, and those whose Read was
\* served: its reply may still be on its way.
Unread(n)  == {c \in Checker : check[c].pc = "read" /\ check[c].node = n}
Replied(n) == {c \in Checker : check[c].pc = "compare" /\ check[c].node = n}

\* When its Read fails, what a check has of the other copy stays empty.
ReadFails(k) == [k EXCEPT !.pc = "compare", !.remote = None]

\* The connection from n breaks under its calls: each caller sees an error,
\* whatever became of its call.
Break(n) ==
    /\ up[n]
    /\ Outstanding(n) # {} \/ Unread(n) # {} \/ Replied(n) # {}
    /\ breaks < MaxBreaks
    /\ breaks' = breaks + 1
    /\ \E lost \in SUBSET Undelivered(n) : rpc' = Abandon(n, lost)
    /\ \E late \in SUBSET Replied(n) :
         check' = [c \in Checker |->
                     IF c \in Unread(n) \cup late THEN ReadFails(check[c])
                                                 ELSE check[c]]
    /\ UNCHANGED <<server, replica, write, crashes, suspect>>

\* exit or kill: the files survive, everything else of n is gone.  The calls
\* n was serving fail, unless their reply had already left.
Crash(n) ==
    /\ up[n]
    /\ crashes < MaxCrashes
    /\ crashes' = crashes + 1
    /\ up' = [up EXCEPT ![n] = FALSE]
    /\ locked' = {l \in locked : l[1] # n}
    /\ isAlive' = [isAlive EXCEPT ![n] = FALSE]
    /\ pending' = [pending EXCEPT ![n] = NoPending]
    /\ consumer' = [consumer EXCEPT ![n] = "loop"]
    /\ worker' = [x \in Node \X SubThread |->
                    IF x[1] = n THEN NoWork ELSE worker[x]]
    /\ write' = [w \in Writer |->
                   IF write[w].node = n THEN NoWrite ELSE write[w]]
    /\ \E late \in SUBSET Replied(Peer(n)) :
         check' = [c \in Checker |->
                     IF check[c].node = n THEN NoCheck
                     ELSE IF c \in Unread(Peer(n)) \cup late
                          THEN ReadFails(check[c]) ELSE check[c]]
    /\ \E lost \in SUBSET Undelivered(n),
          late \in SUBSET {r \in rpc : r.dest = n /\ r.st = "done"} :
         rpc' = {r \in Abandon(n, lost) : r.dest = n => r \in late}
    /\ suspect' = suspect \cup LostInCrash(n)
    /\ UNCHANGED <<store, breaks>>

\* A call to a process that is down fails at once.
Unreachable(r) ==
    /\ r \in rpc
    /\ r.st = "sent" /\ ~up[r.dest]
    /\ rpc' = rpc \ {r}
    /\ UNCHANGED <<server, replica, write, check, bounds, suspect>>

-----------------------------------------------------------------------------
(* HafsImpl::Write.                                                        *)

\* The lock is free and the other mirror looks dead: stage here.
WriteAlone(w, n, addr, data) ==
    /\ write[w].pc = "idle"
    /\ up[n] /\ Unlocked(n, addr)
    /\ ~isAlive[n]
    /\ locked' = locked \cup Locks(n, addr)
    /\ store' = [store EXCEPT ![n] = Write(@, addr, data)]
    /\ write' = [write EXCEPT ![w] =
                   [pc |-> "commitAlone", node |-> n, addr |-> addr,
                    data |-> data, todo |-> Commit(addr)]]
    /\ suspect' = suspect \cup Overlap(addr, {}, OwnReplays(n, addr))
    /\ UNCHANGED <<up, replica, check, rpc, bounds>>

\* The lock is free and the other mirror looks alive: call it first.
WriteMirrored(w, n, addr, data) ==
    /\ write[w].pc = "idle"
    /\ up[n] /\ Unlocked(n, addr)
    /\ isAlive[n]
    /\ locked' = locked \cup Locks(n, addr)
    /\ rpc' = rpc \cup {Sent(w, n, "ReplicateBlock", addr, data)}
    /\ write' = [write EXCEPT ![w] =
                   [pc |-> "replicate", node |-> n, addr |-> addr,
                    data |-> data, todo |-> <<>>]]
    /\ suspect' = suspect \cup Overlap(addr, {}, {})
    /\ UNCHANGED <<up, store, replica, check, bounds>>

\* ReplicateBlock succeeded: stage here, then call CommitBlock.
WriteReplicated(w) ==
    LET n == write[w].node
        addr == write[w].addr
    IN  /\ write[w].pc = "replicate" /\ Acked(w)
        /\ store' = [store EXCEPT ![n] = Write(@, addr, write[w].data)]
        /\ rpc' = Settled(w) \cup {Sent(w, n, "CommitBlock", addr, None)}
        /\ write' = [write EXCEPT ![w].pc = "commitRemote"]
        /\ UNCHANGED <<up, locked, replica, check, bounds, suspect>>

\* Mutant: the return path forgets unlockAddress.
WriteRejectedLocked(w) ==
    /\ write[w].pc = "replicate" /\ Failed(w)
    /\ write' = [write EXCEPT ![w] = NoWrite]
    /\ UNCHANGED <<server, replica, check, rpc, bounds, suspect>>

\* ReplicateBlock failed: INVALID, nothing staged, nothing queued.
WriteRejected(w) ==
    LET n == write[w].node
    IN  /\ write[w].pc = "replicate" /\ Failed(w)
        /\ locked' = locked \ Locks(n, write[w].addr)
        /\ write' = [write EXCEPT ![w] = NoWrite]
        /\ UNCHANGED <<up, store, replica, check, rpc, bounds, suspect>>

\* CommitBlock failed: INVALID, not committed here, nothing queued.
WriteCommitFailed(w) ==
    LET n == write[w].node
    IN  /\ write[w].pc = "commitRemote" /\ Failed(w)
        /\ locked' = locked \ Locks(n, write[w].addr)
        /\ write' = [write EXCEPT ![w] = NoWrite]
        /\ suspect' = suspect \cup BlocksOf(write[w].addr)
        /\ UNCHANGED <<up, store, replica, check, rpc, bounds>>

WriteCommitted(w) ==
    /\ write[w].pc = "commitRemote" /\ Acked(w)
    /\ rpc' = Settled(w)
    /\ write' = [write EXCEPT ![w].pc = "commit",
                              ![w].todo = Commit(write[w].addr)]
    /\ UNCHANGED <<server, replica, check, bounds, suspect>>

\* One file operation of the local commit, but the last.
WriteCommitOp(w) ==
    LET n == write[w].node
    IN  /\ write[w].pc \in {"commit", "commitAlone"}
        /\ Len(write[w].todo) > 1
        /\ store' = [store EXCEPT ![n] = Apply(@, Head(write[w].todo))]
        /\ write' = [write EXCEPT ![w].todo = Tail(@)]
        /\ UNCHANGED <<up, locked, replica, check, rpc, bounds, suspect>>

\* The last file operation of a mirrored write: VALID, and unlock.
WriteValid(w) ==
    LET n == write[w].node
    IN  /\ write[w].pc = "commit" /\ Len(write[w].todo) = 1
        /\ store' = [store EXCEPT ![n] = Apply(@, Head(write[w].todo))]
        /\ locked' = locked \ Locks(n, write[w].addr)
        /\ write' = [write EXCEPT ![w] = NoWrite]
        /\ UNCHANGED <<up, replica, check, rpc, bounds, suspect>>

WriteAloneCommitted(w) ==
    LET n == write[w].node
    IN  /\ write[w].pc = "commitAlone" /\ Len(write[w].todo) = 1
        /\ store' = [store EXCEPT ![n] = Apply(@, Head(write[w].todo))]
        /\ write' = [write EXCEPT ![w].pc = "enqueue", ![w].todo = <<>>]
        /\ UNCHANGED <<up, locked, replica, check, rpc, bounds, suspect>>

\* addPendingBlock, VALID, and unlock.
WriteEnqueue(w) ==
    LET n == write[w].node
    IN  /\ write[w].pc = "enqueue"
        /\ \E p \in AddPendingBlock(pending[n], write[w].addr) :
             /\ pending' = [pending EXCEPT ![n] = p]
             /\ suspect' = suspect \cup Dropped(p, write[w].addr)
        /\ locked' = locked \ Locks(n, write[w].addr)
        /\ write' = [write EXCEPT ![w] = NoWrite]
        /\ UNCHANGED <<up, store, isAlive, consumer, worker, check, rpc,
                       bounds>>

WriteStep(w) ==
    \/ WriteReplicated(w) \/ WriteRejected(w)
    \/ WriteCommitFailed(w) \/ WriteCommitted(w)
    \/ WriteCommitOp(w) \/ WriteValid(w)
    \/ WriteAloneCommitted(w) \/ WriteEnqueue(w)

WriteArrives(w) ==
    \E n \in WriteTo, addr \in Addr, data \in Payload :
        WriteAlone(w, n, addr, data) \/ WriteMirrored(w, n, addr, data)

-----------------------------------------------------------------------------
(* HafsImpl::ReplicateBlock and CommitBlock, on the called mirror.         *)

\* Nobody waits for the reply of an abandoned call.
Reply(r) == (rpc \ {r})
              \cup (IF r.caller = None THEN {}
                    ELSE {[r EXCEPT !.st = "done", !.todo = <<>>]})

\* Mutant: forgets unlockAddress.
ServeReplicateLocked(r) ==
    /\ r \in rpc
    /\ r.op = "ReplicateBlock" /\ r.st = "sent"
    /\ up[r.dest] /\ Unlocked(r.dest, r.addr)
    /\ locked' = locked \cup Locks(r.dest, r.addr)
    /\ store' = [store EXCEPT ![r.dest] = Write(@, r.addr, r.data)]
    /\ rpc' = Reply(r)
    /\ UNCHANGED <<up, replica, write, check, bounds, suspect>>

\* Lock, stage, unlock: only a commit under the same lock shows what is
\* staged, so the three are one step.
ServeReplicate(r) ==
    /\ r \in rpc
    /\ r.op = "ReplicateBlock" /\ r.st = "sent"
    /\ up[r.dest] /\ Unlocked(r.dest, r.addr)
    /\ store' = [store EXCEPT ![r.dest] = Write(@, r.addr, r.data)]
    /\ rpc' = Reply(r)
    /\ UNCHANGED <<up, locked, replica, write, check, bounds, suspect>>

\* Mutant: commits without waiting for the lock.
ServeCommitUnlocked(r) ==
    /\ r \in rpc
    /\ r.op = "CommitBlock" /\ r.st = "sent" /\ up[r.dest]
    /\ locked' = locked \cup Locks(r.dest, r.addr)
    /\ rpc' = (rpc \ {r}) \cup {[r EXCEPT !.st = "commit"]}
    /\ UNCHANGED <<up, store, replica, write, check, bounds, suspect>>

ServeCommit(r) ==
    /\ r \in rpc
    /\ r.op = "CommitBlock" /\ r.st = "sent"
    /\ up[r.dest] /\ Unlocked(r.dest, r.addr)
    /\ locked' = locked \cup Locks(r.dest, r.addr)
    /\ rpc' = (rpc \ {r}) \cup {[r EXCEPT !.st = "commit"]}
    /\ UNCHANGED <<up, store, replica, write, check, bounds, suspect>>

\* One file operation of the commit; after the last, unlock and reply.
ServeCommitOp(r) ==
    /\ r \in rpc
    /\ r.st = "commit" /\ r.todo # <<>>
    /\ store' = [store EXCEPT ![r.dest] = Apply(@, Head(r.todo))]
    /\ \/ /\ Len(r.todo) > 1
          /\ rpc' = (rpc \ {r}) \cup {[r EXCEPT !.todo = Tail(@)]}
          /\ UNCHANGED locked
       \/ /\ Len(r.todo) = 1
          /\ rpc' = Reply(r)
          /\ locked' = locked \ Locks(r.dest, r.addr)
    /\ UNCHANGED <<up, replica, write, check, bounds, suspect>>

Serve(r) == ServeReplicate(r) \/ ServeCommit(r) \/ ServeCommitOp(r)

-----------------------------------------------------------------------------
(* Replicator::consumer and consumerSubThread.                             *)

\* A round of the loop that finds the other mirror alive and the queue not
\* empty starts the sub-threads.  The other rounds only set the health.
ConsumerDrain(n) ==
    /\ up[n] /\ consumer[n] = "loop"
    /\ isAlive[n] /\ MayLookNonEmpty(pending[n])
    /\ consumer' = [consumer EXCEPT ![n] = "drain"]
    /\ worker' = [x \in Node \X SubThread |->
                    IF x[1] = n THEN [NoWork EXCEPT !.pc = "check"]
                                ELSE worker[x]]
    /\ UNCHANGED <<server, isAlive, pending, write, check, rpc, bounds, suspect>>

ConsumerJoin(n) ==
    /\ consumer[n] = "drain"
    /\ \A t \in SubThread : worker[<<n, t>>].pc = "done"
    /\ consumer' = [consumer EXCEPT ![n] = "loop"]
    /\ UNCHANGED <<server, isAlive, pending, worker, write, check, rpc,
                   bounds, suspect>>

Consumer(n) == ConsumerDrain(n) \/ ConsumerJoin(n)

\* Mutant: pops before it looks.
WorkerCheckNot(x) ==
    /\ worker[x].pc = "check"
    /\ worker' = [worker EXCEPT ![x].pc = "pop"]
    /\ UNCHANGED <<server, isAlive, pending, consumer, write, check, rpc,
                   bounds, suspect>>

\* The loop condition, read without queueLock ...
WorkerCheck(x) ==
    /\ worker[x].pc = "check"
    /\ \/ MayLookNonEmpty(pending[x[1]])
          /\ worker' = [worker EXCEPT ![x].pc = "pop"]
       \/ MayLookEmpty(pending[x[1]])
          /\ worker' = [worker EXCEPT ![x] = NoWork]
    /\ UNCHANGED <<server, isAlive, pending, consumer, write, check,
                   rpc, bounds, suspect>>

\* ... and the pop that relies on it.
WorkerPop(x) ==
    /\ worker[x].pc = "pop"
    /\ \E out \in PopOutcomes(pending[x[1]]) :
         /\ pending' = [pending EXCEPT ![x[1]] = out[2]]
         /\ worker' = [worker EXCEPT ![x] = [pc |-> "read", addr |-> out[1]]]
         /\ suspect' = suspect
              \cup Overlap(out[1], RequeuingWrites(x[1], out[1]), {})
    /\ UNCHANGED <<server, isAlive, consumer, write, check, rpc, bounds>>

\* Read without a lock, then call ReplicateBlock with what was read.
WorkerRead(x) ==
    LET n == x[1]
        addr == worker[x].addr
    IN  /\ worker[x].pc = "read"
        /\ rpc' = rpc \cup {Sent(x, n, "ReplicateBlock", addr,
                                 Read(store[n].blk, addr))}
        /\ worker' = [worker EXCEPT ![x].pc = "replicate"]
        /\ UNCHANGED <<server, isAlive, pending, consumer, write, check,
                       bounds, suspect>>

WorkerReplicated(x) ==
    /\ worker[x].pc = "replicate" /\ Acked(x)
    /\ rpc' = Settled(x)
                \cup {Sent(x, x[1], "CommitBlock", worker[x].addr, None)}
    /\ worker' = [worker EXCEPT ![x].pc = "commitRemote"]
    /\ UNCHANGED <<server, isAlive, pending, consumer, write, check,
                   bounds, suspect>>

WorkerCommitted(x) ==
    /\ worker[x].pc = "commitRemote" /\ Acked(x)
    /\ rpc' = Settled(x)
    /\ worker' = [worker EXCEPT ![x] = [NoWork EXCEPT !.pc = "check"]]
    /\ UNCHANGED <<server, isAlive, pending, consumer, write, check,
                   bounds, suspect>>

\* Mutant: a failed call is not requeued.
WorkerForgets(x) ==
    /\ worker[x].pc \in {"replicate", "commitRemote"} /\ Failed(x)
    /\ worker' = [worker EXCEPT ![x] = [NoWork EXCEPT !.pc = "check"]]
    /\ UNCHANGED <<server, isAlive, pending, consumer, write, check, rpc,
                   bounds, suspect>>

\* Either call failed: requeue.
WorkerRequeue(x) ==
    /\ worker[x].pc \in {"replicate", "commitRemote"} /\ Failed(x)
    /\ \E p \in AddPendingBlock(pending[x[1]], worker[x].addr) :
         /\ pending' = [pending EXCEPT ![x[1]] = p]
         /\ suspect' = suspect \cup Dropped(p, worker[x].addr)
    /\ worker' = [worker EXCEPT ![x] = [NoWork EXCEPT !.pc = "check"]]
    /\ UNCHANGED <<server, isAlive, consumer, write, check, rpc, bounds>>

Worker(x) ==
    \/ WorkerCheck(x) \/ WorkerPop(x) \/ WorkerRead(x)
    \/ WorkerReplicated(x) \/ WorkerCommitted(x) \/ WorkerRequeue(x)

-----------------------------------------------------------------------------
(* HafsImpl::CheckConsistancy.                                             *)

\* Mutant: no lock, like Read.
CheckLocalUnlocked(c, n, addr) ==
    /\ check[c].pc = "idle" /\ up[n]
    /\ check' = [check EXCEPT ![c] =
                   [pc |-> "read", node |-> n, addr |-> addr,
                    data |-> Read(store[n].blk, addr), remote |-> None]]
    /\ UNCHANGED <<server, replica, write, rpc, bounds, suspect>>

\* Lock, read here, and call Read of the other mirror.
CheckLocal(c, n, addr) ==
    /\ check[c].pc = "idle"
    /\ up[n] /\ Unlocked(n, addr)
    /\ locked' = locked \cup Locks(n, addr)
    /\ check' = [check EXCEPT ![c] =
                   [pc |-> "read", node |-> n, addr |-> addr,
                    data |-> Read(store[n].blk, addr), remote |-> None]]
    /\ UNCHANGED <<up, store, replica, write, rpc, bounds, suspect>>

\* A Read takes no lock.
ServeRead(n, addr) == Read(store[n].blk, addr)

\* A call to a process that is down fails at once.
RemoteRead(n, addr) ==
    IF up[Peer(n)] THEN ServeRead(Peer(n), addr) ELSE None

\* The other mirror serves the Read, and may commit what it likes before its
\* reply is looked at.
CheckRemote(c) ==
    /\ check[c].pc = "read"
    /\ check' = [check EXCEPT
                   ![c].pc = "compare",
                   ![c].remote = RemoteRead(check[c].node, check[c].addr)]
    /\ UNCHANGED <<server, replica, write, rpc, bounds, suspect>>

\* The checksums of the data and of what the Read brought back.
CheckVerdict(k) == IF k.data = k.remote THEN "VALID" ELSE "INVALID"

\* Unlock, and answer with the verdict.
CheckAnswer(c) ==
    /\ check[c].pc = "compare"
    /\ locked' = locked \ Locks(check[c].node, check[c].addr)
    /\ check' = [check EXCEPT ![c] = NoCheck]
    /\ UNCHANGED <<up, store, replica, write, rpc, bounds, suspect>>

CheckArrives(c) == \E n \in Node, addr \in Addr : CheckLocal(c, n, addr)

CheckStep(c) == CheckRemote(c) \/ CheckAnswer(c)

-----------------------------------------------------------------------------
Next ==
    \/ \E n \in Node : Start(n) \/ HeartBeat(n) \/ HeartBeatMissed(n)
                         \/ Break(n) \/ Crash(n) \/ Consumer(n)
    \/ \E w \in Writer : WriteArrives(w) \/ WriteStep(w)
    \/ \E r \in rpc : Serve(r) \/ Unreachable(r)
    \/ \E x \in Node \X SubThread : Worker(x)
    \/ \E c \in Checker : CheckArrives(c) \/ CheckStep(c)

Spec == Init /\ [][Next]_vars

\* Every thread is scheduled, every heartbeat comes round again, and a
\* process that crashed is started again.  Clients need not call.
Fairness ==
    /\ \A n \in Node : WF_vars(Start(n)) /\ WF_vars(HeartBeat(n))
                         /\ WF_vars(Consumer(n))
    /\ \A w \in Writer : WF_vars(WriteStep(w))
    /\ \A x \in Node \X SubThread : WF_vars(Worker(x))
    /\ \A c \in Caller \cup {None} :
         WF_vars(\E r \in rpc : r.caller = c /\ (Serve(r) \/ Unreachable(r)))
    /\ \A c \in Checker : WF_vars(CheckStep(c))

FairSpec == Spec /\ Fairness

-----------------------------------------------------------------------------
(* Properties.                                                             *)

WriteLocks(w) == IF write[w].pc = "idle" THEN {}
                 ELSE Locks(write[w].node, write[w].addr)
CheckLocks(c) == IF check[c].pc = "idle" THEN {}
                 ELSE Locks(check[c].node, check[c].addr)
CallLocks(r)  == IF r.st = "commit" THEN Locks(r.dest, r.addr) ELSE {}

\* Every mutex that is locked is held by a handler that will still unlock it:
\* no return path of Write, CommitBlock or CheckConsistancy leaks a lock.
NoLockLeaked ==
    locked = UNION ({WriteLocks(w) : w \in Writer}
                      \cup {CheckLocks(c) : c \in Checker}
                      \cup {CallLocks(r) : r \in rpc})

\* No two handlers hold the same block's mutex on the same node: no return
\* path unlocks a mutex that is not its own.
LocksExclusive ==
    /\ \A w1, w2 \in Writer : w1 # w2 => WriteLocks(w1) \cap WriteLocks(w2) = {}
    /\ \A c1, c2 \in Checker :
         c1 # c2 => CheckLocks(c1) \cap CheckLocks(c2) = {}
    /\ \A r1, r2 \in rpc : r1 # r2 => CallLocks(r1) \cap CallLocks(r2) = {}
    /\ \A w \in Writer, c \in Checker : WriteLocks(w) \cap CheckLocks(c) = {}
    /\ \A w \in Writer, r \in rpc : WriteLocks(w) \cap CallLocks(r) = {}
    /\ \A c \in Checker, r \in rpc : CheckLocks(c) \cap CallLocks(r) = {}

\* The queue of pending addresses and the map that keeps duplicates out of it
\* say the same, through pops, requeues and crashes.
QueueCoherent ==
    \A n \in Node :
      LET q == pending[n].queue
      IN  ~pending[n].underflow =>
            /\ Waiting(pending[n]) = pending[n].map
            /\ \A i, j \in DOMAIN q : q[i] = q[j] => i = j

\* The bytes a queued address covers.
Queued(x) == \E n \in Node : \E a \in Waiting(pending[n]) : x - a \in Offset

\* The block past INT_MAX that an address in the last block reaches into: there
\* a write zeroes the bytes it does not cover, and no queued address covers
\* them.
PastIntMax(b) == b * BLOCK_SIZE > INT_MAX

\* The mirrors hold the same bytes wherever no operation is under way, but for
\* the bytes a Replicator still has queued, the blocks the history variable
\* names and the block past INT_MAX.
MirrorsAgree ==
    \A b \in Block \ suspect : ~Busy(b) /\ ~PastIntMax(b) =>
      \A i \in Offset :
        Queued(b * BLOCK_SIZE + i)
          \/ AllignedRead(store[Primary].blk, b)[i]
               = AllignedRead(store[Backup].blk, b)[i]

\* w's handler returns VALID in this step.
AnswersValid(w) ==
    /\ write[w].pc \in {"commit", "enqueue"}
    /\ write'[w].pc = "idle" /\ up'[write[w].node]

\* When a Write answers VALID its data can be read here, and can be read on the
\* other mirror too or is queued for it.
ValidIsMirrored ==
    [][\A w \in Writer :
         LET n == write[w].node
             addr == write[w].addr
         IN  AnswersValid(w) /\ BlocksOf(addr) \cap suspect' = {} =>
               /\ Read(store'[n].blk, addr) = write[w].data
               /\ \/ Read(store'[Peer(n)].blk, addr) = write[w].data
                  \/ addr \in Waiting(pending'[n])]_vars

\* A primary that fails at the fault point "commitBlockInconsistency", or later in
\* its local commit, leaves the data of the write readable on the other mirror.
SurvivesCrash ==
    [][\A w \in Writer :
         LET n == write[w].node
             addr == write[w].addr
         IN  /\ write[w].pc = "commit" /\ up[n] /\ ~up'[n]
             /\ BlocksOf(addr) \cap suspect = {}
             => Read(store'[Peer(n)].blk, addr) = write[w].data]_vars

\* Whether the copies at addr are equal, and what may set them apart: a queued
\* address, an operation under way, a suspect block or one past INT_MAX.
SameAt(addr) == Read(store[Primary].blk, addr) = Read(store[Backup].blk, addr)
Excused(addr) ==
    \/ \E b \in BlocksOf(addr) : b \in suspect \/ Busy(b) \/ PastIntMax(b)
    \/ \E i \in Offset : Queued(addr + i)

\* What a CheckConsistancy finds is true of the moment the other mirror serves
\* its Read, although it read its own copy before: the copies are equal then if
\* it will say VALID, and differ for a reason if it will say INVALID.  Until it
\* answers the other copy may change, but not its own: VALID means that its own
\* copy is still what the other mirror served.
CheckIsSound ==
    [][\A c \in Checker :
         LET n == check[c].node
             addr == check[c].addr
         IN  /\ check[c].pc = "read" /\ check'[c].remote # None =>
                  IF CheckVerdict(check'[c]) = "VALID" THEN SameAt(addr)
                  ELSE ~SameAt(addr) /\ Excused(addr)
             /\ check[c].pc = "compare" /\ check'[c].pc = "idle" /\ up'[n]
                  /\ CheckVerdict(check[c]) = "VALID" =>
                  Read(store'[n].blk, addr) = check[c].remote]_vars

(* The pair as one array of bytes, in two copies (module Mirrors).          *)

\* addr covers byte i of block b, and that byte of data at addr.
Covers(addr, b, i) == (b * BLOCK_SIZE + i) - addr \in Offset
ByteOf(addr, data, b, i) == data[(b * BLOCK_SIZE + i) - addr]

\* A commit on node k has begun and not yet renamed block b.
Renaming(k, b) ==
    LET Left(todo) == \E i \in DOMAIN todo : todo[i] = <<"rename", b>>
    IN  \/ \E w \in Writer :
             /\ write[w].node = k /\ write[w].pc \in {"commit", "commitAlone"}
             /\ Left(write[w].todo)
        \/ \E r \in rpc : r.dest = k /\ r.st = "commit" /\ Left(r.todo)

\* What node k shows of block b, if a commit under way counts as done: no other
\* handler can come between its file operations.
Copy(k, b) ==
    IF store[k].tmp[b] # None /\ Renaming(k, b) THEN store[k].tmp[b]
    ELSE AllignedRead(store[k].blk, b)

\* A write brings its bytes once the other mirror has staged them.
Brought(b, i) ==
    {ByteOf(write[w].addr, write[w].data, b, i) :
       w \in {v \in Writer : /\ write[v].pc \notin {"idle", "replicate"}
                             /\ Covers(write[v].addr, b, i)}}

\* The other node has this byte queued for node k, or is replaying it.
Behind(k, b, i) ==
    LET n == Peer(k)
    IN  \/ \E a \in Waiting(pending[n]) : Covers(a, b, i)
        \/ \E t \in SubThread :
             worker[<<n, t>>].addr # None /\ Covers(worker[<<n, t>>].addr, b, i)

Addressable == {b \in Block : ~PastIntMax(b)}

M == INSTANCE Mirrors WITH
       Mirror  <- Node,
       Block   <- Addressable,
       copies  <- [b \in Addressable |-> [k \in Node |-> Copy(k, b)]],
       brought <- [b \in Addressable |-> [i \in Offset |-> Brought(b, i)]],
       behind  <- [b \in Addressable |->
                     [i \in Offset |-> {k \in Node : Behind(k, b, i)}]],
       lost    <- suspect \cap Addressable

\* Writes and replays of overlapping addresses, each staged from a copy of the
\* blocks and committed later, change no byte they do not cover, bring back older
\* bytes only to a mirror that is yet to be replayed to there, and leave the
\* mirrors equal elsewhere.
ImplementsMirrors == M!Spec

\* Some queue was popped empty.  Then its sub-threads may take it for not empty
\* for ever, and replay whatever they find in it.
PoppedEmpty == \E n \in Node : pending[n].underflow

\* Every Write that took its locks returns, unless a sub-thread pops an empty
\* queue: replays that never end may keep its call from the lock it needs.
WritesReturn ==
    \/ <>PoppedEmpty
    \/ \A w \in Writer : write[w].pc # "idle" ~> write[w].pc = "idle"

\* When clients stop writing and processes stop failing, every queued address
\* is replayed, and the consumers go back to their loops, unless a sub-thread
\* pops an empty queue.
Reintegrated ==
    \/ []<><<\E w \in Writer : WriteArrives(w)>>_vars
    \/ <>PoppedEmpty
    \/ <>[](\A n \in Node : pending[n] = NoPending /\ consumer[n] = "loop")

(* What the tests and their comments say, and the code does not do.        *)

\* A sub-thread reports the address it pops as a "pending block" of the queue it
\* found not empty: removeAndGetLastPendingBlock never pops an empty queue.
NoUnderflow == ~PoppedEmpty

\* recovery_testing.cc says of a Write during which the backup fails that it is
\* added to the queue.
WriteToDeadMirrorIsQueued ==
    [][\A w \in Writer :
         LET n == write[w].node
         IN  /\ write[w].pc # "idle" /\ write'[w].pc = "idle"
             /\ up'[n] /\ ~up[Peer(n)]
             => write[w].addr \in Waiting(pending'[n])]_vars

\* ConsistancyTest.h expects that a check after a Write has returned finds equal
\* copies: they are equal whenever nothing is under way or queued.
ConsistentAtRest ==
    (\A b \in Block : ~Busy(b)) /\ (\A n \in Node : pending[n].queue = <<>>)
      => \A addr \in Addr : Read(store[Primary].blk, addr)
                              = Read(store[Backup].blk, addr)
=============================================================================

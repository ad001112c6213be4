----------------------------- MODULE LockProofs ------------------------------
(* Mutual exclusion, for any instance: the locks held are those of the      *)
(* handlers in progress, and no two of them share one.                      *)
(*                                                                          *)
(* A thread that waits for a call leaves the call's record alone until its  *)
(* reply comes, and then takes it away.  If it could take away a call that  *)
(* is still being served, that call's locks would have no owner: so the     *)
(* invariant also says whom each call belongs to.                           *)
EXTENDS ReplicationProofs

\* The calls in the middle of a commit, which hold locks.
Committing == {r \in rpc : r.st = "commit"}

\* A call's caller waits for it, on the right node, and for no other.
CallsMatch ==
    /\ \A r, q \in rpc : r.caller # None /\ r.caller = q.caller => r = q
    /\ \A r \in rpc : r.caller \in Writer =>
         /\ write[r.caller].pc \in {"replicate", "commitRemote"}
         /\ r.dest = Peer(write[r.caller].node)
    /\ \A r \in rpc : r.caller \in Node \X SubThread =>
         /\ worker[r.caller].pc \in {"replicate", "commitRemote"}
         /\ r.dest = Peer(r.caller[1])

\* A consumer in its loop has no sub-threads.
NoStrayWorker ==
    \A x \in Node \X SubThread :
        worker[x].pc # "done" => consumer[x[1]] = "drain"

LockInv == NoLockLeaked /\ LocksExclusive

IInv == TypeOK /\ LockInv /\ CallsMatch /\ NoStrayWorker

-----------------------------------------------------------------------------
(* How a step may change the locks: not at all, or one handler takes or     *)
(* gives back all of its own.                                               *)

\* NoLockLeaked, one lock at a time.
LEMMA HeldBy ==
    NoLockLeaked <=>
      \A l : l \in locked <=> \/ \E w \in Writer : l \in WriteLocks(w)
                              \/ \E c \in Checker : l \in CheckLocks(c)
                              \/ \E r \in Committing : l \in CallLocks(r)
BY DEF NoLockLeaked, Committing, CallLocks

\* LocksExclusive, with calls that hold locks only.
LEMMA ExclusiveBy ==
    LocksExclusive <=>
      /\ \A w1, w2 \in Writer : w1 # w2 => WriteLocks(w1) \cap WriteLocks(w2) = {}
      /\ \A c1, c2 \in Checker :
           c1 # c2 => CheckLocks(c1) \cap CheckLocks(c2) = {}
      /\ \A r1, r2 \in Committing : r1 # r2 => CallLocks(r1) \cap CallLocks(r2) = {}
      /\ \A w \in Writer, c \in Checker : WriteLocks(w) \cap CheckLocks(c) = {}
      /\ \A w \in Writer, r \in Committing : WriteLocks(w) \cap CallLocks(r) = {}
      /\ \A c \in Checker, r \in Committing : CheckLocks(c) \cap CallLocks(r) = {}
BY DEF LocksExclusive, Committing, CallLocks

LEMMA HeldByNext ==
    NoLockLeaked' <=>
      \A l : l \in locked' <=> \/ \E w \in Writer : l \in WriteLocks(w)'
                               \/ \E c \in Checker : l \in CheckLocks(c)'
                               \/ \E r \in Committing' : l \in CallLocks(r)
BY DEF NoLockLeaked, Committing, CallLocks

LEMMA ExclusiveByNext ==
    LocksExclusive' <=>
      /\ \A w1, w2 \in Writer :
           w1 # w2 => WriteLocks(w1)' \cap WriteLocks(w2)' = {}
      /\ \A c1, c2 \in Checker :
           c1 # c2 => CheckLocks(c1)' \cap CheckLocks(c2)' = {}
      /\ \A r1, r2 \in Committing' : r1 # r2 => CallLocks(r1) \cap CallLocks(r2) = {}
      /\ \A w \in Writer, c \in Checker : WriteLocks(w)' \cap CheckLocks(c)' = {}
      /\ \A w \in Writer, r \in Committing' : WriteLocks(w)' \cap CallLocks(r) = {}
      /\ \A c \in Checker, r \in Committing' : CheckLocks(c)' \cap CallLocks(r) = {}
BY DEF LocksExclusive, Committing, CallLocks

LEMMA QuietStep ==
    ASSUME LockInv, locked' = locked, write' = write, check' = check,
           Committing' = Committing
    PROVE  LockInv'
  <1>1. /\ \A w \in Writer : WriteLocks(w)' = WriteLocks(w)
        /\ \A c \in Checker : CheckLocks(c)' = CheckLocks(c)
    BY DEF WriteLocks, CheckLocks
  <1> QED
    BY <1>1, HeldBy, HeldByNext, ExclusiveBy, ExclusiveByNext DEF LockInv

\* Taking or giving back one's own locks.
LEMMA WriterStep ==
    ASSUME LockInv, NEW w \in Writer,
           \A v \in Writer \ {w} : WriteLocks(v)' = WriteLocks(v),
           check' = check, Committing' = Committing,
           \/ WriteLocks(w)' = WriteLocks(w) /\ locked' = locked
           \/ /\ WriteLocks(w) = {} /\ WriteLocks(w)' \cap locked = {}
              /\ locked' = locked \cup WriteLocks(w)'
           \/ WriteLocks(w)' = {} /\ locked' = locked \ WriteLocks(w)
    PROVE  LockInv'
  <1>1. \A c \in Checker : CheckLocks(c)' = CheckLocks(c)
    BY DEF CheckLocks
  <1>2. NoLockLeaked'
    BY <1>1, HeldBy, HeldByNext, ExclusiveBy DEF LockInv
  <1>3. LocksExclusive'
    BY <1>1, HeldBy, ExclusiveBy, ExclusiveByNext DEF LockInv
  <1> QED
    BY <1>2, <1>3 DEF LockInv

LEMMA CheckerStep ==
    ASSUME LockInv, NEW c \in Checker,
           \A d \in Checker \ {c} : CheckLocks(d)' = CheckLocks(d),
           write' = write, Committing' = Committing,
           \/ CheckLocks(c)' = CheckLocks(c) /\ locked' = locked
           \/ /\ CheckLocks(c) = {} /\ CheckLocks(c)' \cap locked = {}
              /\ locked' = locked \cup CheckLocks(c)'
           \/ CheckLocks(c)' = {} /\ locked' = locked \ CheckLocks(c)
    PROVE  LockInv'
  <1>1. \A w \in Writer : WriteLocks(w)' = WriteLocks(w)
    BY DEF WriteLocks
  <1>2. NoLockLeaked'
    BY <1>1, HeldBy, HeldByNext, ExclusiveBy DEF LockInv
  <1>3. LocksExclusive'
    BY <1>1, HeldBy, ExclusiveBy, ExclusiveByNext DEF LockInv
  <1> QED
    BY <1>2, <1>3 DEF LockInv

\* A call takes its locks, keeps them for one more step, or gives them back.
LEMMA CallStep ==
    ASSUME LockInv, write' = write, check' = check, NEW r, NEW q,
           \/ /\ Committing' = Committing \cup {q}
              /\ CallLocks(q) \cap locked = {}
              /\ locked' = locked \cup CallLocks(q)
           \/ /\ r \in Committing /\ Committing' = (Committing \ {r}) \cup {q}
              /\ CallLocks(q) = CallLocks(r) /\ locked' = locked
           \/ /\ r \in Committing /\ Committing' = Committing \ {r}
              /\ locked' = locked \ CallLocks(r)
    PROVE  LockInv'
  <1>1. /\ \A w \in Writer : WriteLocks(w)' = WriteLocks(w)
        /\ \A c \in Checker : CheckLocks(c)' = CheckLocks(c)
    BY DEF WriteLocks, CheckLocks
  <1>2. NoLockLeaked'
    BY <1>1, HeldBy, HeldByNext, ExclusiveBy DEF LockInv
  <1>3. LocksExclusive'
    BY <1>1, HeldBy, ExclusiveBy, ExclusiveByNext DEF LockInv
  <1> QED
    BY <1>2, <1>3 DEF LockInv

-----------------------------------------------------------------------------
(* Lemmas about the pieces of an action.                                   *)

LEMMA FreeLocks ==
    \A n, addr : Unlocked(n, addr) => Locks(n, addr) \cap locked = {}
BY DEF Unlocked, Locks

\* A call that is answered is not being served any more.
LEMMA SettledKeeps ==
    ASSUME CallsMatch, NEW c, c # None, Acked(c)
    PROVE  {r \in Settled(c) : r.st = "commit"} = Committing
BY DEF CallsMatch, Acked, Settled, Committing

\* A caller and its waiting are told from the others.
LEMMA CallerCases ==
    /\ \A w \in Writer : w \in Caller /\ w # None /\ w \notin Node \X SubThread
    /\ \A x \in Node \X SubThread : x \in Caller /\ x # None /\ x \notin Writer
BY CallerAssumption DEF Caller

\* Changing one writer.
LEMMA WriterEffect ==
    ASSUME TypeOK, NEW w \in Writer, NEW s, write' = [write EXCEPT ![w] = s]
    PROVE  /\ write'[w] = s
           /\ \A v \in Writer \ {w} : write'[v] = write[v]
           /\ \A v \in Writer \ {w} : WriteLocks(v)' = WriteLocks(v)
           /\ WriteLocks(w)' = IF s.pc = "idle" THEN {} ELSE Locks(s.node, s.addr)
BY DEF TypeOK, WriteLocks

-----------------------------------------------------------------------------
(* Write.                                                                  *)

LEMMA WriteArrivesLocks ==
    ASSUME IInv, NEW w \in Writer, WriteArrives(w)
    PROVE  LockInv' /\ CallsMatch'
  <1>1. PICK n \in WriteTo, addr \in Addr, data \in Payload :
          WriteAlone(w, n, addr, data) \/ WriteMirrored(w, n, addr, data)
    BY DEF WriteArrives
  <1>2. write[w].pc = "idle" /\ Unlocked(n, addr) /\ check' = check
        /\ locked' = locked \cup Locks(n, addr)
    BY <1>1 DEF WriteAlone, WriteMirrored
  <1>3. PICK s : /\ write' = [write EXCEPT ![w] = s]
                 /\ s.pc # "idle" /\ s.node = n /\ s.addr = addr
    <2>1. CASE WriteAlone(w, n, addr, data)
      <3> DEFINE t == [pc |-> "commitAlone", node |-> n, addr |-> addr,
                       data |-> data, todo |-> Commit(addr)]
      <3>1. write' = [write EXCEPT ![w] = t]
        BY <2>1 DEF WriteAlone
      <3>2. t.pc # "idle" /\ t.node = n /\ t.addr = addr
        OBVIOUS
      <3> QED
        BY <3>1, <3>2
    <2>2. CASE WriteMirrored(w, n, addr, data)
      <3> DEFINE t == [pc |-> "replicate", node |-> n, addr |-> addr,
                       data |-> data, todo |-> <<>>]
      <3>1. write' = [write EXCEPT ![w] = t]
        BY <2>2 DEF WriteMirrored
      <3>2. t.pc # "idle" /\ t.node = n /\ t.addr = addr
        OBVIOUS
      <3> QED
        BY <3>1, <3>2
    <2> QED
      BY <1>1, <2>1, <2>2
  <1>4. /\ \A v \in Writer \ {w} : write'[v] = write[v]
        /\ \A v \in Writer \ {w} : WriteLocks(v)' = WriteLocks(v)
        /\ WriteLocks(w)' = Locks(n, addr)
    BY <1>3, WriterEffect DEF IInv
  <1>5. Committing' = Committing
    BY <1>1 DEF WriteAlone, WriteMirrored, Committing, Sent
  <1>6. WriteLocks(w) = {} /\ WriteLocks(w)' \cap locked = {}
    BY <1>2, <1>4, FreeLocks DEF WriteLocks
  <1>7. LockInv'
    BY <1>2, <1>4, <1>5, <1>6, WriterStep DEF IInv
  <1>8. \A r \in rpc : r.caller # w
    BY <1>2 DEF IInv, CallsMatch
  <1>9. CASE WriteAlone(w, n, addr, data)
    <2>1. rpc' = rpc /\ worker' = worker
      BY <1>9 DEF WriteAlone, replica
    <2> QED
      BY <1>4, <1>7, <1>8, <2>1 DEF IInv, CallsMatch
  <1>10. CASE WriteMirrored(w, n, addr, data)
    <2> DEFINE q == Sent(w, n, "ReplicateBlock", addr, data)
    <2>1. rpc' = rpc \cup {q} /\ worker' = worker
      BY <1>10 DEF WriteMirrored, replica
    <2>2. q.caller = w /\ q.dest = Peer(n)
      BY DEF Sent
    <2>3. write'[w].pc = "replicate" /\ write'[w].node = n
      BY <1>10 DEF WriteMirrored, IInv, TypeOK
    <2> HIDE DEF q
    <2> QED
      BY <1>4, <1>7, <1>8, <2>1, <2>2, <2>3, CallerCases DEF IInv, CallsMatch
  <1> QED
    BY <1>1, <1>9, <1>10

LEMMA WriteStepLocks ==
    ASSUME IInv, NEW w \in Writer, WriteStep(w)
    PROVE  LockInv' /\ CallsMatch'
  <1>1. /\ write[w].pc # "idle" /\ check' = check /\ worker' = worker
        /\ WriteLocks(w) = Locks(write[w].node, write[w].addr)
    BY DEF WriteStep, WriteReplicated, WriteRejected, WriteCommitFailed,
           WriteCommitted, WriteCommitOp, WriteValid, WriteAloneCommitted,
           WriteEnqueue, WriteLocks, replica
  <1>2. PICK s : write' = [write EXCEPT ![w] = s]
    BY DEF WriteStep, WriteReplicated, WriteRejected, WriteCommitFailed,
           WriteCommitted, WriteCommitOp, WriteValid, WriteAloneCommitted,
           WriteEnqueue
  <1>3. /\ write'[w] = s
        /\ \A v \in Writer \ {w} : write'[v] = write[v]
        /\ \A v \in Writer \ {w} : WriteLocks(v)' = WriteLocks(v)
        /\ WriteLocks(w)' = IF s.pc = "idle" THEN {} ELSE Locks(s.node, s.addr)
    BY <1>2, WriterEffect DEF IInv
  <1>4. \/ WriteLocks(w)' = WriteLocks(w) /\ locked' = locked
        \/ WriteLocks(w)' = {} /\ locked' = locked \ WriteLocks(w)
    <2>0. /\ write[w] \in [pc : {"replicate", "commitRemote", "commit",
                                 "commitAlone", "enqueue"},
                           node : Node, addr : Addr, data : Payload,
                           todo : Seq(FileOp)]
          /\ write \in [Writer -> WriteState]
      BY <1>1, BusyType DEF IInv, TypeOK
    <2> USE <1>1, <1>3, <2>0 DEF NoWrite
    <2>1. CASE WriteReplicated(w)
      BY <2>1 DEF WriteReplicated
    <2>2. CASE WriteRejected(w)
      BY <2>2 DEF WriteRejected
    <2>3. CASE WriteCommitFailed(w)
      BY <2>3 DEF WriteCommitFailed
    <2>4. CASE WriteCommitted(w)
      BY <2>4 DEF WriteCommitted, server
    <2>5. CASE WriteCommitOp(w)
      BY <2>5 DEF WriteCommitOp
    <2>6. CASE WriteValid(w)
      BY <2>6 DEF WriteValid
    <2>7. CASE WriteAloneCommitted(w)
      BY <2>7 DEF WriteAloneCommitted
    <2>8. CASE WriteEnqueue(w)
      BY <2>8 DEF WriteEnqueue
    <2> QED
      BY <2>1, <2>2, <2>3, <2>4, <2>5, <2>6, <2>7, <2>8 DEF WriteStep
  <1>5. CASE WriteReplicated(w)
    <2> DEFINE q == Sent(w, write[w].node, "CommitBlock", write[w].addr, None)
    <2>1. Acked(w) /\ rpc' = Settled(w) \cup {q}
      BY <1>5 DEF WriteReplicated
    <2>2. q.caller = w /\ q.dest = Peer(write[w].node) /\ q.st = "sent"
      BY DEF Sent
    <2>3. write'[w].pc = "commitRemote" /\ write'[w].node = write[w].node
      BY <1>5 DEF WriteReplicated, IInv, TypeOK
    <2> HIDE DEF q
    <2>4. Committing' = Committing
      BY <2>1, <2>2, SettledKeeps, CallerCases DEF Committing, IInv
    <2>5. CallsMatch'
      BY <1>1, <1>3, <2>1, <2>2, <2>3, CallerCases
         DEF IInv, CallsMatch, Settled
    <2> QED
      BY <1>1, <1>3, <1>4, <2>4, <2>5, WriterStep DEF IInv
  <1>6. CASE WriteCommitted(w)
    <2>1. Acked(w) /\ rpc' = Settled(w)
      BY <1>6 DEF WriteCommitted
    <2>2. Committing' = Committing
      BY <2>1, SettledKeeps, CallerCases DEF Committing, IInv
    <2>3. CallsMatch'
      BY <1>1, <1>3, <2>1 DEF IInv, CallsMatch, Settled
    <2> QED
      BY <1>1, <1>3, <1>4, <2>2, <2>3, WriterStep DEF IInv
  <1>7. CASE ~WriteReplicated(w) /\ ~WriteCommitted(w)
    <2>1. rpc' = rpc
      BY <1>7 DEF WriteStep, WriteRejected, WriteCommitFailed, WriteCommitOp,
                  WriteValid, WriteAloneCommitted, WriteEnqueue
    <2>2. \A r \in rpc : r.caller # w
      BY <1>7 DEF IInv, CallsMatch, WriteStep, WriteRejected,
                  WriteCommitFailed, WriteCommitOp, WriteValid,
                  WriteAloneCommitted, WriteEnqueue, Failed
    <2>3. CallsMatch'
      BY <1>1, <1>3, <2>1, <2>2 DEF IInv, CallsMatch
    <2>4. Committing' = Committing
      BY <2>1 DEF Committing
    <2> QED
      BY <1>1, <1>3, <1>4, <2>3, <2>4, WriterStep DEF IInv
  <1> QED
    BY <1>5, <1>6, <1>7

-----------------------------------------------------------------------------
(* ReplicateBlock, CommitBlock, and calls to a process that is down.       *)

\* A call takes the place of another with the same caller.
LEMMA CallReplaced ==
    ASSUME CallsMatch, write' = write, worker' = worker,
           NEW r \in rpc, NEW q, q.caller = r.caller, q.dest = r.dest,
           rpc' \subseteq (rpc \ {r}) \cup {q}
    PROVE  CallsMatch'
BY DEF CallsMatch

LEMMA ServeLocks ==
    ASSUME IInv, NEW r \in rpc, Serve(r) \/ Unreachable(r)
    PROVE  LockInv' /\ CallsMatch'
  <1> DEFINE answered == [r EXCEPT !.st = "done", !.todo = <<>>]
             begun    == [r EXCEPT !.st = "commit"]
             next     == [r EXCEPT !.todo = Tail(@)]
  <1>1. write' = write /\ check' = check /\ worker' = worker
    BY DEF Serve, ServeReplicate, ServeCommit, ServeCommitOp, Unreachable,
           replica
  <1>2. r \in Call
    BY DEF IInv, TypeOK
  <1>3. /\ answered.caller = r.caller /\ answered.dest = r.dest
        /\ answered.st = "done"
        /\ begun.caller = r.caller /\ begun.dest = r.dest
        /\ begun.st = "commit" /\ begun.addr = r.addr
        /\ next.caller = r.caller /\ next.dest = r.dest
        /\ next.st = r.st /\ next.addr = r.addr
    BY <1>2 DEF Call
  <1> HIDE DEF answered, begun, next
  <1>4. Reply(r) \subseteq (rpc \ {r}) \cup {answered}
    BY DEF Reply, answered
  <1>5. {q \in Reply(r) : q.st = "commit"} = Committing \ {r}
    BY <1>3 DEF Reply, Committing, answered
  <1>6. CASE ServeReplicate(r)
    <2>1. Committing' = Committing /\ locked' = locked
      BY <1>5, <1>6 DEF ServeReplicate, Committing
    <2>2. LockInv'
      BY <1>1, <2>1, QuietStep DEF IInv
    <2>3. CallsMatch'
      BY <1>1, <1>3, <1>4, <1>6, CallReplaced DEF ServeReplicate, IInv
    <2> QED
      BY <2>2, <2>3
  <1>7. CASE ServeCommit(r)
    <2>1. rpc' = (rpc \ {r}) \cup {begun} /\ r.st = "sent"
      BY <1>7 DEF ServeCommit, begun
    <2>2. /\ Committing' = Committing \cup {begun}
          /\ CallLocks(begun) = Locks(r.dest, r.addr)
      BY <1>3, <2>1 DEF Committing, CallLocks
    <2>3. /\ CallLocks(begun) \cap locked = {}
          /\ locked' = locked \cup CallLocks(begun)
      BY <1>7, <2>2, FreeLocks DEF ServeCommit
    <2>4. LockInv'
      BY <1>1, <2>2, <2>3, CallStep DEF IInv
    <2>5. CallsMatch'
      BY <1>1, <1>3, <2>1, CallReplaced DEF IInv
    <2> QED
      BY <2>4, <2>5
  <1>8. CASE ServeCommitOp(r)
    <2>1. r \in Committing /\ CallLocks(r) = Locks(r.dest, r.addr)
      BY <1>8 DEF ServeCommitOp, Committing, CallLocks
    <2>2. CASE rpc' = (rpc \ {r}) \cup {next} /\ locked' = locked
      <3>1. /\ Committing' = (Committing \ {r}) \cup {next}
            /\ CallLocks(next) = CallLocks(r)
        BY <1>3, <2>1, <2>2 DEF Committing, CallLocks
      <3>2. LockInv'
        BY <1>1, <2>1, <2>2, <3>1, CallStep DEF IInv
      <3>3. CallsMatch'
        BY <1>1, <1>3, <2>2, CallReplaced DEF IInv
      <3> QED
        BY <3>2, <3>3
    <2>3. CASE rpc' = Reply(r) /\ locked' = locked \ CallLocks(r)
      <3>1. Committing' = Committing \ {r}
        BY <1>5, <2>3 DEF Committing
      <3>2. LockInv'
        BY <1>1, <2>1, <2>3, <3>1, CallStep DEF IInv
      <3>3. CallsMatch'
        BY <1>1, <1>3, <1>4, <2>3, CallReplaced DEF IInv
      <3> QED
        BY <3>2, <3>3
    <2> QED
      BY <1>8, <2>1, <2>2, <2>3 DEF ServeCommitOp, next
  <1>9. CASE Unreachable(r)
    <2>1. rpc' = rpc \ {r} /\ r.st = "sent" /\ locked' = locked
      BY <1>9 DEF Unreachable, server
    <2>2. Committing' = Committing
      BY <2>1 DEF Committing
    <2>3. LockInv'
      BY <1>1, <2>1, <2>2, QuietStep DEF IInv
    <2>4. CallsMatch'
      BY <1>1, <2>1 DEF IInv, CallsMatch
    <2> QED
      BY <2>3, <2>4
  <1> QED
    BY <1>6, <1>7, <1>8, <1>9 DEF Serve

-----------------------------------------------------------------------------
(* The consumer and its sub-threads, which hold no locks.                  *)

LEMMA ConsumerLocks ==
    ASSUME IInv, NEW n \in Node, Consumer(n)
    PROVE  LockInv' /\ CallsMatch' /\ NoStrayWorker'
  <1>1. /\ write' = write /\ check' = check /\ rpc' = rpc /\ locked' = locked
        /\ Committing' = Committing
    BY DEF Consumer, ConsumerDrain, ConsumerJoin, server, Committing
  <1>2. LockInv'
    BY <1>1, QuietStep DEF IInv
  <1>3. CASE ConsumerDrain(n)
    <2>1. \A x \in Node \X SubThread : x[1] = n => worker[x].pc = "done"
      BY <1>3 DEF ConsumerDrain, IInv, NoStrayWorker
    <2>2. \A x \in Node \X SubThread :
            IF x[1] = n THEN worker'[x].pc = "check" ELSE worker'[x] = worker[x]
      BY <1>3 DEF ConsumerDrain, NoWork
    <2>3. CallsMatch'
      BY <1>1, <2>1, <2>2 DEF IInv, CallsMatch
    <2>4. NoStrayWorker'
      BY <1>3, <2>2 DEF IInv, TypeOK, NoStrayWorker, ConsumerDrain
    <2> QED
      BY <1>2, <2>3, <2>4
  <1>4. CASE ConsumerJoin(n)
    <2>1. worker' = worker
      BY <1>4 DEF ConsumerJoin
    <2>2. \A x \in Node \X SubThread : x[1] = n => worker[x].pc = "done"
      BY <1>4 DEF ConsumerJoin
    <2>3. NoStrayWorker'
      BY <1>4, <2>1, <2>2 DEF IInv, TypeOK, NoStrayWorker, ConsumerJoin
    <2>4. CallsMatch'
      BY <1>1, <2>1 DEF IInv, CallsMatch
    <2> QED
      BY <1>2, <2>3, <2>4
  <1> QED
    BY <1>3, <1>4 DEF Consumer

LEMMA WorkerLocks ==
    ASSUME IInv, NEW x \in Node \X SubThread, Worker(x)
    PROVE  LockInv' /\ CallsMatch' /\ NoStrayWorker'
  <1>1. /\ write' = write /\ check' = check /\ locked' = locked
        /\ consumer' = consumer /\ worker[x].pc # "done"
        /\ \A y \in (Node \X SubThread) \ {x} : worker'[y] = worker[y]
    BY DEF Worker, WorkerCheck, WorkerPop, WorkerRead, WorkerReplicated,
           WorkerCommitted, WorkerRequeue, server, IInv, TypeOK
  <1>2. NoStrayWorker'
    BY <1>1 DEF IInv, NoStrayWorker
  <1>3. CASE WorkerRead(x) \/ WorkerReplicated(x)
    <2>1. PICK q : /\ q.caller = x /\ q.dest = Peer(x[1]) /\ q.st = "sent"
                   /\ rpc' = Settled(x) \cup {q}
      <3>1. CASE WorkerRead(x)
        <4> DEFINE q == Sent(x, x[1], "ReplicateBlock", worker[x].addr,
                             Read(store[x[1]].blk, worker[x].addr))
        <4>1. q.caller = x /\ q.dest = Peer(x[1]) /\ q.st = "sent"
          BY DEF Sent
        <4>2. rpc' = rpc \cup {q} /\ worker[x].pc = "read"
          BY <3>1 DEF WorkerRead
        <4>3. Settled(x) = rpc
          BY <4>2 DEF Settled, IInv, CallsMatch
        <4> QED
          BY <4>1, <4>2, <4>3
      <3>2. CASE WorkerReplicated(x)
        <4> DEFINE q == Sent(x, x[1], "CommitBlock", worker[x].addr, None)
        <4>1. q.caller = x /\ q.dest = Peer(x[1]) /\ q.st = "sent"
          BY DEF Sent
        <4> QED
          BY <3>2, <4>1 DEF WorkerReplicated
      <3> QED
        BY <1>3, <3>1, <3>2
    <2>2. worker'[x].pc \in {"replicate", "commitRemote"}
      <3>1. worker[x] \in [pc : {"read", "replicate", "commitRemote"}, addr : Addr]
        BY <1>3 DEF WorkerRead, WorkerReplicated, IInv, TypeOK, WorkerState
      <3> QED
        BY <1>3, <3>1 DEF WorkerRead, WorkerReplicated, IInv, TypeOK
    <2>3. Committing' = Committing
      <3>1. CASE Acked(x)
        BY <2>1, <3>1, SettledKeeps, CallerCases DEF IInv, Committing
      <3>2. CASE worker[x].pc = "read"
        BY <2>1, <3>2 DEF IInv, Committing, CallsMatch, Settled
      <3> QED
        BY <1>3, <3>1, <3>2 DEF WorkerRead, WorkerReplicated
    <2>4. CallsMatch'
      BY <1>1, <2>1, <2>2, CallerCases DEF IInv, CallsMatch, Settled
    <2> QED
      BY <1>1, <1>2, <2>3, <2>4, QuietStep DEF IInv
  <1>4. CASE WorkerCommitted(x)
    <2>1. Acked(x) /\ rpc' = Settled(x)
      BY <1>4 DEF WorkerCommitted
    <2>2. Committing' = Committing
      BY <2>1, SettledKeeps, CallerCases DEF IInv, Committing
    <2>3. CallsMatch'
      BY <1>1, <2>1 DEF IInv, CallsMatch, Settled
    <2> QED
      BY <1>1, <1>2, <2>2, <2>3, QuietStep DEF IInv
  <1>5. CASE WorkerCheck(x) \/ WorkerPop(x) \/ WorkerRequeue(x)
    <2>1. rpc' = rpc /\ Committing' = Committing
      BY <1>5 DEF WorkerCheck, WorkerPop, WorkerRequeue, Committing
    <2>2. \A r \in rpc : r.caller # x
      BY <1>5 DEF WorkerCheck, WorkerPop, WorkerRequeue, Failed, IInv,
                  CallsMatch
    <2>3. CallsMatch'
      BY <1>1, <2>1, <2>2 DEF IInv, CallsMatch
    <2> QED
      BY <1>1, <1>2, <2>1, <2>3, QuietStep DEF IInv
  <1> QED
    BY <1>3, <1>4, <1>5 DEF Worker

-----------------------------------------------------------------------------
(* CheckConsistancy.                                                       *)

LEMMA CheckerLocks ==
    ASSUME IInv, NEW c \in Checker, CheckArrives(c) \/ CheckStep(c)
    PROVE  LockInv' /\ CallsMatch'
  <1>1. write' = write /\ worker' = worker /\ rpc' = rpc /\ Committing' = Committing
    BY DEF CheckArrives, CheckLocal, CheckStep, CheckRemote, CheckAnswer,
           replica, Committing
  <1>2. CallsMatch'
    BY <1>1 DEF IInv, CallsMatch
  <1>3. \A d \in Checker \ {c} : CheckLocks(d)' = CheckLocks(d)
    BY DEF CheckArrives, CheckLocal, CheckStep, CheckRemote, CheckAnswer,
           CheckLocks, IInv, TypeOK
  <1>4. CASE CheckArrives(c)
    <2>1. PICK n \in Node, addr \in Addr : CheckLocal(c, n, addr)
      BY <1>4 DEF CheckArrives
    <2>2. CheckLocks(c) = {} /\ CheckLocks(c)' = Locks(n, addr)
      BY <2>1 DEF CheckLocal, CheckLocks, IInv, TypeOK
    <2>3. /\ CheckLocks(c)' \cap locked = {}
          /\ locked' = locked \cup CheckLocks(c)'
      BY <2>1, <2>2, FreeLocks DEF CheckLocal
    <2> QED
      BY <1>1, <1>2, <1>3, <2>2, <2>3, CheckerStep DEF IInv
  <1>5. CASE CheckRemote(c)
    <2>1. /\ check[c].pc = "read" /\ check'[c].pc = "compare"
          /\ check'[c].node = check[c].node /\ check'[c].addr = check[c].addr
      BY <1>5 DEF CheckRemote, NoCheck, IInv, TypeOK, CheckState
    <2>2. CheckLocks(c)' = CheckLocks(c) /\ locked' = locked
      BY <1>5, <2>1 DEF CheckRemote, CheckLocks, server
    <2> QED
      BY <1>1, <1>2, <1>3, <2>2, CheckerStep DEF IInv
  <1>6. CASE CheckAnswer(c)
    <2>1. CheckLocks(c)' = {} /\ locked' = locked \ CheckLocks(c)
      BY <1>6 DEF CheckAnswer, CheckLocks, NoCheck, IInv, TypeOK
    <2> QED
      BY <1>1, <1>2, <1>3, <2>1, CheckerStep DEF IInv
  <1> QED
    BY <1>4, <1>5, <1>6 DEF CheckStep

-----------------------------------------------------------------------------
(* Processes, broken connections and crashes.                              *)

\* Some locks go away with their holders; the calls that stay may change their
\* record but not their locks.
LEMMA LossStep ==
    ASSUME LockInv, NEW lost,
           locked' = locked \ lost,
           \A w \in Writer : WriteLocks(w)' = WriteLocks(w) \ lost,
           \A c \in Checker : CheckLocks(c)' = CheckLocks(c) \ lost,
           \A q \in Committing' : \E r \in Committing :
             CallLocks(q) = CallLocks(r) /\ CallLocks(r) \cap lost = {},
           \A r \in Committing : \/ CallLocks(r) \subseteq lost
                                 \/ \E q \in Committing' : CallLocks(q) = CallLocks(r),
           \A q1, q2 \in Committing' :
             q1 # q2 => CallLocks(q1) \cap CallLocks(q2) = {}
    PROVE  LockInv'
  <1>1. NoLockLeaked'
    <2>1. \A l : (\E r \in Committing' : l \in CallLocks(r)) <=>
                 l \notin lost /\ (\E r \in Committing : l \in CallLocks(r))
      OBVIOUS
    <2> QED
      BY <2>1, HeldBy, HeldByNext DEF LockInv
  <1>2. LocksExclusive'
    BY ExclusiveBy, ExclusiveByNext DEF LockInv
  <1> QED
    BY <1>1, <1>2 DEF LockInv

\* The calls being served on Peer(n) go on without n; CallLocks does not
\* depend on who waits.
Orphan(n) == [r \in Committing |->
                IF r \in Outstanding(n) THEN [r EXCEPT !.caller = None] ELSE r]

LEMMA OrphanKeeps ==
    ASSUME TypeOK, NEW n \in Node, NEW lost \in SUBSET Undelivered(n)
    PROVE  /\ \A r \in Committing : /\ CallLocks(Orphan(n)[r]) = CallLocks(r)
                                    /\ Orphan(n)[r].dest = r.dest
           /\ {r \in Abandon(n, lost) : r.st = "commit"}
                = {Orphan(n)[r] : r \in Committing}
  <1>1. \A r \in rpc : LET q == [r EXCEPT !.caller = None]
                       IN  q.st = r.st /\ q.dest = r.dest /\ q.addr = r.addr
    BY DEF TypeOK, Call
  <1>2. \A r \in Committing : /\ Orphan(n)[r].st = r.st
                              /\ Orphan(n)[r].dest = r.dest
                              /\ Orphan(n)[r].addr = r.addr
    BY <1>1 DEF Orphan, Committing
  <1>3. \A r \in Committing : r \notin lost
    BY DEF Undelivered, Committing
  <1>4. {r \in Abandon(n, lost) : r.st = "commit"}
          \subseteq {Orphan(n)[r] : r \in Committing}
    BY <1>1 DEF Abandon, Orphan, Committing, Outstanding
  <1>5. {Orphan(n)[r] : r \in Committing}
          \subseteq {r \in Abandon(n, lost) : r.st = "commit"}
    <2> SUFFICES ASSUME NEW r \in Committing
                 PROVE  Orphan(n)[r] \in {q \in Abandon(n, lost) : q.st = "commit"}
      OBVIOUS
    <2>1. r \in rpc /\ r.st = "commit" /\ Orphan(n)[r].st = "commit"
      BY <1>2 DEF Committing
    <2>2. CASE r \in Outstanding(n)
      BY <1>3, <2>1, <2>2 DEF Abandon, Orphan
    <2>3. CASE r \notin Outstanding(n)
      BY <2>1, <2>3 DEF Abandon, Orphan
    <2> QED
      BY <2>2, <2>3
  <1> QED
    BY <1>2, <1>4, <1>5 DEF CallLocks

\* Whoever is left waiting waited before, and not on n's calls.
LEMMA AbandonKeeps ==
    ASSUME NEW n, NEW lost, TypeOK
    PROVE  \A r \in Abandon(n, lost) : r.caller # None =>
             r \in rpc /\ r.dest # Peer(n)
  <1>1. \A r \in rpc : [r EXCEPT !.caller = None].caller = None
    BY DEF TypeOK, Call
  <1> QED
    BY <1>1 DEF Abandon, Outstanding

\* A check whose Read fails keeps its locks.
LEMMA LostReadLocks ==
    ASSUME TypeOK, NEW n \in Node, Break(n) \/ Crash(n), NEW c \in Checker
    PROVE  CheckLocks(c)' = IF Crash(n) /\ check[c].node = n THEN {}
                            ELSE CheckLocks(c)
  <1>1. CASE check'[c] = check[c] /\ (Crash(n) => check[c].node # n)
    BY <1>1 DEF CheckLocks
  <1>2. CASE /\ check[c].pc # "idle" /\ check'[c] = ReadFails(check[c])
             /\ Crash(n) => check[c].node # n
    BY <1>2, FailedReadKeeps DEF CheckLocks
  <1>3. CASE Crash(n) /\ check[c].node = n /\ check'[c] = NoCheck
    BY <1>3 DEF CheckLocks, NoCheck
  <1> QED
    BY <1>1, <1>2, <1>3, LostRead

LEMMA ProcessLocks ==
    ASSUME IInv, NEW n \in Node,
           Start(n) \/ HeartBeat(n) \/ HeartBeatMissed(n) \/ Break(n)
    PROVE  LockInv' /\ CallsMatch' /\ NoStrayWorker'
  <1>1. /\ write' = write /\ worker' = worker
        /\ consumer' = consumer /\ locked' = locked
    BY DEF Start, HeartBeat, HeartBeatMissed, Break, server, replica
  <1>2. NoStrayWorker'
    BY <1>1 DEF IInv, NoStrayWorker
  <1>3. CASE rpc' = rpc /\ check' = check
    <2>1. Committing' = Committing /\ CallsMatch'
      BY <1>1, <1>3 DEF Committing, IInv, CallsMatch
    <2> QED
      BY <1>1, <1>2, <1>3, <2>1, QuietStep DEF IInv
  <1>4. CASE Break(n)
    <2>1. PICK lost \in SUBSET Undelivered(n) : rpc' = Abandon(n, lost)
      BY <1>4 DEF Break
    <2>2. CallsMatch'
      BY <1>1, <2>1, AbandonKeeps, CallerCases DEF IInv, CallsMatch
    <2>3. /\ Committing' = {Orphan(n)[r] : r \in Committing}
          /\ \A r \in Committing : CallLocks(Orphan(n)[r]) = CallLocks(r)
      BY <2>1, OrphanKeeps DEF Committing, IInv
    <2>4. /\ \A w \in Writer : WriteLocks(w)' = WriteLocks(w) \ {}
          /\ \A c \in Checker : CheckLocks(c)' = CheckLocks(c) \ {}
      <3>1. ~Crash(n)
        BY <1>4 DEF Break, Crash, server
      <3> QED
        BY <1>1, <1>4, <3>1, LostReadLocks DEF WriteLocks, IInv
    <2> DEFINE none == {}
    <2>5. /\ locked' = locked \ none
          /\ \A w \in Writer : WriteLocks(w)' = WriteLocks(w) \ none
          /\ \A c \in Checker : CheckLocks(c)' = CheckLocks(c) \ none
          /\ \A r \in Committing : CallLocks(r) \cap none = {}
      BY <1>1, <2>4
    <2> HIDE DEF none
    <2>6. \A r1, r2 \in Committing :
            r1 # r2 => CallLocks(r1) \cap CallLocks(r2) = {}
      BY ExclusiveBy DEF IInv, LockInv
    <2>7. \A q1, q2 \in Committing' :
            q1 # q2 => CallLocks(q1) \cap CallLocks(q2) = {}
      BY <2>3, <2>6
    <2>8. LockInv'
      BY <2>3, <2>5, <2>7, LossStep DEF IInv
    <2> QED
      BY <1>2, <2>2, <2>8
  <1> QED
    BY <1>3, <1>4 DEF Start, HeartBeat, HeartBeatMissed

LEMMA CrashLocks ==
    ASSUME IInv, NEW n \in Node, Crash(n)
    PROVE  LockInv' /\ CallsMatch' /\ NoStrayWorker'
  <1> DEFINE lost == {l \in locked : l[1] = n}
             D == {r \in Committing : r.dest # n}
  <1>1. /\ \A m, addr : \A l \in Locks(m, addr) : l[1] = m
        /\ locked' = locked \ lost
    BY DEF Locks, Crash
  <1>2. \A w \in Writer : WriteLocks(w)' = WriteLocks(w) \ lost
    <2> SUFFICES ASSUME NEW w \in Writer
                 PROVE  WriteLocks(w)' = WriteLocks(w) \ lost
      OBVIOUS
    <2>1. write'[w] = IF write[w].node = n THEN NoWrite ELSE write[w]
      BY DEF Crash
    <2>2. WriteLocks(w) \subseteq locked
      BY HeldBy DEF IInv, LockInv
    <2> QED
      BY <1>1, <2>1, <2>2 DEF WriteLocks, NoWrite
  <1>3. \A c \in Checker : CheckLocks(c)' = CheckLocks(c) \ lost
    <2> SUFFICES ASSUME NEW c \in Checker
                 PROVE  CheckLocks(c)' = CheckLocks(c) \ lost
      OBVIOUS
    <2>1. CheckLocks(c)' = IF check[c].node = n THEN {} ELSE CheckLocks(c)
      BY LostReadLocks DEF IInv
    <2>2. CheckLocks(c) \subseteq locked
      BY HeldBy DEF IInv, LockInv
    <2> QED
      BY <1>1, <2>1, <2>2 DEF CheckLocks
  <1>4. PICK undelivered \in SUBSET Undelivered(n),
             late \in SUBSET {r \in rpc : r.dest = n /\ r.st = "done"} :
          rpc' = {r \in Abandon(n, undelivered) : r.dest = n => r \in late}
    BY DEF Crash
  <1> DEFINE G == Orphan(n)
  <1>g. /\ \A r \in Committing : CallLocks(G[r]) = CallLocks(r)
                                   /\ G[r].dest = r.dest
        /\ {r \in Abandon(n, undelivered) : r.st = "commit"}
             = {G[r] : r \in Committing}
    BY OrphanKeeps DEF IInv
  <1> HIDE DEF G
  <1>5. Committing' = {G[r] : r \in D}
    <2>1. \A r \in late : r.st = "done"
      OBVIOUS
    <2>2. Committing' = {r \in {q \in Abandon(n, undelivered) : q.st = "commit"} :
                           r.dest # n}
      BY <1>4, <2>1 DEF Committing
    <2>3. Committing' = {r \in {G[q] : q \in Committing} : r.dest # n}
      BY <2>2, <1>g
    <2> QED
      BY <2>3, <1>g
  <1>6. \A r \in Committing : CallLocks(r) = Locks(r.dest, r.addr)
                                /\ CallLocks(r) \subseteq locked
    BY HeldBy DEF IInv, LockInv, CallLocks, Committing
  <1>7. /\ \A r \in D : /\ CallLocks(G[r]) = CallLocks(r)
                        /\ CallLocks(r) \cap lost = {}
        /\ \A r \in Committing \ D : CallLocks(r) \subseteq lost
    BY <1>1, <1>6, <1>g
  <1>8. LockInv'
    <2>1. \A r1, r2 \in Committing :
            r1 # r2 => CallLocks(r1) \cap CallLocks(r2) = {}
      BY ExclusiveBy DEF IInv, LockInv
    <2>2. \A q1, q2 \in Committing' :
            q1 # q2 => CallLocks(q1) \cap CallLocks(q2) = {}
      BY <1>5, <1>7, <2>1
    <2>3. \A q \in Committing' : \E r \in Committing :
            CallLocks(q) = CallLocks(r) /\ CallLocks(r) \cap lost = {}
      BY <1>5, <1>7
    <2>4. \A r \in Committing : \/ CallLocks(r) \subseteq lost
                                \/ \E q \in Committing' : CallLocks(q) = CallLocks(r)
      BY <1>5, <1>7
    <2> HIDE DEF lost
    <2> QED
      BY <1>1, <1>2, <1>3, <2>2, <2>3, <2>4, LossStep DEF IInv
  <1>9. \A r \in rpc' : r.caller # None => r \in rpc /\ r.dest # Peer(n)
    BY <1>4, AbandonKeeps DEF IInv
  <1>10. /\ \A w \in Writer : write[w].node # n => write'[w] = write[w]
         /\ \A x \in Node \X SubThread :
              IF x[1] = n THEN worker'[x] = NoWork ELSE worker'[x] = worker[x]
         /\ \A m \in Node : m # n => consumer'[m] = consumer[m]
    BY DEF Crash, IInv, TypeOK
  <1>11. CallsMatch'
    BY <1>9, <1>10, CallerCases DEF IInv, CallsMatch
  <1>12. NoStrayWorker'
    BY <1>10 DEF IInv, NoStrayWorker, NoWork
  <1> QED
    BY <1>8, <1>11, <1>12

-----------------------------------------------------------------------------

LEMMA InitLocks == Init => IInv
  <1> SUFFICES ASSUME Init PROVE IInv
    OBVIOUS
  <1>1. /\ \A w \in Writer : WriteLocks(w) = {}
        /\ \A c \in Checker : CheckLocks(c) = {}
        /\ Committing = {} /\ locked = {}
    BY DEF Init, WriteLocks, CheckLocks, NoWrite, NoCheck, Committing
  <1>2. LockInv
    BY <1>1, HeldBy, ExclusiveBy DEF LockInv
  <1>3. CallsMatch /\ NoStrayWorker
    BY DEF Init, CallsMatch, NoStrayWorker, NoWork
  <1> QED
    BY <1>2, <1>3, InitType DEF IInv

LEMMA StepLocks ==
    ASSUME IInv, [Next]_vars
    PROVE  LockInv' /\ CallsMatch' /\ NoStrayWorker'
  <1>1. CASE \E n \in Node : Start(n) \/ HeartBeat(n) \/ HeartBeatMissed(n)
                               \/ Break(n) \/ Crash(n) \/ Consumer(n)
    BY <1>1, ProcessLocks, CrashLocks, ConsumerLocks
  <1>2. CASE \E w \in Writer : WriteArrives(w) \/ WriteStep(w)
    <2>1. worker' = worker /\ consumer' = consumer
      BY <1>2 DEF WriteArrives, WriteAlone, WriteMirrored, WriteStep,
           WriteReplicated, WriteRejected, WriteCommitFailed, WriteCommitted,
           WriteCommitOp, WriteValid, WriteAloneCommitted, WriteEnqueue, replica
    <2>2. NoStrayWorker'
      BY <2>1 DEF IInv, NoStrayWorker
    <2> QED
      BY <1>2, <2>2, WriteArrivesLocks, WriteStepLocks
  <1>3. CASE \E r \in rpc : Serve(r) \/ Unreachable(r)
    <2>1. worker' = worker /\ consumer' = consumer
      BY <1>3 DEF Serve, ServeReplicate, ServeCommit, ServeCommitOp,
                  Unreachable, replica
    <2>2. NoStrayWorker'
      BY <2>1 DEF IInv, NoStrayWorker
    <2> QED
      BY <1>3, <2>2, ServeLocks
  <1>4. CASE \E x \in Node \X SubThread : Worker(x)
    BY <1>4, WorkerLocks
  <1>5. CASE \E c \in Checker : CheckArrives(c) \/ CheckStep(c)
    <2>1. worker' = worker /\ consumer' = consumer
      BY <1>5 DEF CheckArrives, CheckLocal, CheckStep, CheckRemote,
                  CheckAnswer, replica
    <2>2. NoStrayWorker'
      BY <2>1 DEF IInv, NoStrayWorker
    <2> QED
      BY <1>5, <2>2, CheckerLocks
  <1>6. CASE UNCHANGED vars
    <2>1. /\ write' = write /\ check' = check /\ worker' = worker
          /\ consumer' = consumer /\ rpc' = rpc /\ locked' = locked
      BY <1>6 DEF vars, server, replica
    <2>2. Committing' = Committing /\ CallsMatch' /\ NoStrayWorker'
      BY <2>1 DEF Committing, IInv, CallsMatch, NoStrayWorker
    <2> QED
      BY <2>1, <2>2, QuietStep DEF IInv
  <1> QED
    BY <1>1, <1>2, <1>3, <1>4, <1>5, <1>6 DEF Next

LEMMA Invariance == Spec => []IInv
  <1>1. ASSUME IInv, [Next]_vars, TypeOK'
        PROVE  IInv'
    BY <1>1, StepLocks DEF IInv
  <1> QED
    BY InitLocks, TypeCorrect, <1>1, PTL DEF Spec

\* No return path of Write, CommitBlock or CheckConsistancy, and no crash, leaves
\* a mutex locked that no handler will unlock.
THEOREM LocksReturned == Spec => []NoLockLeaked
  <1>1. IInv => NoLockLeaked
    BY DEF IInv, LockInv
  <1> QED
    BY Invariance, <1>1, PTL

\* No two handlers ever hold a mutex of the same block on the same node.
THEOREM MutualExclusion == Spec => []LocksExclusive
  <1>1. IInv => LocksExclusive
    BY DEF IInv, LockInv
  <1> QED
    BY Invariance, <1>1, PTL
=============================================================================

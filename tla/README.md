# A model of the replicated block store

`src/hafs` is a block store on two mirrors: two server processes that each keep
4096-byte blocks in files, mirror every write to each other over gRPC, go on
alone while the other is down, and replay what the other missed when it is
back. This directory holds a TLA+ model of it, the TLC runs that check the
model on small instances, and proofs about it for all instances.

## The system

| Part | Source | State | Operations |
|---|---|---|---|
| `BlockManager` | `block_manager.h` | block files under `<path>` and staged ones under `<path>-tmp`; a mutex per block; the commit log | `read`, `write` (stage), `commit`, `lockAddress`, `unlockAddress`, `LogCommittedBlocks` |
| `HafsImpl` | `server.cc` | role; a `BlockManager` and a `Replicator` | RPC handlers `Read`, `Write`, `ReplicateBlock`, `CommitBlock`, `CheckConsistancy`, `HeartBeat` |
| `Replicator` | `replicator.h` | queue of addresses to replay, a map of the same addresses, `health` | `addPendingBlock`, `removeAndGetLastPendingBlock`, the `consumer` thread and its `numCPU` sub-threads |
| `HafsClient` | `client_impl.h` | `isAlive` and `replicatorHealth` of the server it is connected to | a call per RPC, and a heartbeat thread |
| `HafsClientFactory` | `client_lib.h` | a `HafsClient` per mirror | `Write`, `Read`, `CheckConsistancy`, sent to the mirror that looks fit |
| `SHA256` | `SHA256.cc` | a buffer of up to two blocks, two counters, the hash so far | `update`, `final`; `sha256` for a whole string |
| test programs | `ConsistancyTest.h` | the addresses written | write, then check |

How they interact. A gRPC handler runs in a thread of its own. `Write` takes the
mutex of each block it touches and, if the last heartbeat of the other mirror
succeeded, calls its `ReplicateBlock` (stage), stages locally, calls its
`CommitBlock`, commits locally, and unlocks; if a call fails it answers INVALID.
If the other mirror looks dead it stages and commits locally and queues the
address. Each node's consumer thread wakes up every other second; when the other
mirror looks alive and the queue is not empty it starts sub-threads that pop an
address, read the block (without its mutex), and replay it with the same two
calls; a failed replay is queued again. The queue is in memory; the files are
the only thing a crash leaves. No call has a deadline.

What is hard in it: locks held across calls to the other process, which needs
the same locks; a liveness flag up to a second old; a replay that races new
writes; a queue examined outside its lock; commits that are not atomic; crashes
at any of these points; calls that still run after their caller is gone. Each is
an entry of `hazards` in PROJECT.json, at its line, with the properties that
cover it.

What makes the parts correct:

- *BlockManager*: what is read at an address is what was last committed there,
  across block boundaries; other bytes keep their value.
- *HafsImpl*: mutexes are released by whoever took them, on every return path;
  a write answered VALID is on both mirrors or queued; every write returns.
- *Replicator*: queue and map agree; the queue is never popped empty (the code
  breaks this, see the runs; other properties say what holds until then); what is
  queued is eventually replayed; replays leave the mirrors equal.
- *Both mirrors*: wherever nothing is under way or queued the copies are equal.
- *HafsClient, HafsClientFactory*: an answer that says INVALID is not reported
  as success; a mirror that is behind serves no client.
- *SHA256*: what is hashed is the standard's padding of the message and nothing
  else, so that equal checksums mean equal blocks.

## Modules

| Module | Models | Role |
|---|---|---|
| `BlockStore` | `block_manager.h` | the block files of a node as pure operators: `Read`, `Write` (stage), `Commit` as a sequence of `remove` and `rename` operations, `Apply` for one of them |
| `Replication` | `server.cc`, `replicator.h`, `client_impl.h` | the pair of mirrors: processes, heartbeats, handlers, calls, the queue and its threads, crashes |
| `Mirrors` | | what the two mirrors of `Replication` promise together: two copies of an array of blocks that change one at a time, to what is written or replayed, and are equal elsewhere |
| `Failover` | `replicator.h`, `client_impl.h`, `client_lib.h` | `Replication` with the health each node derives and reports, and clients that choose a mirror by it |
| `BlockManager` | `block_manager.h` | one node's `Write` threads in finer steps: mutex by mutex, file operation by file operation, and the commit log |
| `Disk` | | what `BlockManager` promises: an array of bytes that writes change one block at a time |
| `ConsistancyTest` | `ConsistancyTest.h`, `client_impl.h`, `client_lib.h` | `Failover` with the test programs as its clients: writes, and checks that come back through `HafsClientFactory` |
| `Checksum` | `SHA256.cc` | the buffering and padding of the checksum that `CheckConsistancy` compares |
| `MCReplication`, `MCFailover`, `MCBlockManager`, `MCConsistancyTest` | | small instances for TLC |
| `BlockStoreProofs` | | lemmas about the operators of `BlockStore`: their types, what is staged, what a commit does |
| `ReplicationProofs`, `LockProofs`, `MirrorProofs`, `AgreeProofs` | | theorems about `Replication` |
| `FailoverProofs` | | theorems about `Failover`, which implements `Replication`, and `ConsistancyTest`, which implements `Failover` |
| `BlockManagerProofs` | | theorems about `BlockManager`, which implements `Disk` |
| `ChecksumProofs` | | theorems about `Checksum` |

### Replication: state and actions

| Variable | In the code |
|---|---|
| `up` | the process runs |
| `store` | the files under `<path>` (`blk`) and `<path>-tmp` (`tmp`) |
| `locked` | the mutexes of `blockLocks` that are held |
| `isAlive` | `otherMirrorClient.isAlive` |
| `pending` | `pendingBlocks` and `pendinBlocksMap`; `underflow` once the queue was popped empty |
| `consumer`, `worker` | where the consumer thread and its sub-threads are |
| `write`, `check` | where each `Write` and `CheckConsistancy` handler is, with its locals; `todo` is what is left of a commit, `remote` what the other mirror's `Read` brought back (`None` if it failed) |
| `rpc` | the `ReplicateBlock` and `CommitBlock` calls from request to reply, with the state of the handler that serves them |
| `crashes`, `breaks` | how much of the bounds `MaxCrashes`, `MaxBreaks` is used up |
| `suspect` | history, see below |

A step is what no other thread can see half done: a test of `isAlive`, the
sending of a call, the serving of `ReplicateBlock` under its lock, one `remove`
or `rename`, one critical section of `queueLock`. `Write` is the actions
`WriteAlone`, `WriteMirrored` (first steps), `WriteReplicated`, `WriteRejected`,
`WriteCommitted`, `WriteCommitFailed`, `WriteCommitOp`, `WriteValid`,
`WriteAloneCommitted`, `WriteEnqueue`; `ReplicateBlock` is `ServeReplicate`;
`CommitBlock` is `ServeCommit` and `ServeCommitOp`; `CheckConsistancy` is
`CheckLocal` (lock, read here, send `Read`), `CheckRemote` (the other mirror serves
the `Read`, without a lock, while its own writes and commits go on) and `CheckAnswer`
(compare, unlock, answer); `Replicator::consumer` is `ConsumerDrain` and
`ConsumerJoin` (its other rounds change only the health: `Failover` has them); `consumerSubThread` is the `Worker...` actions.

`Crash` takes a process down at any point: memory, locks and threads go, files
stay. Of the calls it was waiting for, those not yet delivered may be lost; the
others run on with `caller = None`. The `Read` of a check on the other node fails if it
was not served yet, and may fail if its reply has not arrived. `Break` does all this to
the calls of a node that stays up. `HeartBeatMissed` is a heartbeat that fails although the other
process runs.

With more than one sub-thread the queue may be popped while it is empty, because
its emptiness is tested outside its lock. That is undefined behaviour of
`std::queue`; in the build it moves the start of the deque's window past its end.
The sub-thread then holds some address, `empty()` is false for ever, and a pushed
address may fall outside the window: it is in the map and in no queue (`PushOutside`).
`pending.underflow` says that this has happened on the node, `PoppedEmpty` on either.
After it the properties about the queue itself (`QueueCoherent`, `WritesReturn`,
`Reintegrated`, `HealthSettles`) claim nothing; those about the copies still hold, with
the dropped address's blocks suspect.

`suspect` collects the blocks that something the code does not guard against may
have set apart: two operations on a block at once (a replay and a write, or one
write at each mirror, or an abandoned call), a `CommitBlock` that failed, a
crash that loses a queued address or interrupts a commit, or a queue that was popped
empty and drops an address. No action reads it.
`MirrorsAgree`, `ValidIsMirrored` and `SurvivesCrash` speak of the other blocks, so together they
say that these hazards are the *only* ways the mirrors come apart; the
violation runs show single instances of the hazards. (`MirrorsAgree` also leaves
out the block past `INT_MAX` that an address in the last block reaches into. There
`write` fills the rest of the block with zeros, so one mirror's write changes bytes
that no queued address covers, and the mirrors stay different.) Two overlaps are harmless
and do not make a block suspect: a local write while this node replays the same
address (the write queues it again), and a crash in the middle of the commit of
a replayed, aligned block (the sender queues it again).

`ImplementsMirrors` maps this to `Mirrors`: the two copies of a block are what the
block files of the two nodes show (`Copy`), where a commit under way counts as done;
a write brings its bytes once the other node has staged them (`Brought`); a node is
behind in the bytes that the other one has queued for it or is replaying
(`Behind`); nothing is promised of suspect blocks. `MirrorsAgree` is about moments
of rest; this is about every step: none changes both copies, or a byte to anything
but what a write brings, unless the copy it changes is behind there, and wherever
nothing is brought or behind the copies are equal after it. A stale block that is staged
and committed on both mirrors, which leaves them equal, is a step `Mirrors` does not have.

### Failover: state and actions

| Variable | In the code |
|---|---|
| `health` | `Replicator::health` |
| `mirrorAhead` | `otherMirrorClient.replicatorHealth == REINTEGRATION_AHEAD`, all the consumer asks of it |
| `fit` | of each client, whether `primary.isAlive` and `primary.replicatorHealth` pass the test of `HafsClientFactory` |
| `call` | of each client, the `Write` it waits for: sent, being served, or none |

`Boot`, `Beat` and `Fail` are `Start`, the heartbeats and `Crash` of
`Replication` together with what they do to the reports: a heartbeat brings the
other node's health of that moment, a missed one counts as UNHEALTHY. The rounds
of `Replicator::consumer` are `RoundAlone` (the other mirror looks dead),
`RoundDrain` and `ConsumerJoin` (there is something to replay) and `RoundIdle`.
A client's `Write` is `ClientWrite` (the choice of mirror, from a report that
may be a second old), `Arrive` (the request is at the server and has its locks),
the handler's steps in `Handle`, and the answer, or `Refused` when there is no
server. `Replicate` is what else goes on between the mirrors and `Checks` the checks
clients make, both as in `Replication`. Each `Writer`
of `Replication` is a client here, so it has one call at a time.

### BlockManager: state and actions

| Variable | In the code |
|---|---|
| `up` | the process runs |
| `store` | the files under `<path>` and `<path>-tmp` |
| `log` | the addresses that have a line, or more, in `<path>/CommitedLog` |
| `hash` | `hashCommittedBlocks` |
| `locked` | the mutexes of `blockLocks` that are held |
| `handler` | where each `Write` is, with its address, its data and what is left of its commit |
| `answered` | history: the addresses of the writes that were answered |
| `crashes` | how much of `MaxCrashes` is used up |

`Lock` and `LockNext` are `lockAddress`, `Stage` is `write`, `CommitOp` one
`remove` or `rename` of `commit`, `UnlockNext` and `Unlock` are `unlockAddress`
and the answer. `Crash` leaves files and log; `Start` is the constructor with
`InitHash`.

`LogCommittedBlocks` is `Found` or `NotFound`, then `AppendLog` and `Insert`. Its
look-up in `hashCommittedBlocks` takes no lock, while the insertion of another
thread is under `CommittedLogLock`: a data race. A look-up that overlaps an
insertion (`Inserting # {}`) may therefore miss an address that is there and log
it a second time (`appendAgain`); it cannot find one that is not. That it could
also run into memory the insertion has freed and take the process down is a
`Crash`, possible at any time anyway.

`ImplementsDisk` maps this to `Disk`: the disk is what the block files show, with
one exception. A block whose old file is removed and whose new one is not yet
renamed counts as replaced already (`Shown`): no other writer can come between,
as the mutex is held. If the process stops exactly there, the mapped state loses
the block, which `Disk` allows of a crash and only of a crash.

### ConsistancyTest: state and actions

| Variable | In the code |
|---|---|
| `alive` | the `isAlive` of the two `HafsClient`s of each program's factory |
| `test` | how far the program is: between calls, in a `CheckConsistancy` sent or served, stopped with a failure; the addresses it has written |

Each `Writer` of `Failover` is one program. `TestWrite` is its `Write`, whose
result it ignores. `TestCheck` is `HafsClientFactory::CheckConsistancy`: if both
mirrors look alive the primary is asked; otherwise control falls off the end of
the function, and the caller sees an arbitrary value. `TestServed` starts the
server's handler (`CheckLocal` of `Replication`, in an unused `Checker`),
`TestAnswered` is its answer (`CheckAnswer`) together with
`HafsClient::CheckConsistancy`, which returns *true* without looking at the status, and `TestUnanswered` a call that
fails. `Serving` is the rest of `Failover`.

### Checksum: state and actions

| Variable | In the code |
|---|---|
| `ctx` | a `SHA256` object: `h` for `m_h`, `tot` for `m_tot_len`, `len` for `m_len`, `block` for `m_block` |
| `msg` | history: the bytes `update` was given |
| `digest` | what `final` left in its argument |

`UpdateCall` and `FinalCall` are `update` and `final`; `sha256` is one of each, on
an object of its own (`NextCall`). `m_h` is taken to be the sequence of all bytes
that were compressed into it, that is, the rounds of `transform` are taken to be
an ideal hash: what the control of this code decides is which bytes get there.
`tot` is an `unsigned int`, modulo `WORD`, and `final` stores only 32 of the 64
bits of the length, as the code does.

### What the models leave out

- `Replication` takes both mutexes of an unaligned access in one step;
  `BlockManager` takes them one by one, as the code does, in ascending order.
- Waiting for a mutex: in `Replication` a handler appears when it has its locks,
  so `WritesReturn` is about writes that have got that far. In `Failover` the
  request waits (`call.pc = "sent"`), and so do handlers in `BlockManager`.
- `ServeReplicate` locks, stages and unlocks in one step: what is staged is seen
  only by commits, which need the same lock.
- A read of the files happens at one instant: a sub-thread's of the block it
  replays, a client's, either one of a check's two. It can still fall between the
  `remove` and the `rename` of a commit.
- A round of the consumer in `Failover` tests `isAlive`, the queue and the other
  mirror's health at one instant.
- A started process serves at once; in the code its port opens a moment after
  its consumer and heartbeat threads start.
- A pop of the empty queue returns some address of `Addr`; the real outcome is
  whatever the memory holds. `Addr` may be any set of addresses, in the theorems too,
  and an address outside of it names other block files than the ones modelled.
- Memory the inverted queue reads or writes outside its window could also take
  the process down: a `Crash`, possible at any time anyway.
- Addresses are not negative, and data is always BLOCK_SIZE long. (A shorter
  string makes `data.substr` throw or `pwrite` read past its end.)
- Identical abandoned calls are one record: `rpc` is a set.
- `Break` fails all calls between the mirrors of a node at once, as a broken
  connection does. The connections of clients never break.
- `CheckVerdict` of `Replication` compares data, the code checksums: `Checksum`
  shows that this is the same up to collisions of SHA-256's rounds.
- The third operation of `CommitBlock`, `remove` of the temporary path, is after
  a `rename` of that path, so it always finds nothing; it is left out.
- A crash in the middle of staging leaves a partly written temporary file. The
  next write of the block rewrites it before any commit: it is not modelled.
- `LogCommittedBlocks` has a path without a `return` in a function that declares
  a result nobody reads; the build is a debug build, where this does nothing.
- File operations other than a `rename` of a missing file succeed. A crash takes
  the process, not the machine: what was written to a file is there afterwards,
  and a line of the log is written whole.
- In `Replication` checks arrive at either node at any time; `ConsistancyTest`
  has the clients that make them, one check at a time each.
- A heartbeat's role and block load, which nothing reads.

## Runs

`block_manager` uses `MCBlockManager`, `failover` and `stale_mirror` use
`MCFailover`, `check_lies` uses `MCConsistancyTest`, `checksum` uses `Checksum`,
the others `MCReplication`.

| Run | Instance | Properties |
|---|---|---|
| `mirrors_aligned` | one block of one byte; two writers, at either node, with two payloads; one checker; one sub-thread; one crash and one broken connection or missed heartbeat; writers symmetric | `TypeOK`, `MirrorsAgree`, `NoLockLeaked`, `LocksExclusive`, `ValidIsMirrored`, `CheckIsSound`, `SurvivesCrash` |
| `mirrors_unaligned` | two-byte blocks, an aligned and an unaligned address (two blocks), one writer, two sub-threads; one crash | `MirrorsAgree`, `QueueCoherent`, `ValidIsMirrored`, `ImplementsMirrors` |
| `reintegration` | one address, one writer at the primary, two sub-threads; two crashes, of either node; fairness; behaviours cut where a queue is popped empty | `WritesReturn`, `Reintegrated` |
| `block_manager` | two blocks of three bytes below `INT_MAX` and one past it; addresses 0, 2, 4 and 5, of which only 0 is aligned; two handlers; one crash; fairness | `TypeOK`, `ReadsBack`, `LoggedOnce`, `AnsweredIsLogged`, `NeverAllBlocked`, `ImplementsDisk`, `HandlersReturn` |
| `failover` | one address, one client, one sub-thread; one crash; fairness; one payload, as the run is not about data | `FTypeOK`, `HealthSettles` |
| `checksum` | blocks of 5 bytes, a length field of 2 of 4 bytes (one half stored); bytes 0 and 128, the two that padding is made of; messages of up to 10 bytes | `TypeOK`, `NothingLost`, `DigestIsStandard`, `TellsApart` |
| `queue_popped_empty` | violation, two sub-threads | `NoUnderflow` |
| `dead_mirror_not_queued` | violation | `WriteToDeadMirrorIsQueued` |
| `replay_races_write` | violation | `ConsistentAtRest` |
| `crossed_writes_deadlock` | violation, with fairness | `WritesReturn` |
| `stale_mirror` | violation | `ReadYourWrite` |
| `check_lies` | violation | `TrueMeansConsistent` |

Why the bounds are enough. The code treats addresses alike and blocks
independently, and an access touches at most two blocks: one block and one pair
of overlapping addresses show all the ways two operations can meet. The hazards
involve at most two operations and one failure; a second writer, and a second
crash in `reintegration` so that either node can be the one that comes back, go
one further. Races between a node's sub-threads need two, which
`mirrors_unaligned` and `reintegration` have. One-byte blocks are enough where all accesses are aligned; in
`mirrors_unaligned` the two bytes of a block differ, and so do those of the two
addresses' data, so that any misplaced byte shows. Suspicion is never lifted and
the properties of the two mirror runs say nothing of suspect blocks, so
`mirrors_aligned` cuts the search where every block is suspect
(`SomeBlockTrusted`: its lock properties and `MirrorsAgree` are proved without the cut) and
`mirrors_unaligned`, with two blocks and two sub-threads, at the first suspect
block (`NothingSuspect`).

In `block_manager` the addresses 0, 2, 4 and 5 share blocks in a chain, so that a
handler can wait for a mutex with another one held; 0 and 4 share none, so that
two handlers can be in `LogCommittedBlocks` at once; and 4 and 5 reach into the
block past `INT_MAX`, whose number times `BLOCK_SIZE` overflows in the code
(`SecondBase`). The bytes of the payload differ, so that any misplaced byte shows;
the crash can come between any two steps, and the restart reads back the log.
`INT_MAX` ends a block (`IntMaxBlockAssumption`), as 2^31 - 1 does for 4096 bytes.

`reintegration` cuts a behaviour where a queue is popped empty (`NeverPoppedEmpty`):
its properties hold of such a behaviour by their own words, `<>PoppedEmpty`, and TLC
takes no fair loop for one that only the cut makes. The queue without its end is
explored in `mirrors_unaligned`, as far as nothing is suspect.

`failover` has neither broken connections nor checks, one crash and one sub-thread: a
state space with liveness grows quickly. With one sub-thread no queue is popped empty,
so `HealthSettles` says here that health does settle. The same instance with two
sub-threads, cut like `reintegration`, holds too (`HealthSettles`, `Reintegrated` and
`WritesReturn`, 1.7 million states); at half an hour it is not kept as a run. Both nodes start down and in any order, so either can
be the one that comes up behind the other even before the crash. In `checksum`, ten
bytes are two blocks, so every fill of the buffer meets every length that does and
does not complete it, and padding takes one block and two; `DigestIsStandard` speaks
of the messages whose bits fit `tot` and the half of the length field that is
stored, here as in the code. Deadlock is checked in
all runs.

Fairness (`FairSpec`): each thread of a running process is scheduled
(`WriteStep`, `Worker`, `Consumer`, serving a call, `CheckStep`), heartbeats
come round (a `while(true)` loop with a one-second sleep), and a process that
crashed is started again, which is the operator's part. Clients are not obliged
to write. `Reintegrated` therefore speaks of runs in which clients stop writing
from some point on; crashes stop because they are bounded.

`FairFSpec` of `Failover` asks the same, and that a client's heartbeat comes
round and its request reaches the server. `FairSpec` of `BlockManager` asks that
each handler is scheduled, weakly: `std::mutex` is not fair, so a handler may be
passed over for ever while others keep coming. That is why `HandlersReturn`
speaks of runs in which clients pause.

The six violations are findings in PROJECT.json, with the lines of the
repository that say otherwise:

1. *queue_popped_empty*: two sub-threads see the last address of the queue, and the
   second pops an empty one. From there on its node's sub-threads may never finish, its
   consumer waits for them, and addresses it adds may never be replayed.
2. *dead_mirror_not_queued*: until the next heartbeat, a write to a mirror that
   has died is rejected, not queued.
3. *replay_races_write*: a replay overwrites a newer mirrored write with the
   older data it read.
4. *crossed_writes_deadlock*: writes of one block, one at each mirror, each hold
   the lock the other's call needs.
5. *stale_mirror*: a primary that has just started calls itself HEALTHY although
   the backup has writes queued for it, so a client that wrote to the backup reads
   the old data from the primary.
6. *check_lies*: the client's `CheckConsistancy` returns true for any answer; the
   server's answer was that the mirrors differ.

## Proofs

`tlapm` checks every step, for any block size, addresses, payloads, numbers of
writers, checkers and sub-threads, and bounds, from the named assumptions the
modules state about their constants.

**Types.** `TypeCorrect`, `FTypeCorrect` and `NodeTypeCorrect` are the type
invariants of the three specifications: one lemma per group of actions, on lemmas
about the operators of `BlockStore` (`ReadType`, `WriteType`, `CommitType`,
`ApplyType`).

**Mutexes** (`LockProofs`). `LocksReturned` is `[]NoLockLeaked`, `MutualExclusion`
is `[]LocksExclusive`. Together they are nearly inductive: a step either leaves
the locks alone, or one handler takes or gives back all of its own, and a
general lemma for each of these (`QuietStep`, `WriterStep`, `CheckerStep`,
`CallStep`) does the set theory once. What is missing is that a thread which
takes its finished call out of `rpc` takes out a finished one: were it one that is
still committing, that call's locks would have no owner. So the inductive
invariant `IInv` adds `CallsMatch` (a call's caller waits for exactly this call,
which was sent from its node to the other) and, for that to survive the start of
new sub-threads, `NoStrayWorker` (a consumer in its loop has none left from the
round before).

**The queue** (`ReplicationProofs`). `QueueMatchesMap` is `[]QueueCoherent`: pushing
an address that the map does not have, and popping the head of a queue without
duplicates, keep the two in step, for any number of sub-threads, until one of them
pops an empty queue.

**A VALID answer** (`MirrorProofs`). `ValidWritesAreMirrored` is
`Spec => ValidIsMirrored`. The invariant `MirrorInv` says of every writer what it has
achieved where (`Here`): the data is staged, or committed as far as its `todo`
says, or can be read. As long as its blocks are trusted it says the same of the
other node and the writer's call there (`There`), and that nobody else is at
these blocks (`Sole`): no second writer, no replay, and no call but the writer's own
or, after that was lost, the abandoned one. A step that brings a second operation
to a block makes it suspect, so that `Sole` is kept for what stays trusted; and
what nobody else touches stays as staged. `CallsFit` says where a call with a
caller can be: at the other node and the same address, in the phase the caller's
own position allows. `CommittedSurvives` is `Spec => SurvivesCrash`, from the same
invariant: once its `CommitBlock` is answered, `There` says that the data can be read
on the other node, and a crash of its own changes nothing there.

**Equal mirrors** (`AgreeProofs`). `MirrorsStayEqual` is `Spec => []MirrorsAgree`:
at rest, what is not queued is equal. A state at rest says nothing of how it was
reached, so the invariant `AgreeInv` describes a trusted block (not suspect, and
not past `INT_MAX`) while operations are under way. At most one write, one replay
and one call are at it, and all are of one address (`Family`). What they have
staged is there, and agrees with the block in every byte the address does not
cover (`Ready`), so that committing it cannot bring back older bytes. A call
brings the byte its write carries, given up or not, or the one its replaying node
shows, unless that address will be replayed again anyhow (`Faithful`). All bytes agree but those
covered by a write past its replication, by a replay or by a queued address
(`Loose`, `Agree`), where a commit in progress counts as done (`At`, `Shows`): a
`remove` without its `rename` is no difference. An abandoned `CommitBlock`, which
still runs after its caller gave up, is of an address that is written, or that the
node it came from replays or has queued, so what it does shows only in loose bytes
(`Backed`). A crash loses its
node's queue, replays and commits, which makes their blocks suspect
(`LostInCrash`); a block it leaves trusted had there at most a write that was still
replicating, or a commit of a replay of an aligned address, all of whose bytes are
loose for as long as the other node replays it (`CrashedNear`).

**Two copies** (`AgreeProofs`). `ReplicationMirrors` is `Spec => ImplementsMirrors`. The
lemma of each action says, besides that it keeps `AgreeInv`, what the action does to
what a block shows: nothing (`Quiet`), or a change on one node only, to bytes a
write brings or while that node is behind (`Moved`). Three actions do more than
nothing. `WriteAlone` and `WriteCommitted` begin a commit of what is staged here, whose
bytes are the write's (`MirrorInv`) or the block's present ones (`Ready`).
`ServeCommit` begins one on the other node, of whatever was staged there: by
`Faithful` and `Backed` that is what a write brings, or the node is behind
(`CommitBrought`). And a crash in the middle of a commit undoes what `Copy` counted
as done, on the node that crashed: such a block becomes suspect, or the other node
is replaying all of it. `NextMoves` puts the actions together, with one node for all
blocks. `Copy` is `At` of the invariant (`CopyAt`), and `Agree` says that where the copies
differ something is brought or behind (`LooseSeen`).

**Checks** (`AgreeProofs`). `ChecksAreSound` is `Spec => CheckIsSound`. A check reads
its own node, and the other one serves its `Read` some steps later. That the check's data
is still what is in its files then, and as it answers, is `Sight`: no step changes a
block's files but by a handler that holds its mutex, and that is the check's. So the
comparison is one of the two copies at the moment the `Read` is served, and `MirrorsAgree` says
when those are equal. Nothing is claimed of the other copy at the moment of the answer:
the other mirror holds no lock for the check and may have committed in between, as one
that takes this node for dead does.

**Failover** (`FailoverProofs`). `FailoverReplicates` is `FSpec => Spec`: every
step of `Failover` is a step of `Replication` or leaves its variables alone. For
`Arrive` that needs an invariant, that what clients send is a node, an address
and a payload. All theorems about `Replication` hold of `Failover` because of it;
`FailoverExclusion` and the first part of `FTypeCorrect` are obtained that way.

**The commit log** (`BlockManagerProofs`). `LogHasNoDuplicates` is
`[]LoggedOnce` and `LogIsComplete` is `[]AnsweredIsLogged`. The look-up of
`LogCommittedBlocks` is not under `CommittedLogLock`, so the argument must come
from the block mutexes: two handlers between look-up and append have different
addresses, because each holds the mutex of its first block. The inductive
invariant `LogInv` says that every handler holds the mutexes its position calls
for (`HeldLocked`), that no two hold the same (`HeldApart`), that
`hashCommittedBlocks` is the log but for the address being inserted
(`HashIsLog`), that a handler about to append after an honest look-up has an
address that is not in the log (`LoggedOnce`), and one past the append an address
that is (`LookedUp`).

**No deadlock among mutexes** (`BlockManagerProofs`). `HandlersNeverAllBlocked` is
`[]NeverAllBlocked`: never do all handlers wait for a mutex, so `lockAddress` cannot
deadlock by itself. `LogInv` says also that every locked mutex is held by a handler
(`HeldLeft`). If all waited, those holding anything would wait for their second mutex with
only their first held; the one with the greatest first block (`Greatest`) waits for
the block after it, which somebody must hold as his first: a greater one. That
argument is the reason why both mutexes are taken in ascending order.

**The disk** (`BlockManagerProofs`). `WritersReadBack` is `[]ReadsBack`, and
`NodeIsDisk` is `Spec => ImplementsDisk`: every node is a `Disk`, for any block
size, addresses, handlers and crashes. Two facts about the operators carry it.
`WriteStages`: what `write` stages for a block is that block overlaid with the
data (`Over`), whether the address is aligned, whether the block is the first or
the second, and beyond `INT_MAX`. `CarriedReads`: blocks that carry the data read
back as it. The invariant `FilesInv` follows a commit through its operations: a
block still to be removed has `Over` of its present content staged, so that the
copy is not stale; one removed and not yet renamed is missing and has the new
content staged; one renamed carries the data. It holds because no other handler's
step touches a block whose mutex one holds (`WorkingApart`). Then each `remove` is
`Put` of the disk, a crash is `Stop` with the blocks that are between the two
operations, and all other steps leave the disk alone (`DiskNext`).

**The test programs** (`FailoverProofs`). `TestsAreClients` is
`TSpec => FSpec`: a program's writes and checks are writes and checks any client may
make, so all theorems above hold with them. `TTypeCorrect` is their type invariant;
it needs that no two programs share a handler.

**The checksum** (`ChecksumProofs`). `BufferKeepsMessage` is `[]NothingLost` for
any block size and messages of any length: one lemma for the branch of `update`
that only buffers and one for the branch that compresses, each an equation of
sequences. `ChecksumTypes` is the type invariant. `FinalPads` says what `final`
hashes: the message, the byte 128, zeros, and the length in the last bytes
(`Padded`), whatever older bytes the buffer held. `DigestsTellApart` is
`[]TellsApart`: padding can be read back in one way only, because the message ends
before the last byte of what precedes the length that is not zero (`PaddedApart`), so
two messages with one digest are equal, be their lengths beyond the counter or not.
`DigestsAreStandard` is `[]DigestIsStandard`: the standard's total length is the only
multiple of the block size in a window as long as a block (`OneMultiple`), which is
what `final` computes by its comparison; the length field agrees as long as the
message's bits fit an `unsigned int`, and only so long.

Only model-checked: the liveness properties `WritesReturn`, `Reintegrated`,
`HandlersReturn` and `HealthSettles`. They rest on fairness and so on `ENABLED`, which
is out of the prover's reach. Every invariant and every action property of a passing
run is a theorem.

## Not modelled

The command-line arguments (`common.cc`), which have no state. The rounds of
SHA-256, arithmetic without control. The client programs that only write, print
what heartbeats report, or measure (`basic_read_write.cc`, `recovery_testing.cc`,
`status_checker.cc`, `timer.h`, `metric.h`): their expectations are the properties
of the violation runs. The first server in `src/` outside `hafs/`: it does not
compile, and nothing uses it. PROJECT.json lists every part with what is and is
not covered.

## Plan

Done: all modules above, their runs and theorems. What could come next, in this
order:

1. Readers that run between the steps of a commit in `BlockManager`: `Read` takes
   no mutex.
2. `Failover` with broken connections and two clients.
3. Clients in `Failover` that read, and what they see after a pop of the empty queue.

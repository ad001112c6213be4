---------------------------- MODULE BlockManager ----------------------------
(***************************************************************************)
(* One node on its own: the threads of HafsImpl::Write while the other     *)
(* mirror is down, in the steps block_manager.h takes.  A thread takes the *)
(* mutexes of its blocks one by one, stages, commits file operation by     *)
(* file operation, logs the address if the log does not have it yet, and   *)
(* unlocks.  A crash at any point keeps the files and nothing else.         *)
(* hashCommittedBlocks is looked up without the lock it is changed under:   *)
(* a look-up that overlaps an insertion may miss an address it has.         *)
(*                                                                         *)
(* Disk says what all this amounts to.                                     *)
(***************************************************************************)
EXTENDS BlockStore, FiniteSets

CONSTANTS
    Handler,   \* the Write calls that can be in progress at once
    Payload,   \* what clients write
    MaxCrashes \* bound: crashes

ASSUME PayloadAssumption == Payload \subseteq Content
ASSUME BoundAssumption == MaxCrashes \in Nat

VARIABLES
    up,       \* the process is running
    store,    \* its block files
    log,      \* the addresses with a line, or more, in <root>/CommitedLog
    hash,     \* hashCommittedBlocks
    locked,   \* the blocks whose mutex is held
    handler,  \* the Write handlers
    answered, \* history: the addresses of the writes answered
    crashes

vars == <<up, store, log, hash, locked, handler, answered, crashes>>

Idle == [pc |-> "idle", addr |-> None, data |-> None, todo |-> <<>>]

HandlerState ==
    {Idle} \cup
    [pc : {"lock", "lockNext", "stage", "commit", "look", "append",
           "appendAgain", "insert", "unlockNext", "unlock"},
     addr : Addr, data : Payload, todo : Seq(FileOp)]

TypeOK ==
    /\ up \in BOOLEAN
    /\ store \in Store
    /\ log \subseteq Addr
    /\ hash \subseteq Addr
    /\ locked \subseteq Block
    /\ handler \in [Handler -> HandlerState]
    /\ answered \subseteq Addr
    /\ crashes \in 0..MaxCrashes

Init ==
    /\ up = FALSE
    /\ store = EmptyStore
    /\ log = {}
    /\ hash = {}
    /\ locked = {}
    /\ handler = [h \in Handler |-> Idle]
    /\ answered = {}
    /\ crashes = 0

First(h) == GetBlockNumber(handler[h].addr)

\* Where a handler that holds all its mutexes, or is to release them, goes on.
Locking(h)   == IF IsAlligned(handler[h].addr) THEN "stage" ELSE "lockNext"
Unlocking(h) == IF IsAlligned(handler[h].addr) THEN "unlock" ELSE "unlockNext"

-----------------------------------------------------------------------------
Call(h, addr, data) ==
    /\ up
    /\ handler[h].pc = "idle"
    /\ handler' = [handler EXCEPT ![h] = [pc |-> "lock", addr |-> addr,
                                          data |-> data, todo |-> <<>>]]
    /\ UNCHANGED <<up, store, log, hash, locked, answered, crashes>>

\* Mutant: the second block is not locked.
LockFirst(h) ==
    /\ handler[h].pc = "lock"
    /\ First(h) \notin locked
    /\ locked' = locked \cup {First(h)}
    /\ handler' = [handler EXCEPT ![h].pc = "stage"]
    /\ UNCHANGED <<up, store, log, hash, answered, crashes>>

\* lockAddress, one mutex at a time.
Lock(h) ==
    /\ handler[h].pc = "lock"
    /\ First(h) \notin locked
    /\ locked' = locked \cup {First(h)}
    /\ handler' = [handler EXCEPT ![h].pc = Locking(h)]
    /\ UNCHANGED <<up, store, log, hash, answered, crashes>>

LockNext(h) ==
    /\ handler[h].pc = "lockNext"
    /\ First(h) + 1 \notin locked
    /\ locked' = locked \cup {First(h) + 1}
    /\ handler' = [handler EXCEPT ![h].pc = "stage"]
    /\ UNCHANGED <<up, store, log, hash, answered, crashes>>

Stage(h) ==
    /\ handler[h].pc = "stage"
    /\ store' = Write(store, handler[h].addr, handler[h].data)
    /\ handler' = [handler EXCEPT ![h].pc = "commit",
                                  ![h].todo = Commit(handler[h].addr)]
    /\ UNCHANGED <<up, log, hash, locked, answered, crashes>>

CommitOp(h) ==
    /\ handler[h].pc = "commit"
    /\ store' = Apply(store, Head(handler[h].todo))
    /\ handler' = [handler EXCEPT
                     ![h].pc = IF Len(handler[h].todo) = 1 THEN "look" ELSE @,
                     ![h].todo = Tail(@)]
    /\ UNCHANGED <<up, log, hash, locked, answered, crashes>>

Missing(h) == handler[h].addr \notin hash

\* The insertions in progress, which CommittedLogLock serializes.
Inserting == {h \in Handler : handler[h].pc = "insert"}

\* Mutant: the branches are swapped.
FoundSwapped(h) ==
    /\ handler[h].pc = "look"
    /\ Missing(h)
    /\ handler' = [handler EXCEPT ![h].pc = Unlocking(h)]
    /\ UNCHANGED <<up, store, log, hash, locked, answered, crashes>>

\* LogCommittedBlocks looks for the address without CommittedLogLock ...
Found(h) ==
    /\ handler[h].pc = "look"
    /\ ~Missing(h)
    /\ handler' = [handler EXCEPT ![h].pc = Unlocking(h)]
    /\ UNCHANGED <<up, store, log, hash, locked, answered, crashes>>

NotFound(h) ==
    /\ handler[h].pc = "look"
    /\ Missing(h) \/ Inserting # {}
    /\ handler' = [handler EXCEPT ![h].pc =
                     IF Missing(h) THEN "append" ELSE "appendAgain"]
    /\ UNCHANGED <<up, store, log, hash, locked, answered, crashes>>

\* ... and under it appends the address to the file, then to the hash.
AppendLog(h) ==
    /\ handler[h].pc \in {"append", "appendAgain"}
    /\ Inserting = {}
    /\ log' = log \cup {handler[h].addr}
    /\ handler' = [handler EXCEPT ![h].pc = "insert"]
    /\ UNCHANGED <<up, store, hash, locked, answered, crashes>>

Insert(h) ==
    /\ handler[h].pc = "insert"
    /\ hash' = hash \cup {handler[h].addr}
    /\ handler' = [handler EXCEPT ![h].pc = Unlocking(h)]
    /\ UNCHANGED <<up, store, log, locked, answered, crashes>>

\* Mutant: the second mutex stays locked.
UnlockNextNot(h) ==
    /\ handler[h].pc = "unlockNext"
    /\ handler' = [handler EXCEPT ![h].pc = "unlock"]
    /\ UNCHANGED <<up, store, log, hash, locked, answered, crashes>>

\* unlockAddress, the second block first.
UnlockNext(h) ==
    /\ handler[h].pc = "unlockNext"
    /\ locked' = locked \ {First(h) + 1}
    /\ handler' = [handler EXCEPT ![h].pc = "unlock"]
    /\ UNCHANGED <<up, store, log, hash, answered, crashes>>

Unlock(h) ==
    /\ handler[h].pc = "unlock"
    /\ locked' = locked \ {First(h)}
    /\ handler' = [handler EXCEPT ![h] = Idle]
    /\ answered' = answered \cup {handler[h].addr}
    /\ UNCHANGED <<up, store, log, hash, crashes>>

Step(h) ==
    \/ Lock(h) \/ LockNext(h) \/ Stage(h) \/ CommitOp(h) \/ Found(h)
    \/ NotFound(h) \/ AppendLog(h) \/ Insert(h) \/ UnlockNext(h) \/ Unlock(h)

Crash ==
    /\ up
    /\ crashes < MaxCrashes
    /\ crashes' = crashes + 1
    /\ up' = FALSE
    /\ hash' = {} /\ locked' = {}
    /\ handler' = [h \in Handler |-> Idle]
    /\ UNCHANGED <<store, log, answered>>

\* Mutant: InitHash is not called.
StartEmpty ==
    /\ ~up
    /\ up' = TRUE
    /\ UNCHANGED <<store, log, hash, locked, handler, answered, crashes>>

\* The constructor reads the log back into hashCommittedBlocks.
Start ==
    /\ ~up
    /\ up' = TRUE
    /\ hash' = log
    /\ UNCHANGED <<store, log, locked, handler, answered, crashes>>

CallArrives == \E h \in Handler, addr \in Addr, data \in Payload :
                   Call(h, addr, data)

Next == CallArrives \/ (\E h \in Handler : Step(h)) \/ Crash \/ Start

Spec == Init /\ [][Next]_vars

FairSpec == Spec /\ WF_vars(Start) /\ \A h \in Handler : WF_vars(Step(h))

-----------------------------------------------------------------------------
(* Properties.                                                             *)

\* A block that is being replaced counts as replaced from the moment its old
\* file is removed: no other handler can touch it until its new one is there.
Replacing(b) ==
    \E h \in Handler : /\ handler[h].pc = "commit"
                       /\ Head(handler[h].todo) = <<"rename", b>>

Shown == [b \in Block |-> IF Replacing(b) THEN store.tmp[b]
                                          ELSE AllignedRead(store.blk, b)]

D == INSTANCE Disk WITH on <- up, disk <- Shown

\* Writes of overlapping addresses, each staged from a copy of the committed blocks,
\* never undo each other's bytes, and only a crash loses a block.
ImplementsDisk == D!Spec

\* A writer that has committed and still holds its mutexes can read its data back.
ReadsBack ==
    \A h \in Handler :
        handler[h].pc \in {"look", "append", "appendAgain", "insert",
                           "unlockNext"} =>
            Read(store.blk, handler[h].addr) = handler[h].data

\* The look-up and the append are under different locks and a restart forgets
\* hashCommittedBlocks, yet a handler that is about to append an address that has
\* a line missed it because another one was inserting when it looked.
LoggedOnce ==
    \A h \in Handler : handler[h].pc = "append" => handler[h].addr \notin log

\* The address of every write that was answered is in the log, over restarts.
AnsweredIsLogged == answered \subseteq log

\* h waits for a mutex, or for CommittedLogLock.
Blocked(h) ==
    \/ handler[h].pc = "lock" /\ First(h) \in locked
    \/ handler[h].pc = "lockNext" /\ First(h) + 1 \in locked
    \/ handler[h].pc \in {"append", "appendAgain"} /\ Inserting # {}

\* lockAddress takes the mutexes of two blocks one after the other, and handlers
\* of overlapping addresses wait with one of them in hand; yet they never all
\* wait, in a circle or for a mutex nobody will give back.
NeverAllBlocked ==
    LET busy == {h \in Handler : handler[h].pc # "idle"}
    IN  busy # {} => \E h \in busy : ~Blocked(h)

\* When clients stop calling, every handler gets its mutexes and returns.
HandlersReturn ==
    \/ []<><<CallArrives>>_vars
    \/ <>[](\A h \in Handler : handler[h].pc = "idle")
=============================================================================

------------------------- MODULE BlockManagerProofs --------------------------
(* One node, for any instance: its commit log, its files, and that together *)
(* its handlers are a Disk.  LogCommittedBlocks looks                       *)
(* an address up and appends it without one lock over both, so that an      *)
(* address is logged once, but for a look-up that missed it, rests on the   *)
(* mutexes of its blocks, on hashCommittedBlocks being the log again after  *)
(* a restart, and on every handler unlocking its own mutexes only.  The     *)
(* same mutexes keep a block's staged copy what the disk will show.         *)
EXTENDS BlockManager, BlockStoreProofs, WellFoundedInduction

\* The mutexes h holds.
Held(h) ==
    CASE handler[h].pc \in {"idle", "lock"} -> {}
      [] handler[h].pc \in {"lockNext", "unlock"} -> {First(h)}
      [] OTHER -> BlocksOf(handler[h].addr)

HeldLocked == \A h \in Handler : Held(h) \subseteq locked

HeldLeft == \A b \in locked : \E h \in Handler : b \in Held(h)

HeldApart == \A g, h \in Handler : g # h => Held(g) \cap Held(h) = {}

\* What is known to be in the log, and known not to be.
HashIsLog ==
    IF up THEN /\ hash \subseteq log
               /\ log \subseteq hash \cup {handler[h].addr : h \in Inserting}
          ELSE \A h \in Handler : handler[h].pc = "idle"

LookedUp ==
    \A h \in Handler :
        handler[h].pc \in {"insert", "unlockNext", "unlock"} =>
            handler[h].addr \in log

\* A commit in progress has operations left, and only an unaligned address has
\* a second mutex.
Underway ==
    \A h \in Handler :
        /\ handler[h].pc = "commit" => handler[h].todo # <<>>
        /\ handler[h].pc \in {"lockNext", "unlockNext"} =>
             ~IsAlligned(handler[h].addr)

LogInv ==
    /\ TypeOK
    /\ Underway
    /\ HeldLocked
    /\ HeldApart
    /\ HeldLeft
    /\ HashIsLog
    /\ LookedUp
    /\ LoggedOnce
    /\ AnsweredIsLogged

-----------------------------------------------------------------------------
LEMMA HandlerType ==
    ASSUME TypeOK, NEW h \in Handler, handler[h].pc # "idle"
    PROVE  /\ handler[h].pc \in {"lock", "lockNext", "stage", "commit", "look",
                                 "append", "appendAgain", "insert",
                                 "unlockNext", "unlock"}
           /\ handler[h].addr \in Addr
           /\ handler[h].data \in Payload
           /\ handler[h].todo \in Seq(FileOp)
           /\ handler[h] = [pc |-> handler[h].pc, addr |-> handler[h].addr,
                            data |-> handler[h].data, todo |-> handler[h].todo]
  BY DEF TypeOK, HandlerState, Idle

\* The handler h moves to pc, with todo left to do.
LEMMA MoveType ==
    ASSUME TypeOK, NEW h \in Handler, handler[h].pc # "idle",
           NEW pc \in {"lock", "lockNext", "stage", "commit", "look",
                       "append", "appendAgain", "insert", "unlockNext",
                       "unlock"},
           NEW todo \in Seq(FileOp)
    PROVE  /\ [handler EXCEPT ![h].pc = pc] \in [Handler -> HandlerState]
           /\ [handler EXCEPT ![h].pc = pc, ![h].todo = todo]
                \in [Handler -> HandlerState]
  <1> DEFINE hs == handler[h]
  <1>1. handler \in [Handler -> HandlerState]
    BY DEF TypeOK
  <1>2. /\ hs = [pc |-> hs.pc, addr |-> hs.addr, data |-> hs.data, todo |-> hs.todo]
        /\ hs.addr \in Addr /\ hs.data \in Payload /\ hs.todo \in Seq(FileOp)
    BY HandlerType
  <1> HIDE DEF hs
  <1>3. /\ [hs EXCEPT !.pc = pc] \in HandlerState
        /\ [hs EXCEPT !.pc = pc, !.todo = todo] \in HandlerState
    BY <1>2 DEF HandlerState
  <1> QED
    BY <1>1, <1>3 DEF hs

LEMMA CallType ==
    ASSUME TypeOK, NEW h \in Handler, NEW addr \in Addr, NEW data \in Payload,
           Call(h, addr, data)
    PROVE  TypeOK'
  <1>1. [pc |-> "lock", addr |-> addr, data |-> data, todo |-> <<>>] \in HandlerState
    BY DEF HandlerState
  <1> QED
    BY <1>1 DEF Call, TypeOK

LEMMA StepType ==
    ASSUME TypeOK, Underway, NEW h \in Handler, Step(h)
    PROVE  TypeOK' /\ Underway'
  <1> DEFINE addr == handler[h].addr
             todo == handler[h].todo
  <1>1. handler[h].pc # "idle"
    BY DEF Step, Lock, LockNext, Stage, CommitOp, Found, NotFound, AppendLog,
           Insert, UnlockNext, Unlock
  <1>2. /\ addr \in Addr /\ handler[h].data \in Content /\ todo \in Seq(FileOp)
        /\ First(h) \in Block
        /\ ~IsAlligned(addr) => First(h) + 1 \in Block
    BY <1>1, HandlerType, BlocksOfType, PayloadAssumption DEF First
  <1>3. handler \in [Handler -> HandlerState]
    BY DEF TypeOK
  <1>4. CASE Lock(h)
    <2>1. Locking(h) \in {"stage", "lockNext"}
      BY DEF Locking
    <2>2. handler' \in [Handler -> HandlerState]
      BY <1>1, <1>2, <1>4, <2>1, MoveType DEF Lock
    <2>3. Underway'
      BY <1>3, <1>4 DEF Lock, Underway, Locking
    <2> QED
      BY <1>2, <1>4, <2>2, <2>3 DEF Lock, TypeOK
  <1>5. CASE LockNext(h)
    <2>1. handler' \in [Handler -> HandlerState]
      BY <1>1, <1>2, <1>5, MoveType DEF LockNext
    <2>2. Underway'
      BY <1>3, <1>5 DEF LockNext, Underway
    <2>3. First(h) + 1 \in Block
      BY <1>2, <1>5 DEF LockNext, Underway
    <2> QED
      BY <1>5, <2>1, <2>2, <2>3 DEF LockNext, TypeOK
  <1>6. CASE Stage(h)
    <2>1. Commit(addr) \in Seq(FileOp) /\ Commit(addr) # <<>>
      BY <1>2, CommitType
    <2>2. handler' \in [Handler -> HandlerState]
      BY <1>1, <1>2, <1>6, <2>1, MoveType DEF Stage
    <2>3. Underway'
      BY <1>3, <1>6, <2>1 DEF Stage, Underway
    <2>4. store' \in Store
      BY <1>2, <1>6, WriteType DEF Stage, TypeOK
    <2> QED
      BY <1>6, <2>2, <2>3, <2>4 DEF Stage, TypeOK
  <1>7. CASE CommitOp(h)
    <2>1. todo # <<>>
      BY <1>7 DEF CommitOp, Underway
    <2>2. Head(todo) \in FileOp /\ Tail(todo) \in Seq(FileOp)
          /\ (Len(todo) # 1 => Tail(todo) # <<>>)
      <3>1. /\ Head(todo) \in FileOp /\ Tail(todo) \in Seq(FileOp)
            /\ Len(Tail(todo)) = Len(todo) - 1
        BY <1>2, <2>1, HeadTailProperties
      <3>2. ASSUME Tail(todo) = <<>> PROVE Len(todo) = 1
        <4>1. Len(Tail(todo)) = 0
          BY <3>2, EmptySeq, Zenon
        <4> QED
          BY <1>2, <3>1, <4>1
      <3> QED
        BY <3>1, <3>2
    <2> DEFINE pc == IF Len(todo) = 1 THEN "look" ELSE "commit"
    <2>3. handler' = [handler EXCEPT ![h].pc = pc, ![h].todo = Tail(todo)]
      BY <1>3, <1>7 DEF CommitOp
    <2>4. handler' \in [Handler -> HandlerState]
      BY <1>1, <1>2, <2>2, <2>3, MoveType
    <2>5. Underway'
      BY <1>3, <2>2, <2>3 DEF Underway
    <2>6. store' \in Store
      BY <1>7, <2>2, ApplyType DEF CommitOp, TypeOK
    <2> QED
      BY <1>7, <2>4, <2>5, <2>6 DEF CommitOp, TypeOK
  <1>8. CASE Found(h) \/ Insert(h)
    <2>1. Unlocking(h) \in {"unlock", "unlockNext"}
      BY DEF Unlocking
    <2>2. handler' = [handler EXCEPT ![h].pc = Unlocking(h)]
      BY <1>8 DEF Found, Insert
    <2>3. handler' \in [Handler -> HandlerState]
      BY <1>1, <1>2, <2>1, <2>2, MoveType
    <2>4. Underway'
      BY <1>3, <2>2 DEF Underway, Unlocking
    <2>5. hash' \subseteq Addr
      BY <1>2, <1>8 DEF Found, Insert, TypeOK
    <2> QED
      BY <1>8, <2>3, <2>4, <2>5 DEF Found, Insert, TypeOK
  <1>9. CASE NotFound(h)
    <2>1. handler' \in [Handler -> HandlerState]
      BY <1>1, <1>2, <1>9, MoveType DEF NotFound
    <2>2. Underway'
      BY <1>3, <1>9 DEF NotFound, Underway
    <2> QED
      BY <1>9, <2>1, <2>2 DEF NotFound, TypeOK
  <1>12. CASE AppendLog(h)
    <2>1. handler' \in [Handler -> HandlerState]
      BY <1>1, <1>2, <1>12, MoveType DEF AppendLog
    <2>2. Underway'
      BY <1>3, <1>12 DEF AppendLog, Underway
    <2>3. log' \subseteq Addr
      BY <1>2, <1>12 DEF AppendLog, TypeOK
    <2> QED
      BY <1>12, <2>1, <2>2, <2>3 DEF AppendLog, TypeOK
  <1>10. CASE UnlockNext(h)
    <2>1. handler' \in [Handler -> HandlerState]
      BY <1>1, <1>2, <1>10, MoveType DEF UnlockNext
    <2>2. Underway'
      BY <1>3, <1>10 DEF UnlockNext, Underway
    <2> QED
      BY <1>10, <2>1, <2>2 DEF UnlockNext, TypeOK
  <1>11. CASE Unlock(h)
    <2>1. Idle \in HandlerState
      BY DEF HandlerState
    <2>2. handler' \in [Handler -> HandlerState]
      BY <1>3, <1>11, <2>1 DEF Unlock
    <2>3. Underway'
      BY <1>3, <1>11 DEF Unlock, Underway, Idle
    <2> QED
      BY <1>2, <1>11, <2>2, <2>3 DEF Unlock, TypeOK
  <1> QED
    BY <1>4, <1>5, <1>6, <1>7, <1>8, <1>9, <1>10, <1>11, <1>12 DEF Step

-----------------------------------------------------------------------------
(* Mutexes.                                                                 *)

LockedApart == HeldLocked /\ HeldApart /\ HeldLeft

LEMMA HeldByAddress ==
    ASSUME TypeOK, Underway, NEW h \in Handler, handler[h].pc # "idle"
    PROVE  /\ First(h) \in BlocksOf(handler[h].addr)
           /\ Held(h) \subseteq BlocksOf(handler[h].addr)
           /\ IsAlligned(handler[h].addr) =>
                BlocksOf(handler[h].addr) = {First(h)}
           /\ ~IsAlligned(handler[h].addr) =>
                /\ BlocksOf(handler[h].addr) = {First(h), First(h) + 1}
                /\ First(h) # First(h) + 1
  <1>1. First(h) \in Nat
    BY HandlerType, BlockNumberType DEF First
  <1> QED
    BY <1>1 DEF First, Held, BlocksOf

\* A step of h that takes or gives back mutexes of its own keeps them apart.
LEMMA LockStep ==
    ASSUME LockedApart, NEW h \in Handler, NEW mine,
           handler \in [Handler -> HandlerState],
           \A g \in Handler \ {h} : handler'[g] = handler[g],
           Held(h)' = mine,
           \/ mine \subseteq Held(h) /\ locked' = locked \ (Held(h) \ mine)
           \/ /\ mine \cap locked \subseteq Held(h) /\ Held(h) \subseteq mine
              /\ locked' = locked \cup mine
    PROVE  LockedApart'
  <1>1. \A g \in Handler \ {h} : Held(g)' = Held(g)
    BY DEF Held, First
  <1>2. \A g \in Handler \ {h} : Held(g) \cap Held(h) = {} /\ Held(g) \subseteq locked
    BY DEF LockedApart, HeldApart, HeldLocked
  <1>3. Held(h) \subseteq locked
    BY DEF LockedApart, HeldLocked
  <1>4. \A g \in Handler \ {h} : Held(g) \cap mine = {}
    BY <1>2
  <1>5. HeldLocked'
    BY <1>1, <1>2, <1>3, <1>4 DEF HeldLocked
  <1>6. HeldApart'
    BY <1>1, <1>4 DEF HeldApart, LockedApart
  <1>7. HeldLeft'
    <2> SUFFICES ASSUME NEW b \in locked'
                 PROVE  \E g \in Handler : b \in Held(g)'
      BY DEF HeldLeft
    <2>1. CASE b \in mine
      BY <2>1
    <2>2. CASE b \notin mine
      <3>1. b \in locked /\ b \notin Held(h)
        BY <2>2
      <3>2. PICK g \in Handler : b \in Held(g)
        BY <3>1 DEF LockedApart, HeldLeft
      <3> QED
        BY <1>1, <3>1, <3>2
    <2> QED
      BY <2>1, <2>2
  <1> QED
    BY <1>5, <1>6, <1>7 DEF LockedApart

LEMMA CommitOpEffect ==
    ASSUME TypeOK, NEW h \in Handler, CommitOp(h)
    PROVE  /\ handler'[h].pc \in {"commit", "look"}
           /\ handler'[h].addr = handler[h].addr
           /\ \A g \in Handler \ {h} : handler'[g] = handler[g]
  <1> DEFINE pc == IF Len(handler[h].todo) = 1 THEN "look" ELSE "commit"
  <1>1. handler[h].pc = "commit" /\ handler \in [Handler -> HandlerState]
    BY DEF CommitOp, TypeOK
  <1>2. handler' = [handler EXCEPT ![h].pc = pc, ![h].todo = Tail(@)]
    BY <1>1 DEF CommitOp
  <1> QED
    BY <1>1, <1>2

\* Two handlers between their locks have different addresses.
LEMMA ApartAddresses ==
    ASSUME TypeOK, Underway, HeldApart, NEW g \in Handler, NEW h \in Handler,
           g # h, handler[g].pc \notin {"idle", "lock"},
           handler[h].pc \notin {"idle", "lock"}
    PROVE  handler[g].addr # handler[h].addr
  <1>1. First(g) \in Held(g) /\ First(h) \in Held(h)
    BY HeldByAddress DEF Held
  <1>2. Held(g) \cap Held(h) = {}
    BY DEF HeldApart
  <1> QED
    BY <1>1, <1>2 DEF First

LEMMA StepLocks ==
    ASSUME TypeOK, Underway, LockedApart, NEW h \in Handler, Step(h)
    PROVE  LockedApart'
  <1> DEFINE blocks == BlocksOf(handler[h].addr)
             first == First(h)
  <1>1. handler \in [Handler -> HandlerState]
    BY DEF TypeOK
  <1>2. handler[h].pc # "idle"
    BY DEF Step, Lock, LockNext, Stage, CommitOp, Found, NotFound, AppendLog,
           Insert, UnlockNext, Unlock
  <1>3. /\ first \in blocks
        /\ IsAlligned(handler[h].addr) => blocks = {first}
        /\ ~IsAlligned(handler[h].addr) =>
             blocks = {first, first + 1} /\ first # first + 1
    BY <1>2, HeldByAddress
  <1> HIDE DEF blocks, first
  <1>4. CASE Lock(h)
    <2>1. /\ Held(h) = {} /\ first \notin locked
          /\ locked' = locked \cup {first}
          /\ \A g \in Handler \ {h} : handler'[g] = handler[g]
          /\ handler'[h] = [handler[h] EXCEPT !.pc = Locking(h)]
      BY <1>1, <1>4 DEF Lock, Held, first
    <2>2. Held(h)' = {first}
      BY <1>3, <2>1 DEF Held, First, Locking, blocks, first
    <2> QED
      BY <1>1, <2>1, <2>2, LockStep
  <1>5. CASE LockNext(h)
    <2>1. /\ Held(h) = {first} /\ first + 1 \notin locked
          /\ locked' = locked \cup {first + 1}
          /\ \A g \in Handler \ {h} : handler'[g] = handler[g]
          /\ handler'[h] = [handler[h] EXCEPT !.pc = "stage"]
          /\ ~IsAlligned(handler[h].addr)
      BY <1>1, <1>5 DEF LockNext, Held, Underway, first
    <2>2. Held(h)' = blocks
      BY <2>1 DEF Held, blocks
    <2>3. locked' = locked \cup blocks
      BY <1>3, <2>1 DEF LockedApart, HeldLocked
    <2> QED
      BY <1>1, <1>3, <2>1, <2>2, <2>3, LockStep
  <1>6. CASE \/ Stage(h) \/ CommitOp(h) \/ Found(h) \/ NotFound(h)
              \/ AppendLog(h) \/ Insert(h)
    <2>1. /\ Held(h) = blocks /\ locked' = locked
          /\ \A g \in Handler \ {h} : handler'[g] = handler[g]
      BY <1>1, <1>6, CommitOpEffect
         DEF Stage, CommitOp, Found, NotFound, AppendLog, Insert, Held, blocks
    <2>2. /\ handler'[h].addr = handler[h].addr
          /\ \/ handler'[h].pc \in {"commit", "look", "append", "appendAgain",
                                  "insert"}
             \/ handler'[h].pc = Unlocking(h)
      <3>1. CASE Stage(h)
        BY <1>1, <3>1 DEF Stage
      <3>2. CASE CommitOp(h)
        BY <3>2, CommitOpEffect
      <3>3. CASE Found(h)
        BY <1>1, <3>3 DEF Found
      <3>4. CASE NotFound(h)
        BY <1>1, <3>4 DEF NotFound
      <3>5. CASE AppendLog(h)
        BY <1>1, <3>5 DEF AppendLog
      <3>6. CASE Insert(h)
        BY <1>1, <3>6 DEF Insert
      <3> QED
        BY <1>6, <3>1, <3>2, <3>3, <3>4, <3>5, <3>6
    <2>3. Held(h)' = blocks
      BY <1>3, <2>2 DEF Held, First, Unlocking, blocks, first
    <2> QED
      BY <1>1, <2>1, <2>3, LockStep
  <1>7. CASE UnlockNext(h)
    <2>1. /\ Held(h) = blocks
          /\ locked' = locked \ {first + 1}
          /\ \A g \in Handler \ {h} : handler'[g] = handler[g]
          /\ handler'[h] = [handler[h] EXCEPT !.pc = "unlock"]
          /\ ~IsAlligned(handler[h].addr)
      BY <1>1, <1>7 DEF UnlockNext, Held, Underway, blocks, first
    <2>2. Held(h)' = {first}
      BY <2>1 DEF Held, First, first
    <2> QED
      BY <1>1, <1>3, <2>1, <2>2, LockStep
  <1>8. CASE Unlock(h)
    <2>1. /\ Held(h) = {first} /\ locked' = locked \ {first}
          /\ \A g \in Handler \ {h} : handler'[g] = handler[g]
          /\ handler'[h] = Idle
      BY <1>1, <1>8 DEF Unlock, Held, first
    <2>2. Held(h)' = {}
      BY <2>1 DEF Held, Idle
    <2> QED
      BY <1>1, <2>1, <2>2, LockStep
  <1> QED
    BY <1>4, <1>5, <1>6, <1>7, <1>8 DEF Step

-----------------------------------------------------------------------------
(* The log.                                                                 *)

Ledger == HashIsLog /\ LookedUp /\ LoggedOnce /\ AnsweredIsLogged

\* A step of h that leaves the log alone.
LEMMA QuietLog ==
    ASSUME Ledger, TypeOK, NEW h \in Handler, up,
           UNCHANGED <<up, log, hash>>,
           \A g \in Handler \ {h} : handler'[g] = handler[g],
           handler[h].pc # "insert",
           handler'[h].pc = "append" => handler'[h].addr \notin log,
           handler'[h].pc \in {"insert", "unlockNext", "unlock"} =>
             handler'[h].addr \in log,
           answered' \subseteq answered \cup log
    PROVE  Ledger'
  <1>1. HashIsLog'
    <2>1. \A g \in Inserting : handler'[g] = handler[g] /\ g \in Inserting'
      BY DEF Inserting
    <2> QED
      BY <2>1 DEF Ledger, HashIsLog
  <1>2. LookedUp'
    BY DEF Ledger, LookedUp
  <1>3. LoggedOnce'
    BY DEF Ledger, LoggedOnce
  <1>4. AnsweredIsLogged'
    BY DEF Ledger, AnsweredIsLogged
  <1> QED
    BY <1>1, <1>2, <1>3, <1>4 DEF Ledger

LEMMA StepLog ==
    ASSUME Ledger, TypeOK, Underway, HeldApart, NEW h \in Handler, Step(h)
    PROVE  Ledger'
  <1>1. handler \in [Handler -> HandlerState]
    BY DEF TypeOK
  <1>2. up
    BY DEF Ledger, HashIsLog, Step, Lock, LockNext, Stage, CommitOp, Found,
           NotFound, AppendLog, Insert, UnlockNext, Unlock
  <1>3. /\ hash \subseteq log
        /\ log \subseteq hash \cup {handler[g].addr : g \in Inserting}
    BY <1>2 DEF Ledger, HashIsLog
  <1>4. CASE Lock(h) \/ LockNext(h) \/ Stage(h) \/ CommitOp(h)
    <2>1. handler'[h].pc \in {"lockNext", "stage", "commit", "look"}
      <3>1. CASE Lock(h)
        BY <1>1, <3>1 DEF Lock, Locking
      <3>2. CASE LockNext(h)
        BY <1>1, <3>2 DEF LockNext
      <3>3. CASE Stage(h)
        BY <1>1, <3>3 DEF Stage
      <3>4. CASE CommitOp(h)
        BY <3>4, CommitOpEffect
      <3> QED
        BY <1>4, <3>1, <3>2, <3>3, <3>4
    <2>2. /\ UNCHANGED <<up, log, hash, answered>>
          /\ \A g \in Handler \ {h} : handler'[g] = handler[g]
          /\ handler[h].pc # "insert"
      BY <1>1, <1>4 DEF Lock, LockNext, Stage, CommitOp
    <2>3. answered' \subseteq answered \cup log
      BY <2>2
    <2> QED
      BY <1>2, <2>1, <2>2, <2>3, QuietLog
  <1>5. CASE Found(h) \/ NotFound(h)
    <2>1. \A g \in Inserting : handler[g].addr # handler[h].addr
      <3>1. SUFFICES ASSUME NEW g \in Inserting
                     PROVE  handler[g].addr # handler[h].addr
        OBVIOUS
      <3>2. g \in Handler /\ handler[g].pc = "insert" /\ handler[h].pc = "look"
        BY <1>5 DEF Inserting, Found, NotFound
      <3> QED
        BY <3>2, ApartAddresses
    <2>2. handler[h].addr \in log => ~Missing(h)
      BY <1>3, <2>1 DEF Missing
    <2>3. ~Missing(h) => handler[h].addr \in log
      BY <1>3 DEF Missing
    <2>4. CASE Found(h)
      BY <1>1, <1>2, <2>3, <2>4, QuietLog DEF Found, Unlocking
    <2>5. CASE NotFound(h)
      BY <1>1, <1>2, <2>2, <2>5, QuietLog DEF NotFound
    <2> QED
      BY <1>5, <2>4, <2>5
  <1>6. CASE AppendLog(h)
    <2>1. /\ \A g \in Handler \ {h} : handler'[g] = handler[g]
          /\ handler'[h].addr = handler[h].addr
          /\ handler[h].pc \in {"append", "appendAgain"}
          /\ handler'[h].pc = "insert"
          /\ UNCHANGED <<up, hash, answered>>
          /\ log' = log \cup {handler[h].addr}
          /\ Inserting = {}
      BY <1>1, <1>6 DEF AppendLog
    <2>2. HashIsLog'
      <3>1. h \in Inserting'
        BY <2>1 DEF Inserting
      <3>2. log' \subseteq hash \cup {handler'[g].addr : g \in Inserting'}
        BY <1>3, <2>1, <3>1
      <3> QED
        BY <1>2, <1>3, <2>1, <3>2 DEF HashIsLog
    <2>3. LoggedOnce'
      <3>1. ASSUME NEW g \in Handler \ {h}, handler[g].pc = "append"
            PROVE  handler[g].addr # handler[h].addr
        BY <2>1, <3>1, ApartAddresses
      <3> QED
        BY <2>1, <3>1 DEF LoggedOnce, Ledger
    <2>4. LookedUp' /\ AnsweredIsLogged'
      BY <2>1 DEF Ledger, LookedUp, AnsweredIsLogged
    <2> QED
      BY <2>2, <2>3, <2>4 DEF Ledger
  <1>9. CASE Insert(h)
    <2>1. /\ \A g \in Handler \ {h} : handler'[g] = handler[g]
          /\ handler'[h].addr = handler[h].addr
          /\ handler[h].pc = "insert" /\ handler'[h].pc = Unlocking(h)
          /\ UNCHANGED <<up, log, answered>>
          /\ hash' = hash \cup {handler[h].addr}
      BY <1>1, <1>9 DEF Insert
    <2>2. handler[h].addr \in log
      BY <2>1 DEF Ledger, LookedUp
    <2>3. HashIsLog'
      <3>1. \A g \in Inserting \ {h} : g \in Inserting' /\ handler'[g] = handler[g]
        BY <2>1 DEF Inserting
      <3>2. log \subseteq hash' \cup {handler'[g].addr : g \in Inserting'}
        BY <1>3, <2>1, <3>1
      <3> QED
        BY <1>2, <1>3, <2>1, <2>2, <3>2 DEF HashIsLog
    <2>4. LookedUp' /\ LoggedOnce' /\ AnsweredIsLogged'
      BY <2>1, <2>2 DEF Ledger, LookedUp, LoggedOnce, AnsweredIsLogged, Unlocking
    <2> QED
      BY <2>3, <2>4 DEF Ledger
  <1>7. CASE UnlockNext(h)
    BY <1>1, <1>2, <1>7, QuietLog DEF UnlockNext, Ledger, LookedUp
  <1>8. CASE Unlock(h)
    <2>1. handler[h].addr \in log
      BY <1>8 DEF Unlock, Ledger, LookedUp
    <2> QED
      BY <1>1, <1>2, <1>8, <2>1, QuietLog DEF Unlock, Idle
  <1> QED
    BY <1>4, <1>5, <1>6, <1>7, <1>8, <1>9 DEF Step

-----------------------------------------------------------------------------
LEMMA InitLog == Init => LogInv
  <1>1. /\ Idle \in HandlerState /\ EmptyStore \in Store
        /\ 0 \in 0..MaxCrashes
    BY BoundAssumption DEF HandlerState, EmptyStore, NoFiles, Store, Files
  <1>2. Init => TypeOK
    BY <1>1 DEF Init, TypeOK
  <1> QED
    BY <1>2 DEF Init, LogInv, Underway, HeldLocked, HeldApart, HeldLeft, Held, HashIsLog,
                LookedUp, LoggedOnce, AnsweredIsLogged, Idle

LEMMA NextLog ==
    ASSUME LogInv, [Next]_vars
    PROVE  LogInv'
  <1>1. CASE CallArrives
    <2>1. PICK h \in Handler, addr \in Addr, data \in Payload :
                 Call(h, addr, data)
      BY <1>1 DEF CallArrives
    <2>2. handler \in [Handler -> HandlerState]
      BY DEF LogInv, TypeOK
    <2>3. /\ handler'[h].pc = "lock" /\ handler[h].pc = "idle"
          /\ \A g \in Handler \ {h} : handler'[g] = handler[g]
          /\ up
      BY <2>1, <2>2 DEF Call
    <2>4. TypeOK'
      BY <2>1, CallType DEF LogInv
    <2>5. Underway'
      BY <2>3 DEF LogInv, Underway
    <2>6. LockedApart'
      <3>1. Held(h) = {} /\ Held(h)' = {} /\ locked' = locked
        BY <2>1, <2>3 DEF Held, Call
      <3> QED
        BY <2>2, <2>3, <3>1, LockStep DEF LogInv, LockedApart
    <2>7. Ledger'
      BY <2>1, <2>3, QuietLog DEF Call, LogInv, Ledger
    <2> QED
      BY <2>4, <2>5, <2>6, <2>7 DEF LogInv, LockedApart, Ledger
  <1>2. ASSUME NEW h \in Handler, Step(h) PROVE LogInv'
    BY <1>2, StepType, StepLocks, StepLog DEF LogInv, LockedApart, Ledger
  <1>3. CASE Crash
    <2>1. /\ crashes' \in 0..MaxCrashes
          /\ handler' \in [Handler -> HandlerState]
      BY <1>3, BoundAssumption DEF Crash, LogInv, TypeOK, HandlerState
    <2>2. TypeOK'
      BY <1>3, <2>1 DEF Crash, LogInv, TypeOK
    <2> QED
      BY <1>3, <2>2
         DEF Crash, LogInv, Underway, HeldLocked, HeldApart, HeldLeft, Held, HashIsLog,
             LookedUp, LoggedOnce, AnsweredIsLogged, Idle
  <1>4. CASE Start
    <2>1. TypeOK'
      BY <1>4 DEF Start, LogInv, TypeOK
    <2>2. HashIsLog'
      BY <1>4 DEF Start, HashIsLog
    <2> QED
      BY <1>4, <2>1, <2>2
         DEF Start, LogInv, Underway, HeldLocked, HeldApart, HeldLeft, Held, First,
             LookedUp, LoggedOnce, AnsweredIsLogged
  <1>5. CASE UNCHANGED vars
    <2>1. TypeOK' /\ Underway'
      BY <1>5 DEF vars, LogInv, TypeOK, Underway
    <2>2. \A h \in Handler : Held(h)' = Held(h)
      BY <1>5 DEF vars, Held, First
    <2>3. HeldLocked' /\ HeldApart' /\ HeldLeft'
      BY <1>5, <2>2 DEF vars, LogInv, HeldLocked, HeldApart, HeldLeft
    <2>4. HashIsLog'
      BY <1>5 DEF vars, LogInv, HashIsLog, Inserting
    <2>5. LookedUp' /\ LoggedOnce' /\ AnsweredIsLogged'
      BY <1>5 DEF vars, LogInv, LookedUp, LoggedOnce, AnsweredIsLogged
    <2> QED
      BY <2>1, <2>3, <2>4, <2>5 DEF LogInv
  <1> QED
    BY <1>1, <1>2, <1>3, <1>4, <1>5 DEF Next

LEMMA LogInvariance == Spec => []LogInv
  BY InitLog, NextLog, PTL DEF Spec

\* Every reachable state of a node has the types TypeOK gives.
THEOREM NodeTypeCorrect == Spec => []TypeOK
  <1>1. LogInv => TypeOK
    BY DEF LogInv
  <1> QED
    BY LogInvariance, <1>1, PTL

\* An address is logged twice only by a look-up that raced an insertion, for any
\* number of handlers and crashes.
THEOREM LogHasNoDuplicates == Spec => []LoggedOnce
  <1>1. LogInv => LoggedOnce
    BY DEF LogInv
  <1> QED
    BY LogInvariance, <1>1, PTL

\* The address of a write that was answered is in the log for good.
THEOREM LogIsComplete == Spec => []AnsweredIsLogged
  <1>1. LogInv => AnsweredIsLogged
    BY DEF LogInv
  <1> QED
    BY LogInvariance, <1>1, PTL

-----------------------------------------------------------------------------
(* Nobody waits for ever.                                                   *)

LEMMA Greatest ==
    ASSUME NEW top \in Nat, NEW S \in SUBSET (0..top), S # {}
    PROVE  \E x \in S : \A y \in S : y <= x
  <1> DEFINE R == {ss \in Nat \X Nat : ss[1] < ss[2]}
             T == {n \in 0..top : top - n \in S}
  <1>1. IsWellFoundedOn(R, Nat)
    BY NatLessThanWellFounded DEF OpToRel
  <1>2. T \subseteq Nat /\ T # {}
    <2>1. PICK x \in S : x \in 0..top
      OBVIOUS
    <2>2. top - x \in 0..top /\ top - (top - x) = x
      BY <2>1
    <2>3. top - x \in T
      BY <2>1, <2>2
    <2>4. T \subseteq 0..top
      OBVIOUS
    <2> HIDE DEF T
    <2> QED
      BY <2>3, <2>4
  <1> HIDE DEF T
  <1>3. PICK n \in T : \A m \in T : ~(<<m, n>> \in R)
    <2> HIDE DEF R
    <2> QED
      BY <1>1, <1>2, WFMin
  <1>4. n \in 0..top /\ top - n \in S
    BY DEF T
  <1>5. ASSUME NEW y \in S PROVE y <= top - n
    <2>1. y \in 0..top /\ top - y \in 0..top /\ top - (top - y) = y
      OBVIOUS
    <2>2. PICK m : m = top - y
      OBVIOUS
    <2>3. m \in T /\ m \in Nat
      BY <2>1, <2>2 DEF T
    <2>4. ~(m < n)
      <3>1. <<m, n>> \notin R
        BY <1>3, <2>3
      <3> QED
        BY <1>4, <2>3, <3>1
    <2> QED
      BY <1>4, <2>1, <2>2, <2>4
  <1> QED
    BY <1>4, <1>5

\* Of the handlers that wait for their second mutex, the one with the highest
\* first block waits for nobody who waits; one that waits for its first mutex
\* waits for a handler that holds one; and one inserting into the hash does not wait.
THEOREM HandlersNeverAllBlocked == Spec => []NeverAllBlocked
  <1>1. ASSUME LogInv PROVE NeverAllBlocked
    <2> SUFFICES ASSUME NEW h0 \in Handler, handler[h0].pc # "idle",
                        \A h \in Handler : handler[h].pc # "idle" => Blocked(h)
                 PROVE  FALSE
      BY DEF NeverAllBlocked
    <2>1. TypeOK /\ Underway
      BY <1>1 DEF LogInv
    <2>2. Inserting = {}
      BY DEF Inserting, Blocked
    <2>3. \A h \in Handler : handler[h].pc # "idle" =>
            \/ handler[h].pc = "lock" /\ First(h) \in locked
            \/ handler[h].pc = "lockNext" /\ First(h) + 1 \in locked
      BY <2>2 DEF Blocked
    <2>4. \A b \in locked : \E g \in Handler :
            handler[g].pc = "lockNext" /\ b = First(g)
      <3> SUFFICES ASSUME NEW b \in locked
                   PROVE  \E g \in Handler : handler[g].pc = "lockNext" /\ b = First(g)
        OBVIOUS
      <3>1. PICK g \in Handler : b \in Held(g)
        BY <1>1 DEF LogInv, HeldLeft
      <3>2. handler[g].pc \notin {"idle", "lock"}
        BY <3>1 DEF Held
      <3>3. handler[g].pc = "lockNext"
        BY <2>3, <3>2
      <3> QED
        BY <3>1, <3>3 DEF Held
    <2> DEFINE S == {First(h) : h \in {g \in Handler : handler[g].pc = "lockNext"}}
    <2>5. S # {}
      BY <2>3, <2>4
    <2>6. S \in SUBSET (0..INT_MAX)
      <3> SUFFICES ASSUME NEW h \in Handler, handler[h].pc = "lockNext"
                   PROVE  First(h) \in 0..INT_MAX
        OBVIOUS
      <3>1. handler[h].addr \in Addr
        BY <2>1, HandlerType
      <3> DEFINE a == handler[h].addr
      <3>2. a \in 0..INT_MAX /\ First(h) \in Nat
        BY <3>1, AddrAssumption, BlockNumberType DEF First
      <3> HIDE DEF a
      <3>3. a \div BLOCK_SIZE <= a
        BY <3>2, IntMaxAssumption, BlockSizeAssumption
      <3> QED
        BY <3>2, <3>3, IntMaxAssumption DEF First, GetBlockNumber, a
    <2> HIDE DEF S
    <2>7. PICK n \in S : \A m \in S : m <= n
      BY <2>5, <2>6, Greatest, IntMaxAssumption
    <2>8. PICK h \in Handler : handler[h].pc = "lockNext" /\ n = First(h)
      BY DEF S
    <2>9. PICK g \in Handler : handler[g].pc = "lockNext" /\ n + 1 = First(g)
      BY <2>3, <2>4, <2>8
    <2>10. n + 1 \in S
      BY <2>9 DEF S
    <2>11. n \in 0..INT_MAX
      BY <2>6
    <2> QED
      BY <2>7, <2>10, <2>11
  <1> QED
    BY LogInvariance, <1>1, PTL

-----------------------------------------------------------------------------
(* The files.  A handler that commits has the new contents of its blocks     *)
(* staged until they are renamed, and no other handler can touch them.       *)

\* The new file of block n is in its place.
Landed(h, n) ==
    /\ store.blk[n] # None
    /\ Carries(store.blk[n], handler[h].addr, handler[h].data, n)

Working == {"stage", "commit", "look", "append", "appendAgain", "insert",
            "unlockNext"}
Past == Working \ {"stage", "commit"}

\* The files of the blocks whose mutexes h holds.
FilesOf(h) ==
    LET addr == handler[h].addr
        data == handler[h].data
        todo == handler[h].todo
    IN  /\ handler[h].pc = "commit" =>
             /\ todo \in Rests(addr)
             /\ \A n \in ToRemove(todo) :
                  store.tmp[n] = Over(AllignedRead(store.blk, n), addr, data, n)
             /\ \A n \in ToRename(todo) :
                  store.tmp[n] # None /\ Carries(store.tmp[n], addr, data, n)
             /\ \A n \in ToRename(todo) \ ToRemove(todo) : store.blk[n] = None
             /\ \A n \in BlocksOf(addr) \ ToRename(todo) : Landed(h, n)
        /\ handler[h].pc \in Past => \A n \in BlocksOf(addr) : Landed(h, n)

FilesInv == \A h \in Handler : FilesOf(h)

\* Nobody else's step touches them.
LEMMA FilesKept ==
    ASSUME TypeOK, NEW h \in Handler, FilesOf(h), handler'[h] = handler[h],
           handler[h].pc \in Working =>
             \A n \in BlocksOf(handler[h].addr) :
               store'.blk[n] = store.blk[n] /\ store'.tmp[n] = store.tmp[n]
    PROVE  FilesOf(h)'
  <1> DEFINE addr == handler[h].addr
             todo == handler[h].todo
  <1>1. CASE handler[h].pc = "commit"
    <2>1. /\ addr \in Addr /\ todo \in Rests(addr)
      BY <1>1, HandlerType DEF FilesOf
    <2>2. /\ ToRemove(todo) \subseteq BlocksOf(addr)
          /\ ToRename(todo) \subseteq BlocksOf(addr)
      BY <2>1, RestStep
    <2>3. \A n \in BlocksOf(addr) :
            store'.blk[n] = store.blk[n] /\ store'.tmp[n] = store.tmp[n]
      BY <1>1 DEF Working
    <2>4. \A n \in BlocksOf(addr) :
            AllignedRead(store'.blk, n) = AllignedRead(store.blk, n)
      BY <2>3 DEF AllignedRead
    <2> QED
      BY <1>1, <2>1, <2>2, <2>3, <2>4 DEF FilesOf, Landed, Past
  <1>2. CASE handler[h].pc \in Past
    BY <1>2 DEF FilesOf, Landed, Past, Working
  <1>3. CASE handler[h].pc \notin Past \cup {"commit"}
    BY <1>3 DEF FilesOf
  <1> QED
    BY <1>1, <1>2, <1>3

LEMMA WorkingApart ==
    ASSUME HeldApart, NEW g \in Handler, NEW h \in Handler, g # h,
           handler[g].pc \in Working, handler[h].pc \in Working
    PROVE  BlocksOf(handler[g].addr) \cap BlocksOf(handler[h].addr) = {}
  <1>1. /\ Held(g) = BlocksOf(handler[g].addr)
        /\ Held(h) = BlocksOf(handler[h].addr)
    BY DEF Held, Working
  <1> QED
    BY <1>1 DEF HeldApart

\* What one operation of a commit does to the files.
LEMMA CommitOpFiles ==
    ASSUME TypeOK, NEW h \in Handler, CommitOp(h), FilesOf(h)
    PROVE  LET addr == handler[h].addr
               todo == handler[h].todo
               n    == Head(todo)[2]
           IN  /\ addr \in Addr /\ todo \in Rests(addr)
               /\ n \in ToRename(todo) /\ n \in BlocksOf(addr) /\ n \in Block
               /\ \A m \in Block \ {n} : /\ store'.blk[m] = store.blk[m]
                                         /\ store'.tmp[m] = store.tmp[m]
               /\ \/ /\ Head(todo) = <<"remove", n>>
                     /\ store'.blk[n] = None /\ store'.tmp[n] = store.tmp[n]
                  \/ /\ Head(todo) = <<"rename", n>>
                     /\ store'.blk[n] = store.tmp[n] /\ store.tmp[n] # None
  <1> DEFINE addr == handler[h].addr
             todo == handler[h].todo
             n == Head(todo)[2]
  <1>1. /\ addr \in Addr /\ todo \in Rests(addr)
        /\ \A m \in ToRename(todo) : store.tmp[m] # None
    BY HandlerType DEF CommitOp, FilesOf
  <1>2. /\ n \in ToRename(todo) /\ ToRename(todo) \subseteq BlocksOf(addr)
        /\ Head(todo) = <<"remove", n>> \/ Head(todo) = <<"rename", n>>
    BY <1>1, RestStep
  <1>3. n \in Block /\ n \in BlocksOf(addr)
    BY <1>1, <1>2, BlocksOfType
  <1>4. /\ store \in Store /\ store' = Apply(store, Head(todo))
        /\ store.blk \in Files /\ store.tmp \in Files
    BY DEF CommitOp, TypeOK, Store
  <1> HIDE DEF n, todo, addr
  <1>5. CASE Head(todo) = <<"remove", n>>
    <2>1. store' = [store EXCEPT !.blk[n] = None]
      BY <1>4, <1>5 DEF Apply, Remove
    <2> QED
      BY <1>1, <1>2, <1>3, <1>4, <1>5, <2>1 DEF Store, Files, n, todo, addr
  <1>6. CASE Head(todo) = <<"rename", n>>
    <2>1. store.tmp[n] # None
      BY <1>1, <1>2
    <2>2. store' = [store EXCEPT !.blk[n] = store.tmp[n], !.tmp[n] = None]
      <3>1. Head(todo)[1] = "rename" /\ Head(todo)[2] = n
        BY <1>6
      <3>2. store' = Rename(store, n)
        BY <1>4, <3>1 DEF Apply
      <3> QED
        BY <2>1, <3>2 DEF Rename
    <2>3. /\ store'.blk[n] = store.tmp[n]
          /\ \A m \in Block \ {n} : /\ store'.blk[m] = store.blk[m]
                                    /\ store'.tmp[m] = store.tmp[m]
      BY <1>3, <1>4, <2>2 DEF Store, Files
    <2> QED
      BY <1>1, <1>2, <1>3, <1>6, <2>1, <2>3 DEF n, todo, addr
  <1> QED
    BY <1>2, <1>5, <1>6

\* A step of h leaves the files of the other handlers' blocks alone.
LEMMA OtherFiles ==
    ASSUME LogInv, FilesInv, NEW h \in Handler, Step(h),
           NEW g \in Handler, g # h
    PROVE  FilesOf(g)'
  <1>1. TypeOK /\ HeldApart /\ FilesOf(g) /\ FilesOf(h)
    BY DEF LogInv, FilesInv
  <1>2. handler'[g] = handler[g]
    BY <1>1 DEF TypeOK, Step, Lock, LockNext, Stage, CommitOp, Found, NotFound,
                AppendLog, Insert, UnlockNext, Unlock
  <1>3. ASSUME handler[g].pc \in Working, NEW n \in BlocksOf(handler[g].addr)
        PROVE  store'.blk[n] = store.blk[n] /\ store'.tmp[n] = store.tmp[n]
    <2>1. n \in Block
      BY <1>1, <1>3, HandlerType, BlocksOfType DEF Working
    <2>2. handler[h].pc \in Working => n \notin BlocksOf(handler[h].addr)
      BY <1>1, <1>3, WorkingApart
    <2>3. CASE Stage(h)
      <3>1. /\ handler[h].pc = "stage"
            /\ store' = Write(store, handler[h].addr, handler[h].data)
        BY <2>3 DEF Stage
      <3>2. /\ n \notin BlocksOf(handler[h].addr) /\ store \in Store
            /\ handler[h].addr \in Addr /\ handler[h].data \in Content
        BY <1>1, <2>2, <3>1, HandlerType, PayloadAssumption DEF Working, TypeOK
      <3> QED
        BY <2>1, <3>1, <3>2, WriteStages, WriteType
    <2>4. CASE CommitOp(h)
      <3>1. n \notin BlocksOf(handler[h].addr)
        BY <2>2, <2>4 DEF CommitOp, Working
      <3>2. Head(handler[h].todo)[2] # n
        BY <1>1, <2>4, <3>1, CommitOpFiles
      <3> QED
        BY <1>1, <2>1, <2>4, <3>2, CommitOpFiles
    <2>5. CASE ~Stage(h) /\ ~CommitOp(h)
      BY <2>5 DEF Step, Lock, LockNext, Found, NotFound, AppendLog, Insert,
                  UnlockNext, Unlock
    <2> QED
      BY <2>3, <2>4, <2>5
  <1> QED
    BY <1>1, <1>2, <1>3, FilesKept

\* A step of h keeps the files of its own blocks as they are to be.
LEMMA OwnFiles ==
    ASSUME LogInv, FilesInv, NEW h \in Handler, Step(h)
    PROVE  FilesOf(h)'
  <1> DEFINE addr == handler[h].addr
             data == handler[h].data
             todo == handler[h].todo
             todo2 == handler'[h].todo
  <1>1. TypeOK /\ FilesOf(h) /\ handler \in [Handler -> HandlerState]
    BY DEF LogInv, FilesInv, TypeOK
  <1>2. CASE Stage(h)
    <2>1. /\ addr \in Addr /\ data \in Content /\ store \in Store
          /\ store' = Write(store, addr, data)
      BY <1>1, <1>2, HandlerType, PayloadAssumption DEF Stage, TypeOK
    <2>2. /\ handler'[h].pc = "commit" /\ todo2 = Commit(addr)
          /\ handler'[h].addr = addr /\ handler'[h].data = data
      BY <1>1, <1>2 DEF Stage, HandlerState, Idle
    <2>3. /\ todo2 \in Rests(addr)
          /\ ToRemove(todo2) = BlocksOf(addr) /\ ToRename(todo2) = BlocksOf(addr)
      BY <2>1, <2>2, CommitRest
    <2>4. store'.blk = store.blk
      BY <2>1, WriteType
    <2>5. \A n \in BlocksOf(addr) :
            store'.tmp[n] = Over(AllignedRead(store'.blk, n), addr, data, n)
      BY <2>1, <2>4, WriteStages
    <2>6. ASSUME NEW n \in BlocksOf(addr)
          PROVE  store'.tmp[n] # None /\ Carries(store'.tmp[n], addr, data, n)
      <3>1. n \in Nat /\ n \in Block
        BY <2>1, BlocksOfType, BlockType
      <3>2. store'.tmp[n] \in Content
        BY <2>1, <3>1, StagedContent
      <3> QED
        BY <2>1, <2>5, <3>1, <3>2, OverCarries, NoneAssumption
    <2> HIDE DEF addr, data, todo2
    <2> QED
      BY <2>2, <2>3, <2>5, <2>6 DEF FilesOf, Past, Working, todo2
  <1>3. CASE CommitOp(h)
    <2> DEFINE n == Head(todo)[2]
    <2>1. /\ addr \in Addr /\ todo \in Rests(addr)
          /\ n \in ToRename(todo) /\ n \in BlocksOf(addr)
          /\ \A m \in Block \ {n} : /\ store'.blk[m] = store.blk[m]
                                    /\ store'.tmp[m] = store.tmp[m]
          /\ \/ /\ Head(todo) = <<"remove", n>>
                /\ store'.blk[n] = None /\ store'.tmp[n] = store.tmp[n]
             \/ /\ Head(todo) = <<"rename", n>>
                /\ store'.blk[n] = store.tmp[n] /\ store.tmp[n] # None
      BY <1>1, <1>3, CommitOpFiles
    <2>2. /\ handler'[h].addr = addr /\ handler'[h].data = data
          /\ Len(todo) = 1 => handler'[h].pc = "look"
          /\ Len(todo) # 1 => handler'[h].pc = "commit" /\ todo2 = Tail(todo)
      BY <1>1, <1>3 DEF CommitOp, HandlerState, Idle
    <2>3. handler[h].pc = "commit"
      BY <1>3 DEF CommitOp
    <2>4. /\ BlocksOf(addr) \subseteq Block
          /\ ToRemove(todo) \subseteq ToRename(todo)
          /\ ToRename(todo) \subseteq BlocksOf(addr)
      BY <2>1, BlocksOfType, RestStep
    <2>5. /\ \A m \in ToRemove(todo) :
               store.tmp[m] = Over(AllignedRead(store.blk, m), addr, data, m)
          /\ \A m \in ToRename(todo) :
               store.tmp[m] # None /\ Carries(store.tmp[m], addr, data, m)
          /\ \A m \in ToRename(todo) \ ToRemove(todo) : store.blk[m] = None
          /\ \A m \in BlocksOf(addr) \ ToRename(todo) : Landed(h, m)
      BY <1>1, <2>3 DEF FilesOf
    <2>9. /\ Len(todo) = 1 => ToRename(todo) = {n}
          /\ Len(todo) # 1 => Tail(todo) \in Rests(addr)
          /\ \/ /\ Head(todo)[1] = "remove"
                /\ Len(todo) # 1
                /\ ToRemove(Tail(todo)) = ToRemove(todo) \ {n}
                /\ ToRename(Tail(todo)) = ToRename(todo)
             \/ /\ Head(todo)[1] = "rename"
                /\ n \notin ToRemove(todo)
                /\ ToRename(todo) = ToRemove(todo) \cup {n}
                /\ Len(todo) # 1 =>
                     /\ ToRemove(Tail(todo)) = ToRemove(todo)
                     /\ ToRename(Tail(todo)) = ToRename(todo) \ {n}
      <3>1. /\ <<"remove", n>>[1] = "remove" /\ <<"rename", n>>[1] = "rename"
            /\ "remove" # "rename"
        OBVIOUS
      <3> QED
        BY <2>1, <3>1, RestStep
    <2>6. CASE Head(todo) = <<"remove", n>>
      <3>1. /\ Len(todo) # 1 /\ Tail(todo) \in Rests(addr)
            /\ ToRemove(Tail(todo)) = ToRemove(todo) \ {n}
            /\ ToRename(Tail(todo)) = ToRename(todo)
        <4>1. Head(todo)[1] = "remove" /\ "remove" # "rename"
          BY <2>6
        <4> HIDE DEF n, todo
        <4> QED
          BY <2>9, <4>1
      <3>2. /\ store'.blk[n] = None /\ store'.tmp[n] = store.tmp[n]
            /\ \A m \in Block : store'.tmp[m] = store.tmp[m]
        BY <2>1, <2>6, SMTT(30)
      <3>3. /\ handler'[h].pc = "commit" /\ todo2 = Tail(todo)
        BY <2>2, <3>1
      <3>4. \A m \in ToRemove(todo2) :
              store'.tmp[m] = Over(AllignedRead(store'.blk, m), addr, data, m)
        <4> SUFFICES ASSUME NEW m \in ToRemove(todo2)
                     PROVE  store'.tmp[m] =
                              Over(AllignedRead(store'.blk, m), addr, data, m)
          OBVIOUS
        <4>1. m \in ToRemove(todo) /\ m \in Block \ {n}
          BY <2>4, <3>1, <3>3
        <4>2. AllignedRead(store'.blk, m) = AllignedRead(store.blk, m)
          BY <2>1, <4>1 DEF AllignedRead
        <4> QED
          BY <2>5, <3>2, <4>1, <4>2
      <3>5. \A m \in ToRename(todo2) :
              store'.tmp[m] # None /\ Carries(store'.tmp[m], addr, data, m)
        BY <2>4, <2>5, <3>1, <3>2, <3>3
      <3>6. \A m \in ToRename(todo2) \ ToRemove(todo2) : store'.blk[m] = None
        BY <2>1, <2>4, <2>5, <3>1, <3>2, <3>3
      <3>7. ASSUME NEW m \in BlocksOf(addr) \ ToRename(todo2)
            PROVE  Landed(h, m)'
        <4>1. m \in Block \ {n} /\ Landed(h, m)
          BY <2>1, <2>4, <2>5, <3>1, <3>3
        <4> QED
          BY <2>1, <2>2, <4>1 DEF Landed
      <3> HIDE DEF n, addr, data, todo, todo2
      <3> QED
        BY <2>2, <3>1, <3>3, <3>4, <3>5, <3>6, <3>7
           DEF FilesOf, Past, Working, todo2
    <2>7. CASE Head(todo) = <<"rename", n>>
      <3>1. /\ n \notin ToRemove(todo) /\ ToRename(todo) = ToRemove(todo) \cup {n}
            /\ Len(todo) = 1 => ToRename(todo) = {n}
            /\ Len(todo) # 1 => /\ Tail(todo) \in Rests(addr)
                                /\ ToRemove(Tail(todo)) = ToRemove(todo)
                                /\ ToRename(Tail(todo)) = ToRename(todo) \ {n}
        <4>1. Head(todo)[1] = "rename" /\ "remove" # "rename"
          BY <2>7
        <4> HIDE DEF n, todo
        <4> QED
          BY <2>9, <4>1
      <3>2. /\ store'.blk[n] = store.tmp[n] /\ store.tmp[n] # None
        <4>1. Head(todo)[1] # "remove"
          BY <2>7
        <4> QED
          BY <2>1, <4>1
      <3>3. store'.blk[n] # None /\ Carries(store'.blk[n], addr, data, n)
        <4> HIDE DEF n, addr, data, todo
        <4> QED
          BY <2>1, <2>5, <3>2
      <3>4. ASSUME NEW m \in BlocksOf(addr) \ ToRename(todo)
            PROVE  store'.blk[m] # None /\ Carries(store'.blk[m], addr, data, m)
        <4>1. m \in Block \ {n} /\ Landed(h, m)
          BY <2>1, <2>4, <2>5
        <4> QED
          BY <2>1, <4>1 DEF Landed
      <3>5. CASE Len(todo) = 1
        <4>1. \A m \in BlocksOf(addr) :
                store'.blk[m] # None /\ Carries(store'.blk[m], addr, data, m)
          <5> HIDE DEF n, addr, data, todo
          <5> QED
            BY <3>1, <3>3, <3>4, <3>5
        <4> HIDE DEF n, addr, data, todo, todo2
        <4> QED
          BY <2>2, <3>5, <4>1 DEF FilesOf, Past, Working, Landed
      <3>6. CASE Len(todo) # 1
        <4>1. /\ handler'[h].pc = "commit" /\ todo2 \in Rests(addr)
              /\ ToRemove(todo2) = ToRemove(todo)
              /\ ToRename(todo2) = ToRemove(todo)
          BY <2>2, <3>1, <3>6
        <4>2. ASSUME NEW m \in ToRemove(todo)
              PROVE  /\ store'.tmp[m] =
                          Over(AllignedRead(store'.blk, m), addr, data, m)
                     /\ store'.tmp[m] # None
                     /\ Carries(store'.tmp[m], addr, data, m)
          <5>1. m \in Block \ {n} /\ m \in ToRename(todo)
            BY <2>4, <3>1
          <5>2. /\ store'.tmp[m] = store.tmp[m]
                /\ AllignedRead(store'.blk, m) = AllignedRead(store.blk, m)
            BY <2>1, <5>1 DEF AllignedRead
          <5> QED
            BY <2>5, <5>1, <5>2
        <4>3. \A m \in BlocksOf(addr) \ ToRename(todo2) :
                store'.blk[m] # None /\ Carries(store'.blk[m], addr, data, m)
          <5> HIDE DEF n, addr, data, todo, todo2
          <5> QED
            BY <3>1, <3>3, <3>4, <4>1
        <4> HIDE DEF n, addr, data, todo, todo2
        <4> QED
          BY <2>2, <4>1, <4>2, <4>3 DEF FilesOf, Past, Working, Landed, todo2
      <3> QED
        BY <3>5, <3>6
    <2> QED
      BY <2>1, <2>6, <2>7
  <1>4. CASE ~Stage(h) /\ ~CommitOp(h)
    <2>1. store' = store
      BY <1>4 DEF Step, Lock, LockNext, Found, NotFound, AppendLog, Insert,
                  UnlockNext, Unlock
    <2>2. \/ handler'[h].pc \notin Past \cup {"commit"}
          \/ /\ handler[h].pc \in Past
             /\ handler'[h].pc \in Past
             /\ handler'[h].addr = addr /\ handler'[h].data = data
      BY <1>1, <1>4 DEF Step, Lock, LockNext, Found, NotFound, AppendLog, Insert,
                  UnlockNext, Unlock, HandlerState, Idle, Locking, Unlocking, Past, Working
    <2>3. ASSUME NEW n, Landed(h, n), handler'[h].addr = addr, handler'[h].data = data
          PROVE  Landed(h, n)'
      BY <2>1, <2>3 DEF Landed
    <2> HIDE DEF addr, data
    <2> QED
      BY <1>1, <2>2, <2>3 DEF FilesOf, Past, Working, addr
  <1> QED
    BY <1>2, <1>3, <1>4

LEMMA StepFiles ==
    ASSUME LogInv, FilesInv, NEW h \in Handler, Step(h)
    PROVE  FilesInv'
  BY OtherFiles, OwnFiles DEF FilesInv

LEMMA InitFiles == Init => FilesInv
  BY DEF Init, FilesInv, FilesOf, Idle, Past, Working

LEMMA NextFiles ==
    ASSUME LogInv, FilesInv, [Next]_vars
    PROVE  FilesInv'
  <1>1. TypeOK /\ handler \in [Handler -> HandlerState]
    BY DEF LogInv, TypeOK
  <1>2. ASSUME NEW h \in Handler, handler'[h] = handler[h], store' = store
        PROVE  FilesOf(h)'
    BY <1>1, <1>2, FilesKept DEF FilesInv
  <1>3. CASE \E h \in Handler : Step(h)
    BY <1>3, StepFiles
  <1>4. CASE CallArrives
    <2>1. PICK h \in Handler, addr \in Addr, data \in Payload : Call(h, addr, data)
      BY <1>4 DEF CallArrives
    <2>2. handler'[h].pc = "lock" /\ store' = store
      BY <1>1, <2>1 DEF Call
    <2>3. FilesOf(h)'
      BY <2>2 DEF FilesOf, Past, Working
    <2>4. ASSUME NEW g \in Handler, g # h
          PROVE  FilesOf(g)'
      <3>1. handler'[g] = handler[g]
        BY <1>1, <2>1, <2>4 DEF Call
      <3> QED
        BY <1>2, <2>2, <3>1
    <2> QED
      BY <2>3, <2>4 DEF FilesInv
  <1>5. CASE Crash
    BY <1>5 DEF Crash, FilesInv, FilesOf, Idle, Past, Working
  <1>6. CASE Start \/ UNCHANGED vars
    <2>1. handler' = handler /\ store' = store
      BY <1>6 DEF Start, vars
    <2> QED
      BY <1>2, <2>1 DEF FilesInv
  <1> QED
    BY <1>3, <1>4, <1>5, <1>6 DEF Next

LEMMA FilesInvariance == Spec => [](LogInv /\ FilesInv)
  BY InitLog, NextLog, InitFiles, NextFiles, PTL DEF Spec

\* A writer that has committed reads its data back for as long as it holds its
\* mutexes, at any block size and whatever the other handlers are doing.
THEOREM WritersReadBack == Spec => []ReadsBack
  <1>1. ASSUME LogInv, FilesInv PROVE ReadsBack
    <2> SUFFICES ASSUME NEW h \in Handler, handler[h].pc \in Past
                 PROVE  Read(store.blk, handler[h].addr) = handler[h].data
      BY DEF ReadsBack, Past, Working
    <2>1. /\ handler[h].addr \in Addr /\ handler[h].data \in Content
          /\ store.blk \in Files
      BY <1>1, HandlerType, PayloadAssumption
         DEF LogInv, TypeOK, Store, Past, Working
    <2>2. \A n \in BlocksOf(handler[h].addr) :
            /\ store.blk[n] # None
            /\ Carries(store.blk[n], handler[h].addr, handler[h].data, n)
      BY <1>1 DEF FilesInv, FilesOf, Landed
    <2> QED
      BY <2>1, <2>2, CarriedReads
  <1> QED
    BY FilesInvariance, <1>1, PTL

-----------------------------------------------------------------------------
(* The disk.  The remove of a block is the step of the disk: from there on    *)
(* what is staged counts, and the rename puts it in its place.                *)

\* g is between the two operations on block b.
ReplacingBy(g, b) == /\ handler[g].pc = "commit"
                     /\ Head(handler[g].todo) = <<"rename", b>>

LEMMA ReplacingIts ==
    ASSUME LogInv, FilesInv, NEW g \in Handler, NEW b, ReplacingBy(g, b)
    PROVE  /\ b \in BlocksOf(handler[g].addr) /\ b \in Block
           /\ store.blk[b] = None /\ store.tmp[b] # None
  <1> DEFINE addr == handler[g].addr
             todo == handler[g].todo
  <1>1. addr \in Addr /\ todo \in Rests(addr)
    BY HandlerType DEF LogInv, FilesInv, FilesOf, ReplacingBy
  <1>2. Head(todo)[1] = "rename" /\ Head(todo)[2] = b /\ "rename" # "remove"
    BY DEF ReplacingBy
  <1>3. /\ b \in ToRename(todo) \ ToRemove(todo)
        /\ ToRename(todo) \subseteq BlocksOf(addr)
    <2> HIDE DEF todo
    <2> QED
      BY <1>1, <1>2, RestStep
  <1>4. store.blk[b] = None /\ store.tmp[b] # None
    BY <1>3 DEF FilesInv, FilesOf, ReplacingBy
  <1> QED
    BY <1>1, <1>3, <1>4, BlocksOfType

LEMMA ReplacingApart ==
    ASSUME LogInv, FilesInv, NEW g \in Handler, NEW h \in Handler, g # h,
           NEW b, ReplacingBy(g, b), handler[h].pc \in Working
    PROVE  b \notin BlocksOf(handler[h].addr)
  <1>1. handler[g].pc \in Working /\ HeldApart
    BY DEF ReplacingBy, Working, LogInv
  <1> QED
    BY <1>1, ReplacingIts, WorkingApart

LEMMA OthersKept ==
    ASSUME LogInv, NEW h \in Handler, Step(h), NEW g \in Handler, g # h, NEW b
    PROVE  ReplacingBy(g, b)' <=> ReplacingBy(g, b)
  <1>1. handler'[g] = handler[g]
    BY DEF LogInv, TypeOK, Step, Lock, LockNext, Stage, CommitOp, Found, NotFound,
           AppendLog, Insert, UnlockNext, Unlock
  <1> QED
    BY <1>1 DEF ReplacingBy

\* Block b of the disk.
At(b) == IF Replacing(b) THEN store.tmp[b] ELSE AllignedRead(store.blk, b)

\* A step that neither moves h to or from a rename nor changes a file of a block
\* that is not its own leaves the disk alone.
LEMMA AtKept ==
    ASSUME LogInv, NEW h \in Handler, Step(h), NEW b \in Block,
           ReplacingBy(h, b)' <=> ReplacingBy(h, b),
           store'.blk[b] = store.blk[b],
           Replacing(b) => store'.tmp[b] = store.tmp[b]
    PROVE  At(b)' = At(b)
  <1>1. Replacing(b)' <=> Replacing(b)
    BY OthersKept DEF Replacing, ReplacingBy
  <1>2. AllignedRead(store'.blk, b) = AllignedRead(store.blk, b)
    BY DEF AllignedRead
  <1> QED
    BY <1>1, <1>2 DEF At

\* Every step but those of a commit leaves the disk alone.
LEMMA QuietDisk ==
    ASSUME LogInv, FilesInv, NEW h \in Handler, Step(h), ~CommitOp(h),
           NEW b \in Block
    PROVE  At(b)' = At(b)
  <1>1. TypeOK
    BY DEF LogInv
  <1>2. CASE Stage(h)
    <2> DEFINE addr == handler[h].addr
    <2>1. /\ addr \in Addr /\ handler[h].data \in Content /\ store \in Store
          /\ store' = Write(store, addr, handler[h].data)
          /\ handler[h].pc = "stage"
      BY <1>1, <1>2, HandlerType, PayloadAssumption DEF Stage, TypeOK
    <2>2. handler'[h].pc = "commit" /\ handler'[h].todo = Commit(addr)
      BY <1>1, <1>2 DEF Stage, TypeOK, HandlerState, Idle
    <2>3. Head(Commit(addr)) # <<"rename", b>>
      <3> SUFFICES ASSUME Head(Commit(addr)) = <<"rename", b>> PROVE FALSE
        OBVIOUS
      <3>1. Head(Commit(addr))[1] = "rename" /\ "rename" # "remove"
        OBVIOUS
      <3>2. /\ Commit(addr) \in Rests(addr)
            /\ ToRemove(Commit(addr)) = ToRename(Commit(addr))
        BY <2>1, CommitRest
      <3> QED
        BY <2>1, <3>1, <3>2, RestStep
    <2>4. ~ReplacingBy(h, b)' /\ ~ReplacingBy(h, b)
      BY <2>1, <2>2, <2>3 DEF ReplacingBy
    <2>5. store'.blk[b] = store.blk[b]
      BY <2>1, WriteType
    <2>6. ASSUME Replacing(b) PROVE store'.tmp[b] = store.tmp[b]
      <3>1. PICK g \in Handler : ReplacingBy(g, b)
        BY <2>6 DEF Replacing, ReplacingBy
      <3>2. g # h
        BY <2>4, <3>1
      <3>3. b \notin BlocksOf(addr)
        BY <2>1, <3>1, <3>2, ReplacingApart DEF Working
      <3> QED
        BY <2>1, <3>3, WriteStages
    <2> QED
      BY <2>4, <2>5, <2>6, AtKept
  <1>3. CASE ~Stage(h)
    <2>1. store' = store
      BY <1>3 DEF Step, Lock, LockNext, Found, NotFound, AppendLog, Insert,
                  UnlockNext, Unlock
    <2>2. handler[h].pc # "commit" /\ handler'[h].pc # "commit"
      BY <1>1, <1>3 DEF Step, Lock, LockNext, Found, NotFound, AppendLog, Insert,
                  UnlockNext, Unlock, TypeOK, HandlerState, Idle, Locking, Unlocking
    <2>3. ~ReplacingBy(h, b)' /\ ~ReplacingBy(h, b)
      BY <2>2 DEF ReplacingBy
    <2> QED
      BY <2>1, <2>3, AtKept
  <1> QED
    BY <1>2, <1>3

\* Neither operation on block n moves another block of the disk.
LEMMA CommitOthers ==
    ASSUME LogInv, FilesInv, NEW h \in Handler, CommitOp(h),
           NEW b \in Block, b # Head(handler[h].todo)[2]
    PROVE  At(b)' = At(b)
  <1> DEFINE addr == handler[h].addr
             todo == handler[h].todo
             n == Head(todo)[2]
  <1>1. TypeOK /\ FilesOf(h) /\ Step(h)
    BY DEF LogInv, FilesInv, Step
  <1>2. /\ addr \in Addr /\ todo \in Rests(addr)
        /\ store'.blk[b] = store.blk[b] /\ store'.tmp[b] = store.tmp[b]
        /\ Head(todo) = <<"remove", n>> \/ Head(todo) = <<"rename", n>>
    BY <1>1, CommitOpFiles
  <1>3. handler'[h].pc = "commit" =>
          /\ Len(todo) # 1 /\ handler'[h].todo = Tail(todo)
    BY <1>1 DEF CommitOp, TypeOK, HandlerState, Idle
  <1>4. Head(todo) # <<"rename", b>>
    BY <1>2
  <1>5. Len(todo) # 1 => Head(Tail(todo)) # <<"rename", b>>
    <2>1. Len(todo) # 1 => \/ Head(Tail(todo)) = <<"rename", n>>
                           \/ Head(Tail(todo))[1] = "remove"
      <3> HIDE DEF addr, todo
      <3> QED
        BY <1>2, RestStep DEF n
    <2>2. b # n
      OBVIOUS
    <2> HIDE DEF todo, n
    <2>3. <<"rename", n>> # <<"rename", b>> /\ <<"rename", b>>[1] # "remove"
      BY <2>2
    <2> QED
      BY <2>1, <2>3
  <1>6. ~ReplacingBy(h, b) /\ ~ReplacingBy(h, b)'
    <2>1. ~ReplacingBy(h, b)
      BY <1>4 DEF ReplacingBy
    <2>2. ~ReplacingBy(h, b)'
      BY <1>3, <1>5 DEF ReplacingBy
    <2> QED
      BY <2>1, <2>2
  <1> QED
    BY <1>1, <1>2, <1>6, AtKept

\* The remove of block n is a write of the disk's, the rename leaves it alone.
LEMMA CommitDisk ==
    ASSUME LogInv, FilesInv, NEW h \in Handler, CommitOp(h)
    PROVE  LET addr == handler[h].addr
           IN  \E n \in BlocksOf(addr) :
                 /\ n \in Block /\ n = Head(handler[h].todo)[2]
                 /\ At(n)' = At(n) \/ At(n)' = Over(At(n), addr, handler[h].data, n)
  <1> DEFINE addr == handler[h].addr
             todo == handler[h].todo
  <1> PICK n : n = Head(todo)[2]
    OBVIOUS
  <1>1. TypeOK /\ FilesOf(h) /\ Step(h) /\ handler[h].pc = "commit"
    BY DEF LogInv, FilesInv, Step, CommitOp
  <1>2. /\ addr \in Addr /\ todo \in Rests(addr)
        /\ n \in ToRename(todo) /\ n \in BlocksOf(addr) /\ n \in Block
        /\ \/ /\ Head(todo) = <<"remove", n>>
              /\ store'.blk[n] = None /\ store'.tmp[n] = store.tmp[n]
           \/ /\ Head(todo) = <<"rename", n>>
              /\ store'.blk[n] = store.tmp[n] /\ store.tmp[n] # None
    BY <1>1, CommitOpFiles
  <1>3. /\ Len(todo) = 1 => handler'[h].pc = "look"
        /\ Len(todo) # 1 => handler'[h].pc = "commit" /\ handler'[h].todo = Tail(todo)
    BY <1>1 DEF CommitOp, TypeOK, HandlerState, Idle
  <1>4. \/ /\ Head(todo)[1] = "remove" /\ n \in ToRemove(todo)
           /\ Len(todo) # 1 /\ Head(Tail(todo)) = <<"rename", n>>
        \/ /\ Head(todo)[1] = "rename"
           /\ Len(todo) # 1 => Head(Tail(todo))[1] = "remove"
    <2>1. /\ <<"remove", n>>[1] = "remove" /\ <<"rename", n>>[1] = "rename"
      OBVIOUS
    <2> QED
      BY <1>2, <2>1, RestStep
  <1>5. ASSUME NEW g \in Handler, g # h
        PROVE  ~ReplacingBy(g, n) /\ ~ReplacingBy(g, n)'
    <2>1. ~ReplacingBy(g, n)
      BY <1>1, <1>2, <1>5, ReplacingApart DEF Working
    <2> QED
      BY <1>1, <1>5, <2>1, OthersKept
  <1>6. CASE Head(todo) = <<"remove", n>>
    <2>1. Head(todo)[1] = "remove" /\ "remove" # "rename"
      BY <1>6
    <2>2. /\ n \in ToRemove(todo) /\ Len(todo) # 1
          /\ Head(Tail(todo)) = <<"rename", n>>
      <3> HIDE DEF todo
      <3> QED
        BY <1>4, <2>1
    <2>3. ~ReplacingBy(h, n)
      BY <1>6, <2>1 DEF ReplacingBy
    <2>4. handler'[h].pc = "commit" /\ Head(handler'[h].todo) = <<"rename", n>>
      BY <1>3, <2>2
    <2>5. ~Replacing(n)
      BY <1>5, <2>3 DEF Replacing, ReplacingBy
    <2>6. At(n) = AllignedRead(store.blk, n)
      BY <2>5 DEF At
    <2>7. At(n)' = store'.tmp[n]
      BY <2>4 DEF At, Replacing
    <2>8. store'.tmp[n] = store.tmp[n]
      <3> HIDE DEF todo
      <3> QED
        BY <1>2, <2>1, <1>6
    <2>9. store.tmp[n] = Over(AllignedRead(store.blk, n), addr, handler[h].data, n)
      BY <1>1, <2>2 DEF FilesOf
    <2> QED
      BY <1>2, <2>6, <2>7, <2>8, <2>9
  <1>7. CASE Head(todo) = <<"rename", n>>
    <2>1. Head(todo)[1] = "rename" /\ "remove" # "rename"
      BY <1>7
    <2>2. Len(todo) # 1 => Head(Tail(todo))[1] = "remove"
      <3> HIDE DEF todo
      <3> QED
        BY <1>4, <2>1
    <2>3. /\ store'.blk[n] = store.tmp[n] /\ store.tmp[n] # None
      <3> HIDE DEF todo
      <3> QED
        BY <1>2, <2>1, <1>7
    <2>4. Replacing(n)
      BY <1>1, <1>7 DEF Replacing
    <2>5. ~ReplacingBy(h, n)'
      <3>1. <<"rename", n>>[1] # "remove"
        OBVIOUS
      <3>2. Len(todo) # 1 => Head(Tail(todo)) # <<"rename", n>>
        BY <2>2, <3>1
      <3> QED
        BY <1>3, <3>2 DEF ReplacingBy
    <2>6. ~Replacing(n)'
      BY <1>5, <2>5 DEF Replacing, ReplacingBy
    <2>7. At(n) = store.tmp[n]
      BY <2>4 DEF At
    <2>8. At(n)' = AllignedRead(store'.blk, n)
      BY <2>6 DEF At
    <2> QED
      BY <1>2, <2>3, <2>7, <2>8 DEF AllignedRead
  <1> QED
    BY <1>2, <1>6, <1>7

LEMMA DiskOperators ==
    /\ D!Block = Block /\ D!Offset = Offset /\ D!Zeros = Zeros
    /\ \A addr : D!BlocksOf(addr) = BlocksOf(addr)
  BY DEF Offset, D!Block, D!Offset, D!Zeros, D!BlocksOf, D!IsAlligned, D!GetBlockNumber,
         Block, Zeros, BlocksOf, IsAlligned, GetBlockNumber

LEMMA DiskInit == Init => D!Init
  <1> SUFFICES ASSUME Init PROVE D!Init
    OBVIOUS
  <1>1. \A b \in Block : ~Replacing(b) /\ AllignedRead(store.blk, b) = Zeros
    BY DEF Init, Replacing, Idle, AllignedRead, EmptyStore, NoFiles
  <1>2. Shown = [b \in Block |-> Zeros]
    BY <1>1 DEF Shown
  <1> QED
    BY <1>2, DiskOperators DEF Init, D!Init

\* Every step of a node is a step of the disk or leaves it alone.
LEMMA DiskNext ==
    ASSUME LogInv, FilesInv, [Next]_vars
    PROVE  [D!Next]_<<up, Shown>>
  <1>1. Shown = [b \in Block |-> At(b)] /\ Shown' = [b \in Block |-> At(b)']
    BY DEF Shown, At
  <1>2. TypeOK /\ handler \in [Handler -> HandlerState]
    BY DEF LogInv, TypeOK
  <1>3. CASE \E h \in Handler : Step(h)
    <2>1. PICK h \in Handler : Step(h)
      BY <1>3
    <2>2. up' = up
      BY <2>1 DEF Step, Lock, LockNext, Stage, CommitOp, Found, NotFound,
                  AppendLog, Insert, UnlockNext, Unlock
    <2>3. CASE ~CommitOp(h)
      BY <1>1, <2>1, <2>2, <2>3, QuietDisk
    <2>4. CASE CommitOp(h)
      <3> DEFINE addr == handler[h].addr
                 data == handler[h].data
      <3>1. PICK n \in BlocksOf(addr) :
               /\ n \in Block /\ n = Head(handler[h].todo)[2]
               /\ At(n)' = At(n) \/ At(n)' = Over(At(n), addr, data, n)
        BY <2>4, CommitDisk
      <3>2. \A b \in Block \ {n} : At(b)' = At(b)
        BY <2>4, <3>1, CommitOthers
      <3>3. addr \in Addr /\ data \in Payload
        BY <1>2, <2>4, HandlerType DEF CommitOp
      <3>4. up
        BY <2>4 DEF CommitOp, LogInv, HashIsLog
      <3> HIDE DEF addr, data
      <3>5. CASE At(n)' = At(n)
        BY <1>1, <2>2, <3>2, <3>5
      <3>6. CASE At(n)' = Over(At(n), addr, data, n)
        <4>1. Shown' = [Shown EXCEPT ![n] = Over(Shown[n], addr, data, n)]
          BY <1>1, <3>1, <3>2, <3>6
        <4>2. D!Put(addr, data, n)
          BY <2>2, <3>1, <3>4, <4>1, DiskOperators DEF D!Put, Over
        <4> QED
          BY <3>1, <3>3, <4>2, DiskOperators DEF D!Next
      <3> QED
        BY <3>1, <3>5, <3>6
    <2> QED
      BY <2>3, <2>4
  <1>4. CASE CallArrives
    <2>1. PICK h \in Handler, addr \in Addr, data \in Payload : Call(h, addr, data)
      BY <1>4 DEF CallArrives
    <2>2. /\ handler[h].pc = "idle" /\ handler'[h].pc = "lock"
          /\ \A g \in Handler : g # h => handler'[g] = handler[g]
          /\ store' = store /\ up' = up
      BY <1>2, <2>1 DEF Call
    <2>3. \A b : Replacing(b)' <=> Replacing(b)
      BY <2>2 DEF Replacing
    <2>4. \A b \in Block : At(b)' = At(b)
      BY <2>2, <2>3 DEF At
    <2> QED
      BY <1>1, <2>2, <2>4
  <1>5. CASE Crash
    <2> DEFINE lost == {b \in Block : Replacing(b)}
    <2>1. \A b \in Block : At(b)' = AllignedRead(store.blk, b)
      BY <1>5 DEF Crash, At, Replacing, Idle
    <2>2. ASSUME NEW b \in lost PROVE AllignedRead(store.blk, b) = Zeros
      <3>1. PICK g \in Handler : ReplacingBy(g, b)
        BY <2>2 DEF Replacing, ReplacingBy
      <3> QED
        BY <3>1, ReplacingIts DEF AllignedRead
    <2>3. \A b \in Block \ lost : AllignedRead(store.blk, b) = At(b)
      BY DEF At
    <2>4. Shown' = [b \in Block |-> IF b \in lost THEN Zeros ELSE Shown[b]]
      <3> HIDE DEF lost
      <3> QED
        BY <1>1, <2>1, <2>2, <2>3
    <2>5. lost \in SUBSET Block /\ up /\ up' = FALSE
      BY <1>5 DEF Crash
    <2> HIDE DEF lost
    <2>6. D!Stop(lost)
      BY <2>4, <2>5, DiskOperators DEF D!Stop
    <2> QED
      BY <2>5, <2>6, DiskOperators DEF D!Next
  <1>6. CASE Start
    <2>1. ~up /\ up' = TRUE /\ handler' = handler /\ store' = store
      BY <1>6 DEF Start
    <2>2. Shown' = Shown
      BY <2>1 DEF Shown, Replacing
    <2> QED
      BY <2>1, <2>2 DEF D!Next, D!Boot
  <1>7. CASE UNCHANGED vars
    <2>1. up' = up /\ handler' = handler /\ store' = store
      BY <1>7 DEF vars
    <2>2. Shown' = Shown
      BY <2>1 DEF Shown, Replacing
    <2> QED
      BY <2>1, <2>2
  <1> QED
    BY <1>3, <1>4, <1>5, <1>6, <1>7 DEF Next

\* A node is a disk: its writes change their own bytes, one block after the other,
\* and only a crash loses a block, at any block size, for any addresses, handlers
\* and crashes.
THEOREM NodeIsDisk == Spec => ImplementsDisk
  <1>1. Init => D!Init
    BY DiskInit
  <1>2. LogInv /\ FilesInv /\ [Next]_vars => [D!Next]_<<up, Shown>>
    BY DiskNext
  <1> QED
    BY <1>1, <1>2, FilesInvariance, PTL DEF Spec, ImplementsDisk, D!Spec
=============================================================================

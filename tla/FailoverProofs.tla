--------------------------- MODULE FailoverProofs ----------------------------
(* Clients and health only choose among the steps of Replication: Failover  *)
(* implements it, and what is proved of Replication holds of Failover.  The *)
(* test programs of ConsistancyTest are clients of it like any other.       *)
EXTENDS ConsistancyTest, LockProofs

\* The part of FTypeOK that says what a client may send.
CallsTyped == call \in [Writer -> CallState]

LEMMA RouteType == \A w \in Writer : Route(w) \in Node
  BY DEF Route, Node

\* A round of the consumer, apart from the health, is Replication's or nothing.
LEMMA RoundMaps ==
    ASSUME NEW n \in Node, Round(n)
    PROVE  (Consumer(n) \/ UNCHANGED vars) /\ UNCHANGED client
  <1>1. CASE RoundAlone(n)
    BY <1>1 DEF RoundAlone
  <1>2. CASE RoundDrain(n)
    BY <1>2 DEF RoundDrain, Consumer
  <1>3. CASE RoundIdle(n)
    BY <1>3 DEF RoundIdle
  <1>4. CASE ConsumerJoin(n) /\ UNCHANGED <<reports, client>>
    BY <1>4 DEF Consumer
  <1> QED
    BY <1>1, <1>2, <1>3, <1>4 DEF Round

LEMMA ReplicateMaps ==
    ASSUME Replicate
    PROVE  Next /\ UNCHANGED client
  <1>1. UNCHANGED client
    BY DEF Replicate, Unseen
  <1>2. ASSUME NEW n \in Node, Break(n) PROVE Next
    BY <1>2 DEF Next
  <1>3. ASSUME NEW r \in rpc, Serve(r) \/ Unreachable(r) PROVE Next
    BY <1>3 DEF Next
  <1>4. ASSUME NEW x \in Node \X SubThread, Worker(x) PROVE Next
    BY <1>4 DEF Next
  <1>5. ASSUME NEW c \in Checker, CheckRemote(c) PROVE Next
    BY <1>5 DEF CheckStep, Next
  <1> QED
    BY <1>1, <1>2, <1>3, <1>4, <1>5 DEF Replicate

LEMMA ChecksMap ==
    ASSUME Checks
    PROVE  Next /\ UNCHANGED <<reports, client>>
  BY DEF Checks, Unseen, CheckStep, Next

\* A request goes to a node clients may write to, with a payload of theirs.
LEMMA ArriveMaps ==
    ASSUME CallsTyped, NEW w \in Writer, Arrive(w)
    PROVE  WriteArrives(w)
  <1>1. call[w].pc # "idle"
    BY DEF Arrive
  <1>2. call[w] \in CallState
    BY DEF CallsTyped
  <1>3. /\ call[w].to \in Node
        /\ call[w].addr \in Addr
        /\ call[w].data \in Payload
    BY <1>1, <1>2 DEF CallState, NoCall
  <1> QED
    BY <1>3, RouteAssumption DEF Arrive, WriteArrives

\* Every step of Failover is a step of Replication or leaves it alone.
LEMMA StepMaps ==
    ASSUME CallsTyped, [FNext]_fvars
    PROVE  [Next]_vars
  <1>1. ASSUME NEW n \in Node, Boot(n) PROVE Next
    BY <1>1 DEF Boot, Next
  <1>2. ASSUME NEW n \in Node, Beat(n) PROVE Next
    BY <1>2 DEF Beat, Next
  <1>3. ASSUME NEW n \in Node, Fail(n) PROVE Next
    BY <1>3 DEF Fail, Next
  <1>4. ASSUME NEW n \in Node, Round(n) PROVE [Next]_vars
    BY <1>4, RoundMaps DEF Next
  <1>5. ASSUME NEW w \in Writer, ClientBeat(w) PROVE [Next]_vars
    BY <1>5 DEF ClientBeat
  <1>6. ASSUME NEW w \in Writer, Arrive(w) PROVE Next
    BY <1>6, ArriveMaps DEF Next
  <1>7. ASSUME NEW w \in Writer, Refused(w) PROVE [Next]_vars
    BY <1>7 DEF Refused
  <1>8. ASSUME NEW w \in Writer, Handle(w) PROVE Next
    BY <1>8 DEF Handle, Next
  <1>9. CASE ClientWrites
    BY <1>9 DEF ClientWrites, ClientWrite
  <1>10. CASE Replicate
    BY <1>10, ReplicateMaps
  <1>11. CASE Checks
    BY <1>11, ChecksMap
  <1>12. CASE UNCHANGED fvars
    BY <1>12 DEF fvars
  <1> QED
    BY <1>1, <1>2, <1>3, <1>4, <1>5, <1>6, <1>7, <1>8, <1>9, <1>10, <1>11,
       <1>12 DEF FNext

-----------------------------------------------------------------------------
LEMMA InitCalls == FInit => CallsTyped
  BY DEF FInit, CallsTyped, CallState

LEMMA StepCalls ==
    ASSUME CallsTyped, [FNext]_fvars
    PROVE  CallsTyped'
  <1>1. ASSUME NEW n \in Node, Boot(n) \/ Beat(n) PROVE CallsTyped'
    BY <1>1 DEF Boot, Beat, client, CallsTyped
  <1>2. ASSUME NEW n \in Node, Fail(n) PROVE CallsTyped'
    <2>1. NoCall \in CallState
      BY DEF CallState
    <2> QED
      BY <1>2, <2>1 DEF Fail, CallsTyped
  <1>3. ASSUME NEW n \in Node, Round(n) PROVE CallsTyped'
    BY <1>3, RoundMaps DEF client, CallsTyped
  <1>4. ASSUME NEW w \in Writer, ClientBeat(w) PROVE CallsTyped'
    BY <1>4 DEF ClientBeat, CallsTyped
  <1>5. ASSUME NEW w \in Writer, Arrive(w) PROVE CallsTyped'
    <2>1. call[w] \in CallState /\ call[w].pc = "sent"
      BY <1>5 DEF Arrive, CallsTyped
    <2>2. [call[w] EXCEPT !.pc = "served"] \in CallState
      BY <2>1 DEF CallState, NoCall
    <2> QED
      BY <1>5, <2>2 DEF Arrive, CallsTyped
  <1>6. ASSUME NEW w \in Writer, Refused(w) \/ Handle(w) PROVE CallsTyped'
    <2>1. NoCall \in CallState
      BY DEF CallState
    <2> QED
      BY <1>6, <2>1 DEF Refused, Handle, CallsTyped
  <1>7. CASE ClientWrites
    <2>1. PICK w \in Writer, addr \in Addr, data \in Payload :
                 ClientWrite(w, addr, data)
      BY <1>7 DEF ClientWrites
    <2>2. [pc |-> "sent", to |-> Route(w), addr |-> addr, data |-> data]
            \in CallState
      BY RouteType DEF CallState
    <2> QED
      BY <2>1, <2>2 DEF ClientWrite, CallsTyped
  <1>8. CASE Replicate
    BY <1>8, ReplicateMaps DEF client, CallsTyped
  <1>9. CASE Checks \/ UNCHANGED fvars
    BY <1>9, ChecksMap DEF fvars, client, CallsTyped
  <1> QED
    BY <1>1, <1>2, <1>3, <1>4, <1>5, <1>6, <1>7, <1>8, <1>9 DEF FNext

\* Failover implements Replication: however clients choose, whatever health the
\* nodes report, the mirrors only take steps Replication allows.
THEOREM FailoverReplicates == FSpec => Spec
  <1>1. FInit => Init
    BY DEF FInit
  <1> QED
    BY <1>1, InitCalls, StepCalls, StepMaps, PTL DEF FSpec, Spec

\* So it inherits mutual exclusion ...
THEOREM FailoverExclusion == FSpec => []LocksExclusive
  BY FailoverReplicates, MutualExclusion, PTL

-----------------------------------------------------------------------------
(* What a client and a node know of each other.                             *)

Known ==
    /\ health \in [Node -> Health]
    /\ mirrorAhead \in [Node -> BOOLEAN]
    /\ fit \in [Writer -> BOOLEAN]

LEMMA StepKnown ==
    ASSUME Known, [FNext]_fvars
    PROVE  Known'
  <1>0. \A n \in Node : SaysAhead(n) \in BOOLEAN
    BY DEF SaysAhead
  <1>1. ASSUME NEW n \in Node, Boot(n) PROVE Known'
    BY <1>0, <1>1, PeerType DEF Boot, Known, Health, client
  <1>2. ASSUME NEW n \in Node, Beat(n) PROVE Known'
    <2>1. (isAlive'[n] /\ SaysAhead(Peer(n))) \in BOOLEAN
      OBVIOUS
    <2> QED
      BY <1>2, <2>1 DEF Beat, Known, client
  <1>3. ASSUME NEW n \in Node, Fail(n) PROVE Known'
    BY <1>3 DEF Fail, Known, Health
  <1>4. ASSUME NEW n \in Node, Round(n) PROVE Known'
    <2>1. CASE RoundAlone(n)
      BY <2>1 DEF RoundAlone, Known, Health, client
    <2>2. CASE RoundDrain(n)
      BY <2>2 DEF RoundDrain, Known, Health, client
    <2>3. CASE RoundIdle(n)
      BY <2>3 DEF RoundIdle, Known, Health, client
    <2>4. CASE ConsumerJoin(n) /\ UNCHANGED <<reports, client>>
      BY <2>4 DEF Known, reports, client
    <2> QED
      BY <1>4, <2>1, <2>2, <2>3, <2>4 DEF Round
  <1>5. ASSUME NEW w \in Writer, ClientBeat(w) PROVE Known'
    <2>1. (Reported(Primary) \in Fit) \in BOOLEAN
      OBVIOUS
    <2> QED
      BY <1>5, <2>1 DEF ClientBeat, Known, reports
  <1>6. ASSUME NEW w \in Writer, Arrive(w) \/ Refused(w) \/ Handle(w)
        PROVE  Known'
    BY <1>6 DEF Arrive, Refused, Handle, Known, reports
  <1>7. CASE ClientWrites
    BY <1>7 DEF ClientWrites, ClientWrite, Known, reports
  <1>8. CASE Replicate
    BY <1>8 DEF Replicate, Unseen, Known, reports, client
  <1>9. CASE Checks \/ UNCHANGED fvars
    BY <1>9, ChecksMap DEF fvars, reports, client, Known
  <1> QED
    BY <1>1, <1>2, <1>3, <1>4, <1>5, <1>6, <1>7, <1>8, <1>9 DEF FNext

\* ... and its types, to which it adds its own: a client that is served was sent
\* to a node, and only the five values of Health are ever reported.
THEOREM FTypeCorrect == FSpec => []FTypeOK
  <1>1. FInit => Known
    BY DEF FInit, Known, Health
  <1>2. TypeOK /\ Known /\ CallsTyped => FTypeOK
    BY DEF FTypeOK, Known, CallsTyped
  <1> QED
    BY <1>1, <1>2, InitCalls, StepCalls, StepKnown, FailoverReplicates,
       TypeCorrect, PTL DEF FSpec

-----------------------------------------------------------------------------
(* The test programs.                                                        *)

\* What TTypeOK adds to FTypeOK.
TestsTyped ==
    /\ alive \in [Writer -> SUBSET Node]
    /\ test \in [Writer -> TestState]

LEMMA ServingMaps ==
    ASSUME Serving
    PROVE  FNext /\ UNCHANGED <<alive, test>>
  BY DEF Serving, FNext

LEMMA TestStepMaps ==
    ASSUME TestsTyped, NEW w \in Writer, TestStep(w)
    PROVE  [FNext]_fvars
  <1>1. CASE TestBeat(w)
    BY <1>1 DEF TestBeat, FNext
  <1>2. CASE TestCheck(w) \/ TestUnanswered(w)
    BY <1>2 DEF TestCheck, TestUnanswered
  <1>3. CASE TestServed(w)
    <2>1. test[w].addr \in Addr
      BY <1>3 DEF TestServed, TestsTyped, TestState
    <2> QED
      BY <1>3, <2>1 DEF TestServed, Checks, Unseen, CheckArrives, Node, FNext
  <1>4. CASE TestAnswered(w)
    <2>1. test[w].by \in Checker
      BY <1>4 DEF TestAnswered, TestsTyped, TestState
    <2> QED
      BY <1>4, <2>1 DEF TestAnswered, Checks, Unseen, FNext
  <1>5. ASSUME NEW addr \in Addr, NEW data \in Payload, TestWrite(w, addr, data)
        PROVE  FNext
    BY <1>5 DEF TestWrite, ClientWrites, FNext
  <1> QED
    BY <1>1, <1>2, <1>3, <1>4, <1>5 DEF TestStep

LEMMA StepTests ==
    ASSUME TestsTyped, [TNext]_tvars
    PROVE  TestsTyped'
  <1>1. CASE Serving
    BY <1>1, ServingMaps DEF TestsTyped
  <1>2. ASSUME NEW w \in Writer, TestStep(w)
        PROVE  TestsTyped'
    <2>0. test[w] \in TestState
      BY DEF TestsTyped
    <2>1. CASE TestBeat(w)
      BY <2>1 DEF TestBeat, TestsTyped, Node
    <2>2. ASSUME NEW result \in BOOLEAN, Returns(w, result), alive' = alive
          PROVE  TestsTyped'
      <3> DEFINE next == [pc |-> IF result THEN "run" ELSE "failed",
                          used |-> test[w].used, addr |-> None, by |-> None]
      <3>1. test[w].used \in SUBSET Addr
        BY <2>0 DEF TestState
      <3>2. next \in TestState
        BY <3>1 DEF TestState
      <3>3. test' = [test EXCEPT ![w] = next]
        BY <2>2 DEF Returns
      <3> HIDE DEF next
      <3> QED
        BY <2>2, <3>2, <3>3 DEF TestsTyped
    <2>3. CASE TestCheck(w)
      <3>1. ASSUME NEW addr \in test[w].used
            PROVE  [test[w] EXCEPT !.pc = "calling", !.addr = addr] \in TestState
        BY <2>0, <2>3 DEF TestCheck, Ready, TestState
      <3> QED
        BY <2>2, <2>3, <3>1 DEF TestCheck, TestsTyped
    <2>4. CASE TestServed(w)
      <3>1. ASSUME NEW c \in Checker
            PROVE  [test[w] EXCEPT !.pc = "served", !.by = c] \in TestState
        BY <2>0, <2>4 DEF TestServed, TestState
      <3> QED
        BY <2>4, <3>1 DEF TestServed, TestsTyped
    <2>5. CASE TestAnswered(w) \/ TestUnanswered(w)
      BY <2>2, <2>5 DEF TestAnswered, TestUnanswered
    <2>6. ASSUME NEW addr \in Addr, NEW data \in Payload,
                 TestWrite(w, addr, data)
          PROVE  TestsTyped'
      <3>1. [test[w] EXCEPT !.used = @ \cup {addr}] \in TestState
        BY <2>0 DEF TestState
      <3> QED
        BY <2>6, <3>1 DEF TestWrite, TestsTyped
    <2> QED
      BY <1>2, <2>1, <2>3, <2>4, <2>5, <2>6
         DEF TestStep, TestCheck, TestServed, TestAnswered, TestUnanswered
  <1>3. CASE UNCHANGED tvars
    BY <1>3 DEF tvars, TestsTyped
  <1> QED
    BY <1>1, <1>2, <1>3 DEF TNext

LEMMA TestMaps ==
    ASSUME TestsTyped, [TNext]_tvars
    PROVE  [FNext]_fvars
  BY ServingMaps, TestStepMaps DEF TNext, tvars

LEMMA InitTests == TInit => TestsTyped
  BY DEF TInit, TestsTyped, TestState, NewTest

\* A test program is a client of Failover that makes checks at the primary only:
\* what is proved of Failover, and of Replication, holds while the tests run.
THEOREM TestsAreClients == TSpec => FSpec
  <1>1. TInit => FInit
    BY DEF TInit
  <1> QED
    BY <1>1, InitTests, StepTests, TestMaps, PTL DEF TSpec, FSpec

\* Every reachable state of the test programs is well typed: one that waits for a
\* check always has an address to check.
THEOREM TTypeCorrect == TSpec => []TTypeOK
  <1>1. FTypeOK /\ TestsTyped => TTypeOK
    BY DEF TTypeOK, TestsTyped
  <1> QED
    BY <1>1, InitTests, StepTests, TestsAreClients, FTypeCorrect, PTL DEF TSpec
=============================================================================

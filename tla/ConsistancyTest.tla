--------------------------- MODULE ConsistancyTest ---------------------------
(***************************************************************************)
(* The test programs of ConsistancyTest.h, as clients of Failover: each    *)
(* writes to addresses, ignoring what Write returns, and then asks whether *)
(* the mirrors hold the same there; it stops with a failure when           *)
(* CheckConsistancy does not return true.                                  *)
(***************************************************************************)
EXTENDS Failover

VARIABLES
    alive, \* the mirrors whose isAlive is set in each program's clients
    test   \* how far each program has come

tvars == <<fvars, alive, test>>

NewTest == [pc |-> "run", used |-> {}, addr |-> None, by |-> None]

TestState ==
    [pc : {"run", "failed"}, used : SUBSET Addr, addr : {None}, by : {None}]
    \cup [pc : {"calling"}, used : SUBSET Addr, addr : Addr, by : {None}]
    \cup [pc : {"served"}, used : SUBSET Addr, addr : Addr, by : Checker]

TTypeOK ==
    /\ FTypeOK
    /\ alive \in [Writer -> SUBSET Node]
    /\ test \in [Writer -> TestState]

TInit ==
    /\ FInit
    /\ alive = [w \in Writer |-> {}]
    /\ test = [w \in Writer |-> NewTest]

\* The heartbeat of either of the factory's two clients.
TestBeat(w) ==
    /\ \/ ClientBeat(w)
          /\ alive' = [alive EXCEPT ![w] = (@ \ {Primary})
                                             \cup {n \in {Primary} : up[n]}]
       \/ UNCHANGED fvars
          /\ alive' = [alive EXCEPT ![w] = (@ \ {Backup})
                                             \cup {n \in {Backup} : up[n]}]
    /\ UNCHANGED test

Ready(w) == test[w].pc = "run" /\ call[w].pc = "idle"

TestWrite(w, addr, data) ==
    /\ Ready(w)
    /\ ClientWrite(w, addr, data)
    /\ test' = [test EXCEPT ![w].used = @ \cup {addr}]
    /\ UNCHANGED alive

\* CheckConsistancy has returned.
Returns(w, result) ==
    test' = [test EXCEPT ![w] = [pc |-> IF result THEN "run" ELSE "failed",
                                 used |-> test[w].used,
                                 addr |-> None, by |-> None]]

\* The factory calls the primary if both mirrors look alive; otherwise it
\* returns nothing, and its caller sees whatever is there.
TestCheck(w) ==
    /\ Ready(w)
    /\ IF alive[w] = Node
       THEN \E addr \in test[w].used :
              test' = [test EXCEPT ![w].pc = "calling", ![w].addr = addr]
       ELSE test[w].used # {} /\ \E result \in BOOLEAN : Returns(w, result)
    /\ UNCHANGED <<fvars, alive>>

TestServed(w) ==
    /\ test[w].pc = "calling"
    /\ \E c \in Checker \ {test[v].by : v \in Writer} :
         /\ CheckLocal(c, Primary, test[w].addr)
         /\ test' = [test EXCEPT ![w].pc = "served", ![w].by = c]
    /\ UNCHANGED <<reports, client, alive>>

\* An answer has come, and its status is not looked at.
TestAnswered(w) ==
    /\ test[w].pc = "served"
    /\ CheckAnswer(test[w].by)
    /\ Returns(w, TRUE)
    /\ UNCHANGED <<reports, client, alive>>

\* None can come any more.
TestUnanswered(w) ==
    /\ \/ test[w].pc = "calling" /\ ~up[Primary]
       \/ test[w].pc = "served" /\ check[test[w].by].pc = "idle"
    /\ Returns(w, FALSE)
    /\ UNCHANGED <<fvars, alive>>

TestStep(w) ==
    \/ TestBeat(w) \/ TestCheck(w) \/ TestServed(w)
    \/ TestAnswered(w) \/ TestUnanswered(w)
    \/ \E addr \in Addr, data \in Payload : TestWrite(w, addr, data)

\* What goes on whatever the programs do.
Serving ==
    /\ \/ \E n \in Node : Boot(n) \/ Beat(n) \/ Fail(n) \/ Round(n)
       \/ \E w \in Writer : Arrive(w) \/ Refused(w) \/ Handle(w)
       \/ Replicate
    /\ UNCHANGED <<alive, test>>

TNext == Serving \/ \E w \in Writer : TestStep(w)

TSpec == TInit /\ [][TNext]_tvars

-----------------------------------------------------------------------------
\* ConsistancyTest.h takes true for an answer that the mirrors agree: when the
\* primary has served a check that returns true, both copies are equal.
TrueMeansConsistent ==
    [][\A w \in Writer :
         test[w].pc = "served" /\ test'[w].pc = "run" =>
           Read(store[Primary].blk, test[w].addr)
             = Read(store[Backup].blk, test[w].addr)]_tvars
=============================================================================

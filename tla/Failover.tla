------------------------------ MODULE Failover -------------------------------
(***************************************************************************)
(* What clients see of the mirrored pair: Replication with the health each *)
(* Replicator reports (replicator.h), what heartbeats tell of it, and the  *)
(* clients, which send each call to the mirror that looks fit              *)
(* (client_lib.h) and take every answer that arrives for success           *)
(* (client_impl.h).  A client is a Writer of Replication: it makes one     *)
(* call at a time.                                                         *)
(***************************************************************************)
EXTENDS Replication

ASSUME RouteAssumption == WriteTo = Node

VARIABLES
    health,      \* Replicator::health of each node
    mirrorAhead, \* whether each node's otherMirrorClient.replicatorHealth is
                 \* REINTEGRATION_AHEAD
    fit,         \* whether each client's primary.isAlive and replicatorHealth
                 \* make it call the primary
    call         \* what each client is waiting for

reports == <<health, mirrorAhead>>
client  == <<fit, call>>
fvars   == <<vars, reports, client>>

Health == {"HEALTHY", "REINTEGRATION_BEHIND", "REINTEGRATION_AHEAD",
           "SINGLE_REPLICA_AHEAD", "UNHEALTHY"}

NoCall == [pc |-> "idle", to |-> Primary, addr |-> None, data |-> None]

CallState ==
    {NoCall} \cup
    [pc : {"sent", "served"}, to : Node, addr : Addr, data : Payload]

FTypeOK ==
    /\ TypeOK
    /\ health \in [Node -> Health]
    /\ mirrorAhead \in [Node -> BOOLEAN]
    /\ fit \in [Writer -> BOOLEAN]
    /\ call \in [Writer -> CallState]

\* A client looks for the servers before it calls, as a server does: both
\* are down.
FInit ==
    /\ Init
    /\ health = [n \in Node |-> "UNHEALTHY"]
    /\ mirrorAhead = [n \in Node |-> FALSE]
    /\ fit = [w \in Writer |-> FALSE]
    /\ call = [w \in Writer |-> NoCall]

\* What a heartbeat of n brings back; a failed one counts as UNHEALTHY.
Reported(n) == IF up[n] THEN health[n] ELSE "UNHEALTHY"

SaysAhead(n) == Reported(n) = "REINTEGRATION_AHEAD"

\* A mirror with one of these serves the clients that prefer it.
Fit == {"HEALTHY", "SINGLE_REPLICA_AHEAD", "REINTEGRATION_AHEAD"}

-----------------------------------------------------------------------------
(* Processes, heartbeats and the consumers' rounds.                        *)

Boot(n) ==
    /\ Start(n)
    /\ health' = [health EXCEPT ![n] = "UNHEALTHY"]
    /\ mirrorAhead' = [mirrorAhead EXCEPT ![n] = SaysAhead(Peer(n))]
    /\ UNCHANGED client

\* A heartbeat that comes back, or one that is missed.
Beat(n) ==
    /\ HeartBeat(n) \/ HeartBeatMissed(n)
    /\ mirrorAhead' = [mirrorAhead EXCEPT ![n] =
                         isAlive'[n] /\ SaysAhead(Peer(n))]
    /\ UNCHANGED <<health, client>>

\* The clients n was serving see their call fail.
Fail(n) ==
    /\ Crash(n)
    /\ health' = [health EXCEPT ![n] = "UNHEALTHY"]
    /\ mirrorAhead' = [mirrorAhead EXCEPT ![n] = FALSE]
    /\ call' = [w \in Writer |->
                  IF call[w].pc = "served" /\ call[w].to = n THEN NoCall
                                                           ELSE call[w]]
    /\ UNCHANGED fit

\* The rounds of Replicator::consumer: the other mirror looks dead ...
RoundAlone(n) ==
    /\ up[n] /\ consumer[n] = "loop"
    /\ ~isAlive[n]
    /\ health' = [health EXCEPT ![n] = "SINGLE_REPLICA_AHEAD"]
    /\ UNCHANGED <<vars, mirrorAhead, client>>

\* ... or it looks alive and there is something to replay ...
RoundDrain(n) ==
    /\ ConsumerDrain(n)
    /\ health' = [health EXCEPT ![n] = "REINTEGRATION_AHEAD"]
    /\ UNCHANGED <<mirrorAhead, client>>

\* Mutant: once behind, always behind.
RoundIdleBehind(n) ==
    /\ up[n] /\ consumer[n] = "loop"
    /\ isAlive[n] /\ MayLookEmpty(pending[n])
    /\ health' = [health EXCEPT ![n] =
                    IF mirrorAhead[n] \/ @ = "REINTEGRATION_BEHIND"
                    THEN "REINTEGRATION_BEHIND" ELSE "HEALTHY"]
    /\ UNCHANGED <<vars, mirrorAhead, client>>

\* ... or there is nothing.
RoundIdle(n) ==
    /\ up[n] /\ consumer[n] = "loop"
    /\ isAlive[n] /\ MayLookEmpty(pending[n])
    /\ health' = [health EXCEPT ![n] =
                    IF mirrorAhead[n] THEN "REINTEGRATION_BEHIND"
                                      ELSE "HEALTHY"]
    /\ UNCHANGED <<vars, mirrorAhead, client>>

Round(n) ==
    \/ RoundAlone(n) \/ RoundDrain(n) \/ RoundIdle(n)
    \/ ConsumerJoin(n) /\ UNCHANGED <<reports, client>>

-----------------------------------------------------------------------------
(* Clients.                                                                *)

\* A heartbeat of a client's primary.
ClientBeat(w) ==
    /\ fit' = [fit EXCEPT ![w] = Reported(Primary) \in Fit]
    /\ UNCHANGED <<vars, reports, call>>

\* Mutant: nothing is chosen when the primary is not fit, as in
\* HafsClientFactory::CheckConsistancy.
RouteMissing(w) == IF fit[w] THEN Primary ELSE None

\* HafsClientFactory's choice, for Write and for Read.
Route(w) == IF fit[w] THEN Primary ELSE Backup

ClientWrite(w, addr, data) ==
    /\ call[w].pc = "idle"
    /\ call' = [call EXCEPT ![w] = [pc |-> "sent", to |-> Route(w),
                                    addr |-> addr, data |-> data]]
    /\ UNCHANGED <<vars, reports, fit>>

ClientWrites == \E w \in Writer, addr \in Addr, data \in Payload :
                    ClientWrite(w, addr, data)

\* The request has reached the server it was sent to, and the lock is free.
Arrive(w) ==
    /\ call[w].pc = "sent"
    /\ \/ WriteAlone(w, call[w].to, call[w].addr, call[w].data)
       \/ WriteMirrored(w, call[w].to, call[w].addr, call[w].data)
    /\ call' = [call EXCEPT ![w].pc = "served"]
    /\ UNCHANGED <<reports, fit>>

\* There is no server: Write returns false.
Refused(w) ==
    /\ call[w].pc = "sent" /\ ~up[call[w].to]
    /\ call' = [call EXCEPT ![w] = NoCall]
    /\ UNCHANGED <<vars, reports, fit>>

\* The handler goes on, or answers: then Write returns true, even if the answer
\* says INVALID.
Handle(w) ==
    /\ WriteStep(w)
    /\ IF write'[w].pc = "idle"
       THEN call' = [call EXCEPT ![w] = NoCall]
       ELSE UNCHANGED call
    /\ UNCHANGED <<reports, fit>>

-----------------------------------------------------------------------------
(* What goes on between the mirrors, and touches none of the above.        *)

Unseen == UNCHANGED <<reports, client>>

Replicate ==
    /\ \/ \E n \in Node : Break(n)
       \/ \E r \in rpc : Serve(r) \/ Unreachable(r)
       \/ \E x \in Node \X SubThread : Worker(x)
       \/ \E c \in Checker : CheckRemote(c)
    /\ Unseen

\* Checks, which any client may make.
Checks == \E c \in Checker : (CheckArrives(c) \/ CheckAnswer(c)) /\ Unseen

FNext ==
    \/ \E n \in Node : Boot(n) \/ Beat(n) \/ Fail(n) \/ Round(n)
    \/ \E w \in Writer : ClientBeat(w) \/ Arrive(w) \/ Refused(w) \/ Handle(w)
    \/ ClientWrites \/ Replicate \/ Checks

FSpec == FInit /\ [][FNext]_fvars

\* As in Replication; and clients' heartbeats come round, and their requests
\* arrive.
FFairness ==
    /\ \A n \in Node : WF_fvars(Boot(n) \/ Beat(n)) /\ WF_fvars(Round(n))
    /\ \A w \in Writer : /\ WF_fvars(ClientBeat(w))
                         /\ WF_fvars(Arrive(w) \/ Refused(w) \/ Handle(w))
    /\ WF_fvars((\E r \in rpc : Serve(r) \/ Unreachable(r)) /\ Unseen)
    /\ \A x \in Node \X SubThread : WF_fvars(Worker(x) /\ Unseen)

FairFSpec == FSpec /\ FFairness

-----------------------------------------------------------------------------
(* Properties.                                                             *)

\* Whatever order processes start, fail and come back in: once they stay up and
\* clients pause, every Write has returned to its client, both nodes say HEALTHY,
\* and clients are back at the primary, unless a sub-thread pops an empty queue.
HealthSettles ==
    \/ []<><<ClientWrites>>_fvars
    \/ <>PoppedEmpty
    \/ <>[](/\ \A n \in Node : health[n] = "HEALTHY"
            /\ \A w \in Writer : call[w].pc = "idle" /\ Route(w) = Primary)

\* ConsistancyTest.h expects a client to read back what it wrote: when a Write has
\* returned true, the mirror a Read would go to has its data.
ReadYourWrite ==
    [][\A w \in Writer :
         LET n == Route(w)'
         IN  Handle(w) /\ call'[w].pc = "idle" /\ up[n] =>
               Read(store'[n].blk, call[w].addr) = call[w].data]_fvars
=============================================================================

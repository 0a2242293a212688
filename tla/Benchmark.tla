------------------------------ MODULE Benchmark ------------------------------
(***************************************************************************)
(* The sandbox engine and the coordinator together: a submission is        *)
(* deployed and announced by the one (sandbox-engine/api/routes.go),       *)
(* fetched, tested and deleted by the other                                *)
(* (botfleet/cmd/coordinator/main.go).  They share the topic and the       *)
(* request DELETE /submissions/:id, and either can die and start again     *)
(* while the other goes on.                                                *)
(***************************************************************************)
EXTENDS SandboxEngine, Sequences

CONSTANTS
    Bots, Slots, Timeout, Cooldown, MaxEvents, MaxRestarts, MaxFailures,  \* of Coordinator
    Others,         \* those of Deleters that serve other clients than the coordinator
    MaxCrashes      \* bound: crashes of the engine

ASSUME OthersAssumption == Others \subseteq Deleters /\ MaxCrashes \in Nat

VARIABLES
    published, bad, position, committed, life, pc, cancelled, status, bots, inflight, measured,
    remaining, finished, errored, failures,
    topic,      \* the submission of each event
    request,    \* the DELETE request that the coordinator waits for, or None
    undeleted,  \* history: the submissions whose DELETE, or its answer, was lost
    crashes     \* crashes of the engine

C == INSTANCE Coordinator

ASSUME FleetAssumption == C!BoundsAssumption /\ C!CooldownAssumption

coordinator == <<published, bad, position, committed, life, pc, cancelled, status, bots, inflight,
                 measured, remaining, finished, errored, failures>>
between     == <<topic, request, undeleted, crashes>>
benchmark   == <<vars, coordinator, between>>

JointTypeOK ==
    /\ TypeOK /\ C!TypeOK
    /\ topic \in Seq(Submissions) /\ Len(topic) = published
    /\ request \in (Deleters \ Others) \cup {None}
    /\ undeleted \subseteq Submissions
    /\ crashes \in 0..MaxCrashes
    \* the events are what the engine announced, once each
    /\ \A s \in Submissions :
          Cardinality({o \in DOMAIN topic : topic[o] = s}) = Cardinality({e \in ready : e.sub = s})
    \* only the DELETE of the submission that was tested is waited for
    /\ request # None => /\ pc = "delete"
                         /\ deleters[request].sub \in {None, topic[position]}

JointInit ==
    /\ Init /\ C!Init
    /\ topic = <<>> /\ request = None /\ undeleted = {} /\ crashes = 0

(***************************************************************************)
(* The engine                                                              *)
(***************************************************************************)
\* The engine goes on without the coordinator, requests of others included.
EngineAlone ==
    /\ ready' = ready
    /\ \A h \in Deleters \ Others : deleters[h] = NoDeleter => deleters'[h] = NoDeleter
    /\ crashes' = IF up /\ ~up' THEN crashes + 1 ELSE crashes
    /\ crashes' <= MaxCrashes
    /\ UNCHANGED <<coordinator, topic, request, undeleted>>

\* The event of s reaches the topic.
Announce(s) ==
    /\ Publish(s) /\ ready' # ready
    /\ C!Publish /\ bad' = bad
    /\ topic' = Append(topic, s)
    /\ UNCHANGED <<request, undeleted, crashes>>

(***************************************************************************)
(* The coordinator's DELETE                                                *)
(***************************************************************************)
Tested == topic[position]

\* mutant: the id is that of the first event the process got
DeleteFirst(h) ==
    /\ pc = "delete" /\ request = None /\ h \notin Others
    /\ StopSubmission(h, Head(topic))
    /\ request' = h
    /\ UNCHANGED <<coordinator, topic, undeleted, crashes>>

\* The request arrives, and the handler goes on to stop the container ...
DeleteArrives(h) ==
    /\ pc = "delete" /\ request = None /\ h \notin Others
    /\ StopSubmission(h, Tested)
    /\ request' = h
    /\ UNCHANGED <<coordinator, topic, undeleted, crashes>>

\* ... or the engine is down, or has no container in its record: 404 or 400.
DeleteRefused ==
    /\ request = None
    /\ C!Delete
    /\ up /\ Known(Tested) => submissions[Tested].container # Tested
    /\ UNCHANGED <<vars, between>>

\* mutant: the answer is not waited for
DeleteUnanswered ==
    /\ C!Delete
    /\ request # None
    /\ request' = None
    /\ UNCHANGED <<vars, topic, undeleted, crashes>>

\* The request is answered, whatever the answer, or broken by the engine's end.
DeleteAnswered ==
    /\ request # None /\ deleters[request] = NoDeleter
    /\ C!Delete
    /\ request' = None
    /\ UNCHANGED <<vars, topic, undeleted, crashes>>

\* The request or its answer is lost on the way.
DeleteLost ==
    /\ C!Delete
    /\ request' = None
    /\ undeleted' = undeleted \cup {Tested}
    /\ UNCHANGED <<vars, topic, crashes>>

\* The coordinator goes on without the engine.  A request that it has sent is
\* served though it dies.
CoordinatorAlone ==
    /\ published' = published
    /\ ~(pc = "delete" /\ pc' = "judge")
    /\ request' = IF pc' = "delete" THEN request ELSE None
    /\ UNCHANGED <<vars, topic, undeleted, crashes>>

(***************************************************************************)
(* Specification.  Both processes are started again (they are Deployments  *)
(* of Kubernetes), docker returns, and so does the coordinator's DELETE,   *)
(* though nothing bounds its wait: an engine that dies ends the connection *)
(* and a host that vanishes is not considered.                             *)
(***************************************************************************)
Deletion == (\E h \in Deleters : DeleteArrives(h)) \/ DeleteRefused \/ DeleteAnswered \/ DeleteLost

JointNext ==
    \/ Next /\ EngineAlone
    \/ C!Next /\ CoordinatorAlone
    \/ (\E s \in Submissions : Announce(s)) \/ Deletion

JointSpec == JointInit /\ [][JointNext]_benchmark

Serving(h) ==
    EvictProxy(h) \/ DockerStop(h) \/ DockerRm(h) \/ DockerFails(h) \/ SetCompleted(h)

Fairness ==
    /\ \A s \in Submissions : WF_benchmark(Announce(s) \/ (Deploying(s) /\ EngineAlone))
    /\ \A h \in Deleters : WF_benchmark(Serving(h) /\ EngineAlone)
    /\ WF_benchmark(Start /\ EngineAlone)
    /\ WF_benchmark(Deletion)
    /\ WF_benchmark((C!Loop \/ C!Handler) /\ CoordinatorAlone)
    /\ WF_benchmark(C!Tick /\ CoordinatorAlone) /\ WF_benchmark(C!Restart /\ CoordinatorAlone)

JointFairSpec == JointSpec /\ Fairness

(***************************************************************************)
(* Properties                                                              *)
(***************************************************************************)
\* While the engine serves, no container runs whose submission has been tested to
\* the end: the record that DELETE needs is written before the event, and a
\* record that was lost is lost with its container.  A request that is lost on the
\* way leaves the container behind, for the coordinator does not ask again.  So
\* does a docker stop that fails, which DockerErrors = FALSE leaves out.
TestedIsStopped ==
    up => \A o \in DOMAIN topic :
        C!Ended(o) => ~Alive(topic[o]) \/ topic[o] \in undeleted

Announced(s) == \E o \in DOMAIN topic : topic[o] = s

\* Every container is stopped in the end, also through crashes of the two
\* processes: except when it was never announced (it may even have come up after
\* its engine died), when its DELETE was lost, or when the run document could not
\* be written.
ContainersReclaimed ==
    \A s \in Submissions :
        Alive(s) ~> \/ ~Alive(s) \/ s \in undeleted
                    \/ deploy[s] = "done" /\ ~Announced(s)
                    \/ \E o \in DOMAIN topic : topic[o] = s /\ C!Erred(o)
=============================================================================

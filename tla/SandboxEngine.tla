--------------------------- MODULE SandboxEngine ---------------------------
(***************************************************************************)
(* The sandbox engine: the handlers of sandbox-engine/api/routes.go, the   *)
(* goroutine that deploys a submission, the runner that drives the Docker  *)
(* CLI, and the in-memory store.  An action is one call that other         *)
(* requests can see: a locked access to the store or the proxy cache, one  *)
(* docker command, one Kafka write.                                        *)
(*                                                                         *)
(* A submission is named by its id, a fresh uuid.  It is deployed once, so *)
(* its container is named by the same id.  Archives, images and HTTP       *)
(* bodies are left out; so is the host name, the same in every URL.        *)
(***************************************************************************)
EXTENDS Integers, FiniteSets

CONSTANTS
    Submissions,
    Deleters,      \* requests to DELETE that can be served at the same time
    Orders,        \* requests to POST an order that can be served at the same time
    None,          \* no such entry
    NoURL,         \* the empty string: no container, no endpoint
    DockerErrors   \* whether a docker stop or rm may fail for no reason of ours

VARIABLES
    up,            \* whether the engine serves requests
    submissions,   \* store: submissions[s], or None
    proxyCache,    \* proxyCache[s]: the target of the cached proxy, or None
    portOffset,    \* of the runner
    deploy,        \* deploy[s]: what the goroutine of s does next
    port,          \* port[s]: the host port it was given
    containers,    \* containers[s]: what Docker holds for s
    adrift,        \* the submissions whose docker run an engine that died has left on its way
    deleters,      \* deleters[h]: where the DELETE request h stands
    orders,        \* orders[q]: where the order request q stands
    ready          \* topic submission.ready

vars == <<up, submissions, proxyCache, portOffset, deploy, port, containers, adrift,
          deleters, orders, ready>>

Status     == {"RECEIVED", "COMPILING", "RUNNING", "FAILED", "COMPLETED"}
Submission == [status : Status, container : Submissions \cup {NoURL}, endpoint : Nat \cup {NoURL}]
Deploy     == {"none", "compiling", "build", "run", "running", "endpoint", "publish",
               "failed", "clear", "done"}
Container  == {"none", "running", "exited", "removed"}
Deleter    == [pc : {"idle", "evict", "stop", "rm", "complete"},
               sub : Submissions \cup {None}, route : {"submissions", "sandbox"}]
Order      == [pc : {"idle", "proxy", "serve"}, sub : Submissions \cup {None},
               url : Nat \cup {NoURL}]
Event      == [sub : Submissions, port : Nat]

ASSUME NamesAssumption ==
    /\ None \notin Nat \cup Submissions \cup Submission \cup Status
    /\ NoURL \notin Nat \cup Submissions \cup {None}
    /\ DockerErrors \in BOOLEAN

NoDeleter == [pc |-> "idle", sub |-> None, route |-> "submissions"]
NoOrder   == [pc |-> "idle", sub |-> None, url |-> NoURL]

TypeOK ==
    /\ up \in BOOLEAN
    /\ submissions \in [Submissions -> Submission \cup {None}]
    /\ proxyCache \in [Submissions -> Nat \cup {NoURL, None}]
    /\ portOffset \in Nat
    /\ deploy \in [Submissions -> Deploy]
    /\ port \in [Submissions -> Nat \cup {None}]
    /\ containers \in [Submissions -> Container]
    /\ adrift \subseteq Submissions
    /\ deleters \in [Deleters -> Deleter]
    /\ orders \in [Orders -> Order]
    /\ ready \subseteq Event

Init ==
    /\ up = TRUE
    /\ submissions = [s \in Submissions |-> None]
    /\ proxyCache = [s \in Submissions |-> None]
    /\ portOffset = 0
    /\ deploy = [s \in Submissions |-> "none"]
    /\ port = [s \in Submissions |-> None]
    /\ containers = [s \in Submissions |-> "none"]
    /\ adrift = {}
    /\ deleters = [h \in Deleters |-> NoDeleter]
    /\ orders = [q \in Orders |-> NoOrder]
    /\ ready = {}

Known(s)   == submissions[s] # None
Alive(s)   == containers[s] = "running"
Present(s) == containers[s] \in {"running", "exited"}

\* Docker refuses a host port that a running container has.
PortFree(s) == \A t \in Submissions : Alive(t) => port[t] # port[s]

(***************************************************************************)
(* store/storage.go                                                        *)
(***************************************************************************)
UpdateStatus(s, status) ==
    submissions' = [submissions EXCEPT ![s].status = status]

UpdateEndpoint(s, container, url) ==
    submissions' = [submissions EXCEPT
                      ![s] = [status |-> @.status, container |-> container, endpoint |-> url]]

(***************************************************************************)
(* handleSubmit, and the goroutine it starts                               *)
(***************************************************************************)
Submit(s) ==
    /\ up /\ deploy[s] = "none"
    /\ submissions' = [submissions EXCEPT
                         ![s] = [status |-> "RECEIVED", container |-> NoURL, endpoint |-> NoURL]]
    /\ deploy' = [deploy EXCEPT ![s] = "compiling"]
    /\ UNCHANGED <<up, proxyCache, portOffset, port, containers, adrift, deleters, orders, ready>>

Goto(s, from, to) ==
    /\ deploy[s] = from
    /\ deploy' = [deploy EXCEPT ![s] = to]
    /\ UNCHANGED <<up, proxyCache, adrift, deleters, orders>>

SetCompiling(s) ==
    /\ Goto(s, "compiling", "build")
    /\ UpdateStatus(s, "COMPILING")
    /\ UNCHANGED <<portOffset, port, containers, ready>>

\* mutant: the offset is not increased
BuildSamePort(s) ==
    /\ Goto(s, "build", "run")
    /\ port' = [port EXCEPT ![s] = 9000 + portOffset]
    /\ UNCHANGED <<portOffset, submissions, containers, ready>>

\* The archive is extracted and the image is built, in 300 s at most; then the
\* next port is taken under the runner's lock.
Build(s) ==
    /\ Goto(s, "build", "run")
    /\ port' = [port EXCEPT ![s] = 9000 + portOffset]
    /\ portOffset' = portOffset + 1
    /\ UNCHANGED <<submissions, containers, ready>>

\* mutant: the error path returns at once
BuildFailsSilently(s) ==
    /\ Goto(s, "build", "done")
    /\ UNCHANGED <<submissions, portOffset, port, containers, ready>>

BuildFails(s) ==
    /\ Goto(s, "build", "failed")
    /\ UNCHANGED <<submissions, portOffset, port, containers, ready>>

\* docker run
RunContainer(s) ==
    /\ Goto(s, "run", "running")
    /\ PortFree(s)
    /\ containers' = [containers EXCEPT ![s] = "running"]
    /\ UNCHANGED <<submissions, portOffset, port, ready>>

\* docker run fails, perhaps after it has created the container; only the image
\* is removed.
RunFails(s) ==
    /\ Goto(s, "run", "failed")
    /\ \E left \in {"none", "exited"} : containers' = [containers EXCEPT ![s] = left]
    /\ UNCHANGED <<submissions, portOffset, port, ready>>

\* mutant: the event is published before the endpoint is recorded
SetRunningOnly(s) ==
    /\ Goto(s, "running", "publish")
    /\ UpdateStatus(s, "RUNNING")
    /\ UNCHANGED <<portOffset, port, containers, ready>>

SetRunning(s) ==
    /\ Goto(s, "running", "endpoint")
    /\ UpdateStatus(s, "RUNNING")
    /\ UNCHANGED <<portOffset, port, containers, ready>>

SetEndpoint(s) ==
    /\ Goto(s, "endpoint", "publish")
    /\ UpdateEndpoint(s, s, port[s])
    /\ UNCHANGED <<portOffset, port, containers, ready>>

\* The event names the container's port.  A failure is only logged, and the
\* message may have been written all the same.
Publish(s) ==
    /\ Goto(s, "publish", "done")
    /\ ready' \in {ready, ready \cup {[sub |-> s, port |-> port[s]]}}
    /\ UNCHANGED <<submissions, portOffset, port, containers>>

SetFailed(s) ==
    /\ Goto(s, "failed", "clear")
    /\ UpdateStatus(s, "FAILED")
    /\ UNCHANGED <<portOffset, port, containers, ready>>

ClearEndpoint(s) ==
    /\ Goto(s, "clear", "done")
    /\ UpdateEndpoint(s, NoURL, NoURL)
    /\ UNCHANGED <<portOffset, port, containers, ready>>

(***************************************************************************)
(* handleStopSubmission and handleContainerDeletion                        *)
(***************************************************************************)
\* evictProxy
Evict(s) == proxyCache' = [proxyCache EXCEPT ![s] = None]

DeleterGoto(h, pc) == deleters' = [deleters EXCEPT ![h].pc = pc]
Done(h)            == deleters' = [deleters EXCEPT ![h] = NoDeleter]

\* mutant: the container is found by its label instead of in the record
StopByLabel(h, s) ==
    /\ up /\ deleters[h].pc = "idle"
    /\ Known(s) /\ Present(s)
    /\ deleters' = [deleters EXCEPT
                      ![h] = [pc |-> "stop", sub |-> s, route |-> "submissions"]]
    /\ UNCHANGED <<up, submissions, proxyCache, portOffset, deploy, port, containers, adrift,
                   orders, ready>>

\* DELETE /submissions/:id.  An unknown id, or a submission without a container
\* in its record, is refused; the container is not looked up again.
StopSubmission(h, s) ==
    /\ up /\ deleters[h].pc = "idle"
    /\ Known(s) /\ submissions[s].container = s
    /\ deleters' = [deleters EXCEPT
                      ![h] = [pc |-> "stop", sub |-> s, route |-> "submissions"]]
    /\ UNCHANGED <<up, submissions, proxyCache, portOffset, deploy, port, containers, adrift,
                   orders, ready>>

\* DELETE /sandbox/:containerID, of any container there has been: the
\* submission that has this id in its record loses its proxy first.  Docker also
\* takes the beginning of an id, which is in no record.
DeleteContainer(h, s) ==
    /\ up /\ deleters[h].pc = "idle"
    /\ containers[s] # "none"
    /\ \E whole \in BOOLEAN :
          deleters' = [deleters EXCEPT
                         ![h] = [pc |-> IF whole /\ Known(s) /\ submissions[s].container = s
                                          THEN "evict" ELSE "stop",
                                 sub |-> s, route |-> "sandbox"]]
    /\ UNCHANGED <<up, submissions, proxyCache, portOffset, deploy, port, containers, adrift,
                   orders, ready>>

EvictProxy(h) ==
    /\ deleters[h].pc = "evict"
    /\ Evict(deleters[h].sub)
    /\ DeleterGoto(h, IF deleters[h].route = "sandbox" THEN "stop" ELSE "complete")
    /\ UNCHANGED <<up, submissions, portOffset, deploy, port, containers, adrift,
                   orders, ready>>

\* docker stop: no error for a container that has exited.
DockerStop(h) ==
    LET s == deleters[h].sub IN
    /\ deleters[h].pc = "stop" /\ Present(s)
    /\ containers' = [containers EXCEPT ![s] = "exited"]
    /\ DeleterGoto(h, "rm")
    /\ UNCHANGED <<up, submissions, proxyCache, portOffset, deploy, port, adrift, orders, ready>>

DockerRm(h) ==
    LET s == deleters[h].sub IN
    /\ deleters[h].pc = "rm" /\ containers[s] = "exited"
    /\ containers' = [containers EXCEPT ![s] = "removed"]
    /\ IF deleters[h].route = "sandbox" THEN Done(h) ELSE DeleterGoto(h, "evict")
    /\ UNCHANGED <<up, submissions, proxyCache, portOffset, deploy, port, adrift, orders, ready>>

\* mutant: the error is ignored
DockerErrorIgnored(h) ==
    /\ \/ deleters[h].pc = "stop" /\ (DockerErrors \/ ~Present(deleters[h].sub))
       \/ deleters[h].pc = "rm" /\ (DockerErrors \/ containers[deleters[h].sub] # "exited")
    /\ IF deleters[h].route = "sandbox" THEN Done(h) ELSE DeleterGoto(h, "evict")
    /\ UNCHANGED <<up, submissions, proxyCache, portOffset, deploy, port, containers, adrift,
                   orders, ready>>

\* docker stop or docker rm fails, because another request was faster or for a
\* reason of Docker's: 500, and nothing else is done.
DockerFails(h) ==
    /\ \/ deleters[h].pc = "stop" /\ (DockerErrors \/ ~Present(deleters[h].sub))
       \/ deleters[h].pc = "rm" /\ (DockerErrors \/ containers[deleters[h].sub] # "exited")
    /\ Done(h)
    /\ UNCHANGED <<up, submissions, proxyCache, portOffset, deploy, port, containers, adrift,
                   orders, ready>>

\* mutant: a status that model.Status does not have
SetStopped(h) ==
    /\ deleters[h].pc = "complete"
    /\ UpdateStatus(deleters[h].sub, "STOPPED")
    /\ Done(h)
    /\ UNCHANGED <<up, proxyCache, portOffset, deploy, port, containers, adrift, orders, ready>>

SetCompleted(h) ==
    /\ deleters[h].pc = "complete"
    /\ UpdateStatus(deleters[h].sub, "COMPLETED")
    /\ Done(h)
    /\ UNCHANGED <<up, proxyCache, portOffset, deploy, port, containers, adrift, orders, ready>>

(***************************************************************************)
(* handleProxyOrder                                                        *)
(***************************************************************************)
\* The endpoint is read from the store, whatever the status ...
ReadEndpoint(q, s) ==
    /\ up /\ orders[q].pc = "idle" /\ Known(s)
    /\ orders' = [orders EXCEPT ![q] = [pc |-> "proxy", sub |-> s, url |-> submissions[s].endpoint]]
    /\ UNCHANGED <<up, submissions, proxyCache, portOffset, deploy, port, containers, adrift,
                   deleters, ready>>

\* ... and used if no proxy is cached (getOrCreateProxy; Load and LoadOrStore
\* are one step, for the latter looks again).  An empty URL parses.
GetOrCreateProxy(q) ==
    LET s == orders[q].sub
        target == IF proxyCache[s] = None THEN orders[q].url ELSE proxyCache[s]
    IN  /\ orders[q].pc = "proxy"
        /\ proxyCache' = [proxyCache EXCEPT ![s] = target]
        /\ orders' = [orders EXCEPT ![q] = [pc |-> "serve", sub |-> s, url |-> target]]
        /\ UNCHANGED <<up, submissions, portOffset, deploy, port, containers, adrift,
                   deleters, ready>>

\* The order is forwarded, answered by the container or by 502.
Serve(q) ==
    /\ orders[q].pc = "serve"
    /\ orders' = [orders EXCEPT ![q] = NoOrder]
    /\ UNCHANGED <<up, submissions, proxyCache, portOffset, deploy, port, containers, adrift,
                   deleters, ready>>

(***************************************************************************)
(* Containers that end by themselves; crashes and starts of the engine     *)
(***************************************************************************)
\* The contestant's program ends, or runs out of memory.
ContainerExits(s) ==
    /\ Alive(s)
    /\ containers' = [containers EXCEPT ![s] = "exited"]
    /\ UNCHANGED <<up, submissions, proxyCache, portOffset, deploy, port, adrift, deleters,
                   orders, ready>>

\* Everything in memory is gone.  A docker run on its way is a process of its
\* own, with no context that would end it.
Crash ==
    /\ up
    /\ up' = FALSE
    /\ submissions' = [s \in Submissions |-> None]
    /\ proxyCache' = [s \in Submissions |-> None]
    /\ deploy' = [s \in Submissions |-> IF deploy[s] = "none" THEN "none" ELSE "done"]
    /\ adrift' = adrift \cup {s \in Submissions : deploy[s] = "run"}
    /\ deleters' = [h \in Deleters |-> NoDeleter]
    /\ orders' = [q \in Orders |-> NoOrder]
    /\ UNCHANGED <<portOffset, port, containers, ready>>

\* The docker run that outlived its engine has its effect at any time, or never:
\* before the next engine looks for containers, or after.
RunLate(s) ==
    /\ s \in adrift /\ containers[s] = "none"
    /\ \E c \in {"exited"} \cup (IF PortFree(s) THEN {"running"} ELSE {}) :
          containers' = [containers EXCEPT ![s] = c]
    /\ UNCHANGED <<up, submissions, proxyCache, portOffset, deploy, port, adrift, deleters,
                   orders, ready>>

\* mutant: no cleanup
StartOnly ==
    /\ ~up
    /\ up' = TRUE
    /\ portOffset' = 0
    /\ UNCHANGED <<submissions, proxyCache, deploy, port, containers, adrift, deleters, orders, ready>>

\* CleanupManagedContainers stops and removes what docker ps lists: the running
\* containers.  Its errors are ignored.
Start ==
    /\ ~up
    /\ up' = TRUE
    /\ portOffset' = 0
    /\ \E left \in [{s \in Submissions : Alive(s)} ->
                      IF DockerErrors THEN {"running", "exited", "removed"} ELSE {"removed"}] :
          containers' = [s \in Submissions |-> IF Alive(s) THEN left[s] ELSE containers[s]]
    /\ UNCHANGED <<submissions, proxyCache, deploy, port, adrift, deleters, orders, ready>>

(***************************************************************************)
(* Specification.  A goroutine that deploys goes on: the build has a       *)
(* timeout, the docker commands and the Kafka writer answer.               *)
(***************************************************************************)
Deploying(s) ==
    \/ SetCompiling(s) \/ Build(s) \/ BuildFails(s) \/ RunContainer(s) \/ RunFails(s)
    \/ SetRunning(s) \/ SetEndpoint(s) \/ Publish(s) \/ SetFailed(s) \/ ClearEndpoint(s)

Deleting(h) ==
    \/ \E s \in Submissions : StopSubmission(h, s) \/ DeleteContainer(h, s)
    \/ EvictProxy(h) \/ DockerStop(h) \/ DockerRm(h) \/ DockerFails(h) \/ SetCompleted(h)

Ordering(q) ==
    \/ \E s \in Submissions : ReadEndpoint(q, s)
    \/ GetOrCreateProxy(q) \/ Serve(q)

Next ==
    \/ \E s \in Submissions : Submit(s) \/ Deploying(s) \/ ContainerExits(s) \/ RunLate(s)
    \/ \E h \in Deleters : Deleting(h)
    \/ \E q \in Orders : Ordering(q)
    \/ Crash \/ Start

Spec == Init /\ [][Next]_vars

FairSpec == Spec /\ \A s \in Submissions : WF_vars(Deploying(s))

(***************************************************************************)
(* Properties                                                              *)
(***************************************************************************)
StatusOf(s) == IF Known(s) THEN submissions[s].status ELSE None

\* What the writers of a status - the goroutine and any number of DELETE
\* requests - do together is the lifecycle of a submission: COMPLETED cannot
\* overtake RUNNING, because the container is recorded after RUNNING only.
Lifecycle == INSTANCE SubmissionLifecycle WITH status <- [s \in Submissions |-> StatusOf(s)]
ImplementsLifecycle == Lifecycle!Spec

\* COMPLETED is only said of a submission whose container is gone, whichever
\* of several requests stopped and removed it.
CompletedIsGone ==
    \A s \in Submissions : StatusOf(s) = "COMPLETED" => containers[s] = "removed"

\* An order that is being forwarded reaches the container of its own submission
\* or none: ports are taken once per life of the engine, and what was in memory
\* before a crash does not outlive it.  What does is a docker run on its way: its
\* container may come up on a port that a submission of this life had.
OrdersReachOwnSandbox ==
    \A q \in Orders, t \in Submissions \ adrift :
        orders[q].pc = "serve" /\ Alive(t) /\ port[t] = orders[q].url => t = orders[q].sub

\* While the engine lives, a submission it announced can be deleted by the
\* coordinator - its record names the container - and the announced port is that
\* of its own container or of none, but for containers that start late.
AnnouncedIsRecorded ==
    \A e \in ready : Known(e.sub) =>
        /\ submissions[e.sub].container = e.sub
        /\ submissions[e.sub].endpoint = e.port
        /\ \A t \in Submissions \ adrift : Alive(t) /\ port[t] = e.port => t = e.sub

\* A container that runs while the engine serves is one it can stop: its id is
\* in the record, or will be when the deployment goes on.  Not so the container
\* of a docker run that outlived an engine.
RunningIsOwned ==
    up => \A s \in Submissions \ adrift : Alive(s) =>
        /\ Known(s)
        /\ deploy[s] \in {"running", "endpoint"} \/ submissions[s].container = s

\* Every submission is deployed or fails, unless it is forgotten.
EverySubmissionDeployed ==
    \A s \in Submissions :
        (StatusOf(s) = "RECEIVED") ~> (StatusOf(s) \in {"RUNNING", "FAILED", "COMPLETED", None})

\* runner.go: CleanupManagedContainers "removes any orphaned sandbox containers
\* from previous runs": Docker holds none that the engine does not know.
NoOrphans == up => \A s \in Submissions : Present(s) => Known(s)

\* routes.go: the cached proxy is one of "persistent TCP connections to the
\* container".
ProxyReachesContainer ==
    \A s \in Submissions :
        StatusOf(s) = "RUNNING" /\ submissions[s].endpoint # NoURL =>
            proxyCache[s] \in {None, submissions[s].endpoint}
=============================================================================

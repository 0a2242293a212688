--------------------------- MODULE SandboxProofs ---------------------------
(***************************************************************************)
(* SandboxEngine, for any number of submissions and requests, whatever     *)
(* Docker does: types, the lifecycle of a submission, what COMPLETED       *)
(* means, and whose container an order or an event leads to.               *)
(***************************************************************************)
EXTENDS SandboxEngine, TLAPS

Rec(st, container, url) == [status |-> st, container |-> container, endpoint |-> url]

\* What the deployment of s has come to, and the status that goes with it, as
\* long as no container is recorded.
Stages ==
    {<<"compiling", "RECEIVED">>, <<"build", "COMPILING">>, <<"run", "COMPILING">>,
     <<"running", "COMPILING">>, <<"endpoint", "RUNNING">>, <<"failed", "COMPILING">>,
     <<"clear", "FAILED">>, <<"done", "FAILED">>}

Fresh(s) ==
    \E st \in Status : submissions[s] = Rec(st, NoURL, NoURL) /\ <<deploy[s], st>> \in Stages

\* The container is in the record, and stays there.
Linked(s) ==
    /\ \E st \in {"RUNNING", "COMPLETED"} : submissions[s] = Rec(st, s, port[s])
    /\ port[s] \in Nat
    /\ deploy[s] \in {"publish", "done"}

RecordOK(s) ==
    /\ Known(s) => Fresh(s) \/ Linked(s)
    /\ ~Known(s) => deploy[s] \in {"none", "done"}
    /\ deploy[s] \in {"none", "compiling", "build", "run"} => containers[s] = "none"
    /\ deploy[s] \in {"none", "compiling", "build"} => port[s] = None
    /\ deploy[s] \in {"run", "running", "endpoint", "publish"} \/ Alive(s) => port[s] \in Nat

\* A container of s has had its port since Docker gave it to it.
Owns(s) == (Known(s) /\ deploy[s] \in {"running", "endpoint"}) \/ Linked(s)

RecordInv == \A s \in Submissions : RecordOK(s) /\ (Known(s) => up)

PortInv ==
    /\ \A s \in Submissions : Known(s) /\ port[s] \in Nat => port[s] < 9000 + portOffset
    /\ \A s, t \in Submissions :
          Known(s) /\ Known(t) /\ port[s] \in Nat /\ port[s] = port[t] => s = t
    /\ \A s \in Submissions, t \in Submissions \ adrift :
          Owns(s) /\ Alive(t) /\ port[s] = port[t] => s = t

\* A submission whose docker run outlived its engine is forgotten: it was never
\* announced, and stays without a record.
AdriftInv == \A s \in adrift :
    /\ deploy[s] = "done" /\ ~Known(s) /\ port[s] \in Nat
    /\ \A e \in ready : e.sub # s

DeleterOK(d) ==
    /\ d.pc # "idle" => d.sub \in Submissions
    /\ d.pc = "complete" => d.route = "submissions"
    /\ \A s \in Submissions : d.pc # "idle" /\ d.route = "submissions" /\ d.sub = s =>
          /\ Linked(s)
          /\ d.pc \in {"evict", "complete"} => containers[s] = "removed"

DeleterInv ==
    /\ \A h \in Deleters : DeleterOK(deleters[h])
    /\ CompletedIsGone

Target(s, url) == url = NoURL \/ (url = port[s] /\ Linked(s))

OrderInv ==
    /\ \A s \in Submissions : proxyCache[s] # None => Target(s, proxyCache[s])
    /\ \A q \in Orders : orders[q].pc # "idle" =>
          \E s \in Submissions : orders[q].sub = s /\ Target(s, orders[q].url)

ReadyInv ==
    \A e \in ready : deploy[e.sub] = "done" /\ (Known(e.sub) => Linked(e.sub) /\ e.port = port[e.sub])

OwnedInv == up => \A s \in Submissions \ adrift : Alive(s) => Owns(s)

(***************************************************************************)
(* Records                                                                 *)
(***************************************************************************)
LEMMA KnownRecord ==
    ASSUME TypeOK, NEW s \in Submissions, Known(s)
    PROVE  /\ submissions[s] \in Submission
           /\ submissions[s] = Rec(submissions[s].status, submissions[s].container,
                                   submissions[s].endpoint)
<1>1. submissions[s] \in Submission
  BY DEF TypeOK, Known
<1> QED
  BY <1>1 DEF Submission, Rec

LEMMA StatusSet ==
    ASSUME TypeOK, NEW s \in Submissions, Known(s), NEW st, UpdateStatus(s, st)
    PROVE  submissions' = [submissions EXCEPT
                             ![s] = Rec(st, submissions[s].container, submissions[s].endpoint)]
<1>1. submissions[s] \in Submission
  BY KnownRecord
<1>2. [submissions[s] EXCEPT !.status = st] =
        Rec(st, submissions[s].container, submissions[s].endpoint)
  BY <1>1 DEF Submission, Rec
<1>3. submissions' = [submissions EXCEPT ![s] = [submissions[s] EXCEPT !.status = st]]
  BY DEF UpdateStatus
<1> QED
  BY <1>2, <1>3

LEMMA EndpointSet ==
    ASSUME NEW s, NEW c, NEW url, UpdateEndpoint(s, c, url)
    PROVE  submissions' = [submissions EXCEPT ![s] = Rec(submissions[s].status, c, url)]
BY DEF UpdateEndpoint, Rec

LEMMA RecIsSubmission ==
    ASSUME NEW st \in Status, NEW c \in Submissions \cup {NoURL}, NEW url \in Nat \cup {NoURL}
    PROVE  /\ Rec(st, c, url) \in Submission /\ Rec(st, c, url) # None
           /\ Rec(st, c, url).status = st
           /\ Rec(st, c, url).container = c
           /\ Rec(st, c, url).endpoint = url
<1>1. Rec(st, c, url) \in Submission
  BY DEF Rec, Submission
<1> QED
  BY <1>1, NamesAssumption DEF Rec

LEMMA FreshRec ==
    ASSUME NEW st \in Status
    PROVE  /\ Rec(st, NoURL, NoURL) # None
           /\ Rec(st, NoURL, NoURL).status = st
           /\ Rec(st, NoURL, NoURL).container = NoURL
           /\ Rec(st, NoURL, NoURL).endpoint = NoURL
<1>1. Rec(st, NoURL, NoURL) \in Submission
  BY DEF Rec, Submission
<1> QED
  BY <1>1, NamesAssumption DEF Rec

LEMMA LinkedKnown ==
    ASSUME NEW s \in Submissions, Linked(s)
    PROVE  /\ Known(s)
           /\ submissions[s].container = s /\ submissions[s].endpoint = port[s]
           /\ submissions[s].status \in {"RUNNING", "COMPLETED"}
<1>1. PICK st \in {"RUNNING", "COMPLETED"} : submissions[s] = Rec(st, s, port[s])
  BY DEF Linked
<1>2. st \in Status /\ port[s] \in Nat
  BY DEF Status, Linked
<1> QED
  BY <1>1, <1>2, RecIsSubmission DEF Known

(***************************************************************************)
(* Types                                                                   *)
(***************************************************************************)
\* What is in the record of a submission whose status is set.
LEMMA StatusType ==
    ASSUME TypeOK, NEW s \in Submissions, Known(s), NEW st \in Status, UpdateStatus(s, st)
    PROVE  submissions' \in [Submissions -> Submission \cup {None}]
<1>1. Rec(st, submissions[s].container, submissions[s].endpoint) \in Submission
  BY KnownRecord, RecIsSubmission DEF Submission
<1> QED
  BY <1>1, StatusSet DEF TypeOK

LEMMA EndpointType ==
    ASSUME TypeOK, NEW s \in Submissions, Known(s),
           NEW c \in Submissions \cup {NoURL}, NEW url \in Nat \cup {NoURL},
           UpdateEndpoint(s, c, url)
    PROVE  submissions' \in [Submissions -> Submission \cup {None}]
<1>1. Rec(submissions[s].status, c, url) \in Submission
  BY KnownRecord, RecIsSubmission DEF Submission
<1> QED
  BY <1>1, EndpointSet DEF TypeOK

LEMMA TypesInit == Init => TypeOK
BY NamesAssumption DEF Init, TypeOK, Deploy, Container, Deleter, Order, NoDeleter, NoOrder

\* A deployment at one of these steps is of a submission in the store, and its
\* port is taken.
LEMMA DeployFacts ==
    ASSUME RecordInv, NEW s \in Submissions, deploy[s] \notin {"none", "done"}
    PROVE  /\ Known(s) /\ up
           /\ deploy[s] \in {"run", "running", "endpoint", "publish"} => port[s] \in Nat
BY DEF RecordInv, RecordOK

LEMMA TypesDeploying ==
    ASSUME TypeOK, RecordInv, NEW s \in Submissions, Deploying(s)
    PROVE  TypeOK'
<1> USE DEF TypeOK, Goto, Deploy, Container
<1>1. CASE SetCompiling(s)
  BY <1>1, DeployFacts, StatusType DEF SetCompiling, Status
<1>2. CASE Build(s)
  BY <1>2 DEF Build
<1>3. CASE BuildFails(s)
  BY <1>3 DEF BuildFails
<1>4. CASE RunContainer(s)
  BY <1>4 DEF RunContainer
<1>5. CASE RunFails(s)
  BY <1>5 DEF RunFails
<1>6. CASE SetRunning(s)
  BY <1>6, DeployFacts, StatusType DEF SetRunning, Status
<1>7. CASE SetEndpoint(s)
  BY <1>7, DeployFacts, EndpointType DEF SetEndpoint
<1>8. CASE Publish(s)
  <2>1. port[s] \in Nat
    BY <1>8, DeployFacts DEF Publish
  <2>2. [sub |-> s, port |-> port[s]] \in Event
    BY <2>1 DEF Event
  <2> QED
    BY <1>8, <2>2 DEF Publish
<1>9. CASE SetFailed(s)
  BY <1>9, DeployFacts, StatusType DEF SetFailed, Status
<1>10. CASE ClearEndpoint(s)
  BY <1>10, DeployFacts, EndpointType DEF ClearEndpoint
<1> QED
  BY <1>1, <1>2, <1>3, <1>4, <1>5, <1>6, <1>7, <1>8, <1>9, <1>10 DEF Deploying

\* The updates of a request.
LEMMA DeleterType ==
    ASSUME TypeOK, NEW h \in Deleters,
           \/ \E pc \in {"idle", "evict", "stop", "rm", "complete"} : DeleterGoto(h, pc)
           \/ Done(h)
           \/ \E pc \in {"idle", "evict", "stop", "rm", "complete"}, s \in Submissions,
                 route \in {"submissions", "sandbox"} :
                 deleters' = [deleters EXCEPT ![h] = [pc |-> pc, sub |-> s, route |-> route]]
    PROVE  deleters' \in [Deleters -> Deleter]
<1>1. deleters[h] \in Deleter
  BY DEF TypeOK
<1>2. \A pc : [deleters[h] EXCEPT !.pc = pc] =
                [pc |-> pc, sub |-> deleters[h].sub, route |-> deleters[h].route]
  BY <1>1 DEF Deleter
<1>3. CASE \E pc \in {"idle", "evict", "stop", "rm", "complete"} : DeleterGoto(h, pc)
  <2>1. PICK pc \in {"idle", "evict", "stop", "rm", "complete"} : DeleterGoto(h, pc)
    BY <1>3
  <2>2. [deleters[h] EXCEPT !.pc = pc] \in Deleter
    BY <1>1, <1>2 DEF Deleter
  <2>3. deleters' = [deleters EXCEPT ![h] = [deleters[h] EXCEPT !.pc = pc]]
    BY <2>1 DEF DeleterGoto
  <2> QED
    BY <2>2, <2>3 DEF TypeOK
<1>4. CASE Done(h)
  BY <1>4 DEF Done, NoDeleter, Deleter, TypeOK
<1>5. CASE \E pc \in {"idle", "evict", "stop", "rm", "complete"}, s \in Submissions,
              route \in {"submissions", "sandbox"} :
              deleters' = [deleters EXCEPT ![h] = [pc |-> pc, sub |-> s, route |-> route]]
  BY <1>5 DEF Deleter, TypeOK
<1> QED
  BY <1>3, <1>4, <1>5

LEMMA TypesDeleting ==
    ASSUME TypeOK, DeleterInv, NEW h \in Deleters, Deleting(h)
    PROVE  TypeOK'
<1>1. deleters[h] \in Deleter /\ DeleterOK(deleters[h])
  BY DEF TypeOK, DeleterInv
<1> USE DEF Container
<1>2. ASSUME NEW s \in Submissions, StopSubmission(h, s) PROVE TypeOK'
  <2>1. deleters' \in [Deleters -> Deleter]
    BY <1>2, DeleterType DEF StopSubmission
  <2> QED
    BY <1>2, <2>1 DEF StopSubmission, TypeOK
<1>3. ASSUME NEW s \in Submissions, DeleteContainer(h, s) PROVE TypeOK'
  <2>1. deleters' \in [Deleters -> Deleter]
    BY <1>3, DeleterType DEF DeleteContainer
  <2> QED
    BY <1>3, <2>1 DEF DeleteContainer, TypeOK
<1>4. CASE EvictProxy(h)
  <2>1. deleters' \in [Deleters -> Deleter]
    BY <1>4, DeleterType DEF EvictProxy
  <2>2. proxyCache' \in [Submissions -> Nat \cup {NoURL, None}]
    BY <1>4 DEF EvictProxy, Evict, TypeOK
  <2> QED
    BY <1>4, <2>1, <2>2 DEF EvictProxy, TypeOK
<1>5. CASE DockerStop(h)
  <2>1. deleters' \in [Deleters -> Deleter]
    BY <1>5, DeleterType DEF DockerStop
  <2>2. containers' \in [Submissions -> Container]
    BY <1>5 DEF DockerStop, TypeOK
  <2> QED
    BY <1>5, <2>1, <2>2 DEF DockerStop, TypeOK
<1>6. CASE DockerRm(h)
  <2>1. deleters' \in [Deleters -> Deleter]
    BY <1>6, DeleterType DEF DockerRm
  <2>2. containers' \in [Submissions -> Container]
    BY <1>6 DEF DockerRm, TypeOK
  <2> QED
    BY <1>6, <2>1, <2>2 DEF DockerRm, TypeOK
<1>7. CASE DockerFails(h)
  <2>1. deleters' \in [Deleters -> Deleter]
    BY <1>7, DeleterType DEF DockerFails
  <2> QED
    BY <1>7, <2>1 DEF DockerFails, TypeOK
<1>8. CASE SetCompleted(h)
  <2>1. deleters' \in [Deleters -> Deleter]
    BY <1>8, DeleterType DEF SetCompleted
  <2>2. deleters[h].sub \in Submissions /\ Linked(deleters[h].sub)
    BY <1>1, <1>8 DEF SetCompleted, DeleterOK
  <2>3. submissions' \in [Submissions -> Submission \cup {None}]
    BY <1>8, <2>2, LinkedKnown, StatusType DEF SetCompleted, Status
  <2> QED
    BY <1>8, <2>1, <2>3 DEF SetCompleted, TypeOK
<1> QED
  BY <1>2, <1>3, <1>4, <1>5, <1>6, <1>7, <1>8 DEF Deleting

LEMMA TypesOrdering ==
    ASSUME TypeOK, OrderInv, NEW q \in Orders, Ordering(q)
    PROVE  TypeOK'
<1>1. orders[q] \in Order
  BY DEF TypeOK
<1>2. ASSUME NEW s \in Submissions, ReadEndpoint(q, s) PROVE TypeOK'
  <2>1. submissions[s].endpoint \in Nat \cup {NoURL}
    BY <1>2, KnownRecord DEF ReadEndpoint, Submission
  <2>2. [pc |-> "proxy", sub |-> s, url |-> submissions[s].endpoint] \in Order
    BY <2>1 DEF Order
  <2> QED
    BY <1>2, <2>2 DEF ReadEndpoint, TypeOK
<1>3. CASE GetOrCreateProxy(q)
  <2> DEFINE s == orders[q].sub
             target == IF proxyCache[s] = None THEN orders[q].url ELSE proxyCache[s]
  <2>1. s \in Submissions
    BY <1>3 DEF GetOrCreateProxy, OrderInv
  <2>2. target \in Nat \cup {NoURL}
    BY <1>1, <2>1 DEF TypeOK, Order
  <2>3. [pc |-> "serve", sub |-> s, url |-> target] \in Order
    BY <2>1, <2>2 DEF Order
  <2>4. proxyCache' = [proxyCache EXCEPT ![s] = target]
    BY <1>3 DEF GetOrCreateProxy
  <2>5. orders' = [orders EXCEPT ![q] = [pc |-> "serve", sub |-> s, url |-> target]]
    BY <1>3 DEF GetOrCreateProxy
  <2> HIDE DEF s, target
  <2> QED
    BY <1>3, <2>1, <2>2, <2>3, <2>4, <2>5 DEF GetOrCreateProxy, TypeOK
<1>4. CASE Serve(q)
  BY <1>4, NamesAssumption DEF Serve, TypeOK, NoOrder, Order
<1> QED
  BY <1>2, <1>3, <1>4 DEF Ordering

LEMMA TypesStep ==
    ASSUME TypeOK, RecordInv, DeleterInv, OrderInv, [Next]_vars
    PROVE  TypeOK'
<1>1. ASSUME NEW s \in Submissions, Submit(s) PROVE TypeOK'
  <2>1. [status |-> "RECEIVED", container |-> NoURL, endpoint |-> NoURL] \in Submission
    BY DEF Submission, Status
  <2> QED
    BY <1>1, <2>1 DEF Submit, TypeOK, Deploy
<1>2. ASSUME NEW s \in Submissions, ContainerExits(s) PROVE TypeOK'
  BY <1>2 DEF ContainerExits, TypeOK, Container
<1>3. CASE Crash
  <2>1. deleters' \in [Deleters -> Deleter] /\ orders' \in [Orders -> Order]
    BY <1>3, NamesAssumption DEF Crash, NoDeleter, NoOrder, Deleter, Order
  <2>2. deploy' \in [Submissions -> Deploy]
    BY <1>3 DEF Crash, Deploy, TypeOK
  <2>3. adrift' \subseteq Submissions
    BY <1>3 DEF Crash, TypeOK
  <2> QED
    BY <1>3, <2>1, <2>2, <2>3 DEF Crash, TypeOK
<1>6. ASSUME NEW s \in Submissions, RunLate(s) PROVE TypeOK'
  BY <1>6 DEF RunLate, TypeOK, Container
<1>4. CASE Start
  <2>1. containers' \in [Submissions -> Container]
    BY <1>4 DEF Start, TypeOK, Container
  <2> QED
    BY <1>4, <2>1 DEF Start, TypeOK
<1>5. CASE UNCHANGED vars
  BY <1>5 DEF vars, TypeOK
<1> QED
  BY <1>1, <1>2, <1>3, <1>4, <1>5, <1>6, TypesDeploying, TypesDeleting, TypesOrdering DEF Next

(***************************************************************************)
(* The record of a submission                                              *)
(***************************************************************************)
\* What is said of s depends on the entries of s only.
LEMMA SameEntries ==
    ASSUME NEW s, submissions'[s] = submissions[s], deploy'[s] = deploy[s], port'[s] = port[s]
    PROVE  /\ Known(s)' <=> Known(s)
           /\ Fresh(s)' <=> Fresh(s)
           /\ Linked(s)' <=> Linked(s)
           /\ Owns(s)' <=> Owns(s)
BY DEF Known, Fresh, Linked, Owns

LEMMA SameRecordOK ==
    ASSUME NEW s, RecordOK(s),
           submissions'[s] = submissions[s], deploy'[s] = deploy[s], port'[s] = port[s],
           containers'[s] = containers[s] \/ (containers'[s] # "running" /\ containers[s] # "none")
    PROVE  RecordOK(s)'
BY SameEntries DEF RecordOK, Alive

\* The record before the deployment of s has come to a container.
LEMMA FreshAt ==
    ASSUME RecordInv, NEW s \in Submissions, deploy[s] \notin {"none", "publish", "done"}
    PROVE  /\ Known(s) /\ ~Linked(s)
           /\ \E st \in Status :
                submissions[s] = Rec(st, NoURL, NoURL) /\ <<deploy[s], st>> \in Stages
<1>1. Known(s)
  BY DeployFacts
<1>2. ~Linked(s)
  BY DEF Linked
<1>3. Fresh(s)
  BY <1>1, <1>2 DEF RecordInv, RecordOK
<1> QED
  BY <1>1, <1>2, <1>3 DEF Fresh

\* One step of the deployment of s changes the entries of s only ...
LEMMA DeployOthers ==
    ASSUME TypeOK, RecordInv, NEW s \in Submissions, Deploying(s)
    PROVE  /\ UNCHANGED <<up, proxyCache, deleters, orders>>
           /\ \A t \in Submissions \ {s} :
                /\ submissions'[t] = submissions[t] /\ deploy'[t] = deploy[t]
                /\ port'[t] = port[t] /\ containers'[t] = containers[t]
<1> USE DEF Goto, UpdateStatus, UpdateEndpoint, TypeOK
<1>1. CASE SetCompiling(s) \/ SetRunning(s) \/ SetFailed(s)
  BY <1>1 DEF SetCompiling, SetRunning, SetFailed
<1>2. CASE SetEndpoint(s) \/ ClearEndpoint(s)
  BY <1>2 DEF SetEndpoint, ClearEndpoint
<1>3. CASE Build(s) \/ BuildFails(s) \/ Publish(s)
  BY <1>3 DEF Build, BuildFails, Publish
<1>4. CASE RunContainer(s) \/ RunFails(s)
  BY <1>4 DEF RunContainer, RunFails
<1> QED
  BY <1>1, <1>2, <1>3, <1>4 DEF Deploying

\* A deployment that goes on is neither to start nor over.
LEMMA DeployGoesOn ==
    ASSUME TypeOK, NEW s \in Submissions, Deploying(s)
    PROVE  deploy[s] \notin {"none", "done"}
BY DEF Deploying, Goto, SetCompiling, Build, BuildFails, RunContainer, RunFails, SetRunning,
       SetEndpoint, Publish, SetFailed, ClearEndpoint

\* ... and takes s from one stage to the next.
LEMMA StageEntered ==
    ASSUME NEW s \in Submissions, NEW st \in Status,
           submissions'[s] = Rec(st, NoURL, NoURL), <<deploy'[s], st>> \in Stages,
           deploy'[s] = "build" => containers'[s] = "none" /\ port'[s] = None,
           deploy'[s] = "run" => containers'[s] = "none",
           deploy'[s] # "compiling",
           deploy'[s] \in {"run", "running", "endpoint"} \/ containers'[s] = "running"
               => port'[s] \in Nat
    PROVE  RecordOK(s)'
<1>1. Fresh(s)'
  BY DEF Fresh
<1>2. Known(s)'
  BY FreshRec DEF Known
<1>3. deploy'[s] \notin {"none", "publish"}
  BY DEF Stages
<1> QED
  BY <1>1, <1>2, <1>3 DEF RecordOK, Alive

LEMMA DeployRecord ==
    ASSUME TypeOK, RecordInv, NEW s \in Submissions, Deploying(s)
    PROVE  RecordOK(s)' /\ Known(s)
<1>1. Known(s) /\ RecordOK(s)
  BY DeployGoesOn, DeployFacts DEF RecordInv
<1>2. /\ submissions \in [Submissions -> Submission \cup {None}]
      /\ deploy \in [Submissions -> Deploy]
      /\ port \in [Submissions -> Nat \cup {None}]
      /\ containers \in [Submissions -> Container]
      /\ portOffset \in Nat
  BY DEF TypeOK
<1>3. CASE Publish(s)
  <2>1. deploy[s] = "publish" /\ deploy'[s] = "done"
    BY <1>2, <1>3 DEF Publish, Goto
  <2>2. Linked(s)
    BY <1>1, <2>1 DEF RecordOK, Fresh, Stages
  <2>3. Linked(s)' /\ Known(s)'
    BY <1>1, <1>3, <2>1, <2>2 DEF Publish, Linked, Known
  <2> QED
    BY <1>1, <1>3, <2>1, <2>3 DEF Publish, RecordOK, Alive
<1>4. ASSUME deploy[s] # "publish" PROVE RecordOK(s)'
  <2>1. PICK st \in Status : submissions[s] = Rec(st, NoURL, NoURL) /\ <<deploy[s], st>> \in Stages
    BY <1>4, DeployGoesOn, FreshAt
  <2>2. submissions[s].status = st
    BY <2>1, FreshRec
  <2>3. submissions[s].container = NoURL /\ submissions[s].endpoint = NoURL
    BY <2>1, FreshRec
  <2>4. ASSUME NEW x \in Status, UpdateStatus(s, x)
        PROVE  submissions'[s] = Rec(x, NoURL, NoURL)
    BY <1>1, <1>2, <2>3, <2>4, StatusSet
  <2>5. ASSUME NEW c, NEW url, UpdateEndpoint(s, c, url)
        PROVE  submissions'[s] = Rec(st, c, url)
    BY <1>2, <2>2, <2>5, EndpointSet
  <2>6. CASE SetCompiling(s)
    <3>1. deploy[s] = "compiling" /\ deploy'[s] = "build"
      BY <1>2, <2>6 DEF SetCompiling, Goto
    <3>2. /\ submissions'[s] = Rec("COMPILING", NoURL, NoURL)
          /\ containers'[s] = "none" /\ port'[s] = None
      BY <1>1, <2>4, <2>6, <3>1 DEF SetCompiling, Status, RecordOK
    <3> QED
      BY <3>1, <3>2, StageEntered DEF Status, Stages
  <2>7. CASE Build(s)
    <3>1. deploy[s] = "build" /\ deploy'[s] = "run" /\ port'[s] \in Nat
      BY <1>2, <2>7 DEF Build, Goto
    <3>2. submissions'[s] = Rec(st, NoURL, NoURL) /\ containers'[s] = "none" /\ st = "COMPILING"
      BY <1>1, <2>1, <2>7, <3>1 DEF Build, RecordOK, Stages
    <3> QED
      BY <3>1, <3>2, StageEntered DEF Stages
  <2>8. CASE BuildFails(s) \/ RunFails(s)
    <3>1. deploy[s] \in {"build", "run"} /\ deploy'[s] = "failed"
      BY <1>2, <2>8 DEF BuildFails, RunFails, Goto
    <3>2. submissions'[s] = Rec(st, NoURL, NoURL) /\ st = "COMPILING"
      BY <2>1, <2>8, <3>1 DEF BuildFails, RunFails, Stages
    <3>3. containers'[s] # "running"
      BY <1>1, <1>2, <2>8, <3>1 DEF BuildFails, RunFails, RecordOK
    <3> QED
      BY <3>1, <3>2, <3>3, StageEntered DEF Stages
  <2>9. CASE RunContainer(s)
    <3>1. deploy[s] = "run" /\ deploy'[s] = "running" /\ port'[s] \in Nat
      BY <1>1, <1>2, <2>9 DEF RunContainer, Goto, RecordOK
    <3>2. submissions'[s] = Rec(st, NoURL, NoURL) /\ st = "COMPILING"
      BY <2>1, <2>9, <3>1 DEF RunContainer, Stages
    <3> QED
      BY <3>1, <3>2, StageEntered DEF Stages
  <2>10. CASE SetRunning(s)
    <3>1. deploy[s] = "running" /\ deploy'[s] = "endpoint" /\ port'[s] \in Nat
      BY <1>1, <1>2, <2>10 DEF SetRunning, Goto, RecordOK
    <3>2. submissions'[s] = Rec("RUNNING", NoURL, NoURL)
      BY <2>4, <2>10 DEF SetRunning, Status
    <3> QED
      BY <3>1, <3>2, StageEntered DEF Stages, Status
  <2>11. CASE SetEndpoint(s)
    <3>1. /\ deploy[s] = "endpoint" /\ deploy'[s] = "publish"
          /\ port'[s] = port[s] /\ port[s] \in Nat
      BY <1>1, <1>2, <2>11 DEF SetEndpoint, Goto, RecordOK
    <3>2. st = "RUNNING"
      BY <2>1, <3>1 DEF Stages
    <3>3. submissions'[s] = Rec("RUNNING", s, port'[s])
      BY <2>5, <2>11, <3>1, <3>2 DEF SetEndpoint
    <3>4. Linked(s)' /\ Known(s)'
      BY <3>1, <3>3, RecIsSubmission DEF Linked, Known, Status
    <3> QED
      BY <3>1, <3>4 DEF RecordOK
  <2>12. CASE SetFailed(s)
    <3>1. deploy[s] = "failed" /\ deploy'[s] = "clear"
      BY <1>2, <2>12 DEF SetFailed, Goto
    <3>2. submissions'[s] = Rec("FAILED", NoURL, NoURL)
      BY <2>4, <2>12 DEF SetFailed, Status
    <3>3. containers'[s] = "running" => port'[s] \in Nat
      BY <1>1, <2>12 DEF SetFailed, RecordOK, Alive
    <3> QED
      BY <3>1, <3>2, <3>3, StageEntered DEF Stages, Status
  <2>13. CASE ClearEndpoint(s)
    <3>1. deploy[s] = "clear" /\ deploy'[s] = "done"
      BY <1>2, <2>13 DEF ClearEndpoint, Goto
    <3>2. submissions'[s] = Rec("FAILED", NoURL, NoURL)
      BY <2>1, <2>5, <2>13, <3>1 DEF ClearEndpoint, Stages
    <3>3. containers'[s] = "running" => port'[s] \in Nat
      BY <1>1, <2>13 DEF ClearEndpoint, RecordOK, Alive
    <3> QED
      BY <3>1, <3>2, <3>3, StageEntered DEF Stages, Status
  <2> QED
    BY <1>4, <2>6, <2>7, <2>8, <2>9, <2>10, <2>11, <2>12, <2>13 DEF Deploying, Publish, Goto
<1>5. deploy[s] = "publish" => Publish(s)
  BY DEF Deploying, Goto, SetCompiling, Build, BuildFails, RunContainer, RunFails, SetRunning,
         SetEndpoint, SetFailed, ClearEndpoint
<1> QED
  BY <1>1, <1>3, <1>4, <1>5

\* No step of a request or of Docker spoils a record either.
LEMMA RecordStep ==
    ASSUME TypeOK, RecordInv, AdriftInv, DeleterInv, OrderInv, [Next]_vars
    PROVE  RecordInv'
<1>1. ASSUME NEW s \in Submissions, Deploying(s) PROVE RecordInv'
  <2>1. ASSUME NEW t \in Submissions, t # s PROVE RecordOK(t)' /\ (Known(t)' => up')
    BY <1>1, <2>1, DeployOthers, SameRecordOK, SameEntries DEF RecordInv
  <2>2. RecordOK(s)' /\ up'
    BY <1>1, DeployRecord, DeployOthers DEF RecordInv
  <2> QED
    BY <2>1, <2>2 DEF RecordInv
<1>2. ASSUME NEW s \in Submissions, Submit(s) PROVE RecordInv'
  <2>1. ASSUME NEW t \in Submissions, t # s PROVE RecordOK(t)' /\ (Known(t)' => up')
    <3>1. /\ submissions'[t] = submissions[t] /\ deploy'[t] = deploy[t]
          /\ port'[t] = port[t] /\ containers'[t] = containers[t]
      BY <1>2, <2>1 DEF Submit, TypeOK
    <3> QED
      BY <1>2, <3>1, SameRecordOK, SameEntries DEF RecordInv, Submit
  <2>2. submissions'[s] = Rec("RECEIVED", NoURL, NoURL) /\ deploy'[s] = "compiling"
    BY <1>2 DEF Submit, TypeOK, Rec
  <2>3. containers'[s] = "none" /\ port'[s] = None
    BY <1>2 DEF Submit, RecordInv, RecordOK
  <2>4. Fresh(s)' /\ Known(s)'
    BY <2>2, FreshRec DEF Fresh, Stages, Status, Known
  <2>5. RecordOK(s)' /\ up'
    BY <1>2, <2>2, <2>3, <2>4 DEF RecordOK, Submit, Alive
  <2> QED
    BY <2>1, <2>5 DEF RecordInv
<1>3. ASSUME UNCHANGED <<up, submissions, deploy, port>>,
             \A t \in Submissions :
                containers'[t] = containers[t]
                    \/ (containers'[t] # "running" /\ containers[t] # "none")
      PROVE  RecordInv'
  BY <1>3, SameRecordOK, SameEntries DEF RecordInv
<1>4. ASSUME NEW s \in Submissions, ContainerExits(s) PROVE RecordInv'
  <2>1. \A t \in Submissions :
           containers'[t] = containers[t]
               \/ (containers'[t] # "running" /\ containers[t] # "none")
    BY <1>4 DEF ContainerExits, Alive, TypeOK
  <2> QED
    BY <1>3, <1>4, <2>1 DEF ContainerExits
<1>5. ASSUME NEW h \in Deleters, Deleting(h) PROVE RecordInv'
  <2>1. CASE DockerStop(h) \/ DockerRm(h)
    <3>1. \A t \in Submissions :
             containers'[t] = containers[t]
                 \/ (containers'[t] # "running" /\ containers[t] # "none")
      BY <2>1 DEF DockerStop, DockerRm, Present, TypeOK
    <3> QED
      BY <1>3, <2>1, <3>1 DEF DockerStop, DockerRm
  <2>2. CASE EvictProxy(h) \/ DockerFails(h)
    BY <1>3, <2>2 DEF EvictProxy, DockerFails
  <2>3. ASSUME NEW s \in Submissions, StopSubmission(h, s) \/ DeleteContainer(h, s)
        PROVE  RecordInv'
    BY <1>3, <2>3 DEF StopSubmission, DeleteContainer
  <2>4. CASE SetCompleted(h)
    <3>1. PICK s \in Submissions : s = deleters[h].sub /\ Linked(s)
      BY <2>4 DEF SetCompleted, DeleterInv, DeleterOK
    <3>2. submissions' = [submissions EXCEPT ![s] = Rec("COMPLETED", s, port[s])]
      BY <2>4, <3>1, LinkedKnown, StatusSet DEF SetCompleted
    <3>3. ASSUME NEW t \in Submissions, t # s PROVE RecordOK(t)' /\ (Known(t)' => up')
      <4>1. submissions'[t] = submissions[t]
        BY <3>2, <3>3 DEF TypeOK
      <4> QED
        BY <2>4, <4>1, SameRecordOK, SameEntries DEF SetCompleted, RecordInv
    <3>4. Linked(s)'
      BY <2>4, <3>1, <3>2 DEF Linked, SetCompleted, TypeOK
    <3>5. RecordOK(s)
      BY <3>1 DEF RecordInv
    <3>6. Known(s) /\ up /\ Known(s)'
      BY <3>1, <3>2, LinkedKnown, RecIsSubmission DEF RecordInv, Known, Linked, Status, TypeOK
    <3>7. RecordOK(s)' /\ up'
      BY <2>4, <3>4, <3>5, <3>6 DEF RecordOK, SetCompleted, Alive, Linked
    <3> QED
      BY <3>3, <3>7 DEF RecordInv
  <2> QED
    BY <1>5, <2>1, <2>2, <2>3, <2>4 DEF Deleting
<1>6. ASSUME NEW q \in Orders, Ordering(q) PROVE RecordInv'
  BY <1>3, <1>6 DEF Ordering, ReadEndpoint, GetOrCreateProxy, Serve
<1>7. CASE Crash
  <2>1. ASSUME NEW t \in Submissions PROVE RecordOK(t)' /\ ~Known(t)'
    <3>1. submissions'[t] = None /\ port'[t] = port[t]
      BY <1>7 DEF Crash
    <3>2. deploy'[t] = IF deploy[t] = "none" THEN "none" ELSE "done"
      BY <1>7 DEF Crash
    <3>3. containers'[t] = containers[t]
      BY <1>7 DEF Crash
    <3>4. RecordOK(t)
      BY DEF RecordInv
    <3> QED
      BY <3>1, <3>2, <3>3, <3>4 DEF RecordOK, Known, Alive
  <2> QED
    BY <2>1 DEF RecordInv
<1>8. CASE Start
  <2>1. ASSUME NEW t \in Submissions PROVE ~Known(t) /\ RecordOK(t)
    BY <1>8 DEF Start, RecordInv
  <2>2. ASSUME NEW t \in Submissions
        PROVE  RecordOK(t)' /\ ~Known(t)'
    <3>1. Alive(t) \/ containers'[t] = containers[t]
      BY <1>8 DEF Start
    <3> QED
      BY <1>8, <2>1, <3>1 DEF Start, RecordOK, Known, Alive
  <2> QED
    BY <2>2 DEF RecordInv
<1>9. CASE UNCHANGED vars
  BY <1>3, <1>9 DEF vars
<1>10. ASSUME NEW s \in Submissions, RunLate(s) PROVE RecordInv'
  <2>1. ASSUME NEW t \in Submissions, t # s PROVE RecordOK(t)'
    <3>1. containers'[t] = containers[t]
      BY <1>10, <2>1 DEF RunLate, TypeOK
    <3> QED
      BY <1>10, <3>1, SameRecordOK DEF RunLate, RecordInv
  <2>2. deploy[s] = "done" /\ ~Known(s) /\ port[s] \in Nat
    BY <1>10 DEF RunLate, AdriftInv
  <2>3. RecordOK(s)'
    BY <1>10, <2>2 DEF RunLate, RecordOK, Known
  <2>4. \A t \in Submissions : Known(t)' => up'
    BY <1>10 DEF RunLate, Known, RecordInv
  <2> QED
    BY <2>1, <2>3, <2>4 DEF RecordInv
<1> QED
  BY <1>1, <1>2, <1>4, <1>5, <1>6, <1>7, <1>8, <1>9, <1>10 DEF Next

(***************************************************************************)
(* What stays, and what a status becomes                                   *)
(***************************************************************************)
\* A container that is in a record stays there as long as the engine lives.
LEMMA LinkedStays ==
    ASSUME TypeOK, RecordInv, DeleterInv, [Next]_vars, ~Crash,
           NEW s \in Submissions, Linked(s)
    PROVE  Linked(s)' /\ port'[s] = port[s]
<1>1. ASSUME UNCHANGED <<submissions, deploy, port>>
      PROVE  Linked(s)' /\ port'[s] = port[s]
  BY <1>1, SameEntries
<1>2. ASSUME NEW t \in Submissions, Deploying(t)
      PROVE  Linked(s)' /\ port'[s] = port[s]
  <2>1. CASE t # s
    BY <1>2, <2>1, DeployOthers, SameEntries
  <2>2. CASE t = s
    <3>1. deploy[s] = "publish"
      BY <1>2, <2>2, DeployGoesOn DEF Linked
    <3>2. Publish(s)
      BY <1>2, <2>2, <3>1 DEF Deploying, Goto, SetCompiling, Build, BuildFails, RunContainer,
             RunFails, SetRunning, SetEndpoint, SetFailed, ClearEndpoint
    <3> QED
      BY <3>2 DEF Publish, Goto, Linked, TypeOK
  <2> QED
    BY <2>1, <2>2
<1>3. ASSUME NEW t \in Submissions, Submit(t)
      PROVE  Linked(s)' /\ port'[s] = port[s]
  <2>1. t # s
    BY <1>3 DEF Submit, Linked
  <2> QED
    BY <1>3, <2>1, SameEntries DEF Submit, TypeOK
<1>4. ASSUME NEW h \in Deleters, SetCompleted(h)
      PROVE  Linked(s)' /\ port'[s] = port[s]
  <2>1. PICK t \in Submissions : t = deleters[h].sub /\ Linked(t)
    BY <1>4 DEF SetCompleted, DeleterInv, DeleterOK
  <2>2. submissions' = [submissions EXCEPT ![t] = Rec("COMPLETED", t, port[t])]
    BY <1>4, <2>1, LinkedKnown, StatusSet DEF SetCompleted
  <2>3. CASE t = s
    BY <1>4, <2>1, <2>2, <2>3 DEF Linked, SetCompleted, TypeOK
  <2>4. CASE t # s
    <3>1. submissions'[s] = submissions[s]
      BY <2>2, <2>4 DEF TypeOK
    <3> QED
      BY <1>4, <3>1, SameEntries DEF SetCompleted
  <2> QED
    BY <2>3, <2>4
<1>5. ASSUME NEW h \in Deleters, Deleting(h), ~SetCompleted(h)
      PROVE  Linked(s)' /\ port'[s] = port[s]
  BY <1>1, <1>5 DEF Deleting, StopSubmission, DeleteContainer, EvictProxy, DockerStop, DockerRm,
     DockerFails
<1>6. ASSUME NEW q \in Orders, Ordering(q)
      PROVE  Linked(s)' /\ port'[s] = port[s]
  BY <1>1, <1>6 DEF Ordering, ReadEndpoint, GetOrCreateProxy, Serve
<1>7. ASSUME NEW t \in Submissions, ContainerExits(t) \/ RunLate(t)
      PROVE  Linked(s)' /\ port'[s] = port[s]
  BY <1>1, <1>7 DEF ContainerExits, RunLate
<1>8. CASE Start \/ UNCHANGED vars
  BY <1>1, <1>8 DEF Start, vars
<1> QED
  BY <1>2, <1>3, <1>4, <1>5, <1>6, <1>7, <1>8 DEF Next

\* A container that is gone does not come back.
LEMMA GoneStays ==
    ASSUME TypeOK, RecordInv, [Next]_vars, NEW s \in Submissions, containers[s] = "removed"
    PROVE  containers'[s] = "removed"
<1>1. RecordOK(s)
  BY DEF RecordInv
<1>2. deploy[s] # "run"
  BY <1>1 DEF RecordOK
<1>3. ASSUME NEW t \in Submissions, Deploying(t) PROVE containers'[s] = "removed"
  <2>1. CASE t # s
    BY <1>3, <2>1, DeployOthers
  <2>2. CASE t = s
    BY <1>2, <1>3, <2>2 DEF Deploying, Goto, SetCompiling, Build, BuildFails, RunContainer,
       RunFails, SetRunning, SetEndpoint, Publish, SetFailed, ClearEndpoint
  <2> QED
    BY <2>1, <2>2
<1>4. ASSUME NEW t \in Submissions, Submit(t) \/ ContainerExits(t) \/ RunLate(t)
      PROVE  containers'[s] = "removed"
  BY <1>4 DEF Submit, ContainerExits, RunLate, Alive, TypeOK
<1>5. ASSUME NEW h \in Deleters, Deleting(h) PROVE containers'[s] = "removed"
  BY <1>5 DEF Deleting, StopSubmission, DeleteContainer, EvictProxy, DockerStop, DockerRm,
     DockerFails, SetCompleted, Present, TypeOK
<1>6. ASSUME NEW q \in Orders, Ordering(q) PROVE containers'[s] = "removed"
  BY <1>6 DEF Ordering, ReadEndpoint, GetOrCreateProxy, Serve
<1>7. CASE Crash
  BY <1>2, <1>7 DEF Crash
<1>8. CASE Start
  BY <1>8 DEF Start, Alive
<1>9. CASE UNCHANGED vars
  BY <1>9 DEF vars
<1> QED
  BY <1>3, <1>4, <1>5, <1>6, <1>7, <1>8, <1>9 DEF Next

\* The status of s, and of no other submission, goes from one to the other.
MovesTo(s, from, to) ==
    /\ StatusOf(s) = from /\ StatusOf(s)' = to
    /\ \A t \in Submissions \ {s} : StatusOf(t)' = StatusOf(t)

LEMMA StatusesDeploying ==
    ASSUME TypeOK, RecordInv, NEW s \in Submissions, Deploying(s)
    PROVE  \/ \A t \in Submissions : StatusOf(t)' = StatusOf(t)
           \/ MovesTo(s, "RECEIVED", "COMPILING")
           \/ MovesTo(s, "COMPILING", "RUNNING")
           \/ MovesTo(s, "COMPILING", "FAILED")
<1>1. Known(s)
  BY DeployRecord
<1>2. \A t \in Submissions \ {s} : StatusOf(t)' = StatusOf(t)
  BY DeployOthers DEF StatusOf, Known
<1>3. ASSUME NEW st \in Status, UpdateStatus(s, st), deploy[s] \notin {"none", "publish", "done"}
      PROVE  /\ <<deploy[s], StatusOf(s)>> \in Stages
             /\ StatusOf(s)' = st
  <2>1. PICK x \in Status : submissions[s] = Rec(x, NoURL, NoURL) /\ <<deploy[s], x>> \in Stages
    BY <1>3, FreshAt
  <2>2. /\ submissions[s].status = x /\ submissions[s].container = NoURL
        /\ submissions[s].endpoint = NoURL
    BY <2>1, FreshRec
  <2>3. submissions'[s] = Rec(st, NoURL, NoURL)
    BY <1>1, <1>3, <2>2, StatusSet DEF TypeOK
  <2> QED
    BY <1>1, <2>1, <2>2, <2>3, FreshRec DEF StatusOf, Known
<1>4. CASE SetCompiling(s)
  <2>1. StatusOf(s) = "RECEIVED" /\ StatusOf(s)' = "COMPILING"
    BY <1>3, <1>4 DEF SetCompiling, Goto, Status, Stages
  <2> QED
    BY <1>2, <2>1 DEF MovesTo
<1>5. CASE SetRunning(s)
  <2>1. StatusOf(s) = "COMPILING" /\ StatusOf(s)' = "RUNNING"
    BY <1>3, <1>5 DEF SetRunning, Goto, Status, Stages
  <2> QED
    BY <1>2, <2>1 DEF MovesTo
<1>6. CASE SetFailed(s)
  <2>1. StatusOf(s) = "COMPILING" /\ StatusOf(s)' = "FAILED"
    BY <1>3, <1>6 DEF SetFailed, Goto, Status, Stages
  <2> QED
    BY <1>2, <2>1 DEF MovesTo
<1>7. ASSUME submissions'[s] = submissions[s]
      PROVE  \A t \in Submissions : StatusOf(t)' = StatusOf(t)
  BY <1>2, <1>7 DEF StatusOf, Known
<1>8. CASE Build(s) \/ BuildFails(s) \/ RunContainer(s) \/ RunFails(s) \/ Publish(s)
  BY <1>7, <1>8 DEF Build, BuildFails, RunContainer, RunFails, Publish
<1>9. ASSUME NEW c \in Submissions \cup {NoURL}, NEW url \in Nat \cup {NoURL},
             UpdateEndpoint(s, c, url)
      PROVE  StatusOf(s)' = StatusOf(s)
  <2>1. submissions'[s] = Rec(submissions[s].status, c, url)
    BY <1>9, EndpointSet DEF TypeOK
  <2>2. submissions[s].status \in Status
    BY <1>1, KnownRecord DEF Submission
  <2>3. /\ Rec(submissions[s].status, c, url) # None
        /\ Rec(submissions[s].status, c, url).status = submissions[s].status
    BY <1>9, <2>2, RecIsSubmission
  <2> QED
    BY <1>1, <2>1, <2>3 DEF StatusOf, Known
<1>10. CASE SetEndpoint(s) \/ ClearEndpoint(s)
  <2>1. deploy[s] = "endpoint" => port[s] \in Nat
    BY DeployFacts
  <2>2. StatusOf(s)' = StatusOf(s)
    BY <1>9, <1>10, <2>1 DEF SetEndpoint, ClearEndpoint, Goto
  <2> QED
    BY <1>2, <2>2
<1> QED
  BY <1>4, <1>5, <1>6, <1>8, <1>10 DEF Deploying

\* SetCompleted says COMPLETED of a submission that runs, or said so before.
LEMMA StatusesCompleted ==
    ASSUME TypeOK, RecordInv, DeleterInv, NEW h \in Deleters, SetCompleted(h)
    PROVE  \E s \in Submissions :
              /\ containers[s] = "removed"
              /\ \/ MovesTo(s, "RUNNING", "COMPLETED")
                 \/ MovesTo(s, "COMPLETED", "COMPLETED")
<1>1. PICK s \in Submissions :
         s = deleters[h].sub /\ Linked(s) /\ containers[s] = "removed"
  BY DEF SetCompleted, DeleterInv, DeleterOK
<1>2. submissions' = [submissions EXCEPT ![s] = Rec("COMPLETED", s, port[s])]
  BY <1>1, LinkedKnown, StatusSet DEF SetCompleted
<1>3. StatusOf(s) \in {"RUNNING", "COMPLETED"}
  BY <1>1, LinkedKnown DEF StatusOf
<1>4. StatusOf(s)' = "COMPLETED"
  BY <1>1, <1>2, RecIsSubmission DEF StatusOf, Known, Linked, Status, TypeOK
<1>5. \A t \in Submissions \ {s} : StatusOf(t)' = StatusOf(t)
  BY <1>2 DEF StatusOf, Known, TypeOK
<1> QED
  BY <1>1, <1>3, <1>4, <1>5 DEF MovesTo

LEMMA StatusesStep ==
    ASSUME TypeOK, RecordInv, DeleterInv, [Next]_vars
    PROVE  \/ \A t \in Submissions : StatusOf(t)' = StatusOf(t)
           \/ \A t \in Submissions : StatusOf(t)' = None
           \/ \E s \in Submissions :
                 \/ MovesTo(s, None, "RECEIVED")
                 \/ MovesTo(s, "RECEIVED", "COMPILING")
                 \/ MovesTo(s, "COMPILING", "RUNNING")
                 \/ MovesTo(s, "COMPILING", "FAILED")
                 \/ MovesTo(s, "RUNNING", "COMPLETED") /\ containers[s] = "removed"
                 \/ MovesTo(s, "COMPLETED", "COMPLETED")
<1>1. ASSUME submissions' = submissions
      PROVE  \A t \in Submissions : StatusOf(t)' = StatusOf(t)
  BY <1>1 DEF StatusOf, Known
<1>2. ASSUME NEW s \in Submissions, Submit(s) PROVE MovesTo(s, None, "RECEIVED")
  <2>1. ~Known(s)
    BY <1>2 DEF Submit, RecordInv, RecordOK, Fresh, Stages, Linked
  <2>2. submissions' = [submissions EXCEPT ![s] = Rec("RECEIVED", NoURL, NoURL)]
    BY <1>2 DEF Submit, Rec
  <2>3. StatusOf(s)' = "RECEIVED"
    BY <2>2, FreshRec DEF StatusOf, Known, Status, TypeOK
  <2>4. \A t \in Submissions \ {s} : StatusOf(t)' = StatusOf(t)
    BY <2>2 DEF StatusOf, Known, TypeOK
  <2> QED
    BY <2>1, <2>3, <2>4 DEF MovesTo, StatusOf
<1>3. ASSUME NEW h \in Deleters, Deleting(h), ~SetCompleted(h) PROVE submissions' = submissions
  BY <1>3 DEF Deleting, StopSubmission, DeleteContainer, EvictProxy, DockerStop, DockerRm,
     DockerFails
<1>4. ASSUME NEW q \in Orders, Ordering(q) PROVE submissions' = submissions
  BY <1>4 DEF Ordering, ReadEndpoint, GetOrCreateProxy, Serve
<1>5. CASE Crash
  BY <1>5 DEF Crash, StatusOf, Known
<1>6. CASE Start \/ UNCHANGED vars \/ \E s \in Submissions : ContainerExits(s) \/ RunLate(s)
  BY <1>1, <1>6 DEF Start, vars, ContainerExits, RunLate
<1> QED
  BY <1>1, <1>2, <1>3, <1>4, <1>5, <1>6, StatusesDeploying, StatusesCompleted DEF Next

(***************************************************************************)
(* DELETE requests                                                         *)
(***************************************************************************)
LEMMA DeleterStep ==
    ASSUME TypeOK, RecordInv, DeleterInv, [Next]_vars
    PROVE  DeleterInv'
<1>1. CASE Crash
  <2>1. \A h \in Deleters : DeleterOK(deleters[h])'
    BY <1>1 DEF Crash, NoDeleter, DeleterOK
  <2>2. \A s \in Submissions : StatusOf(s)' = None
    BY <1>1 DEF Crash, StatusOf, Known
  <2>3. None # "COMPLETED"
    BY NamesAssumption DEF Status
  <2> QED
    BY <2>1, <2>2, <2>3 DEF DeleterInv, CompletedIsGone
<1>2. CASE ~Crash
  <2>1. \A s \in Submissions :
           /\ Linked(s) => Linked(s)'
           /\ containers[s] = "removed" => containers'[s] = "removed"
    BY <1>2, LinkedStays, GoneStays
  <2>2. ASSUME NEW h \in Deleters, deleters'[h] = deleters[h]
        PROVE  DeleterOK(deleters[h])'
    BY <2>1, <2>2 DEF DeleterInv, DeleterOK
  <2>3. ASSUME NEW h \in Deleters, Deleting(h)
        PROVE  \A g \in Deleters : DeleterOK(deleters[g])'
    <3>1. \A g \in Deleters \ {h} : deleters'[g] = deleters[g]
      BY <2>3 DEF Deleting, StopSubmission, DeleteContainer, EvictProxy, DockerStop, DockerRm,
         DockerFails, SetCompleted, DeleterGoto, Done, TypeOK
    <3>2. deleters[h] \in Deleter /\ DeleterOK(deleters[h])
      BY DEF DeleterInv, TypeOK
    <3>3. ASSUME NEW pc, DeleterGoto(h, pc)
          PROVE  /\ deleters'[h].pc = pc
                 /\ deleters'[h].sub = deleters[h].sub
                 /\ deleters'[h].route = deleters[h].route
      BY <3>2, <3>3 DEF DeleterGoto, Deleter, TypeOK
    <3>4. ASSUME Done(h) PROVE DeleterOK(deleters[h])'
      BY <3>4 DEF Done, NoDeleter, DeleterOK, TypeOK
    <3>5. ASSUME NEW s \in Submissions, StopSubmission(h, s) PROVE DeleterOK(deleters[h])'
      <4>1. Fresh(s) => submissions[s].container = NoURL
        BY FreshRec DEF Fresh
      <4>2. Linked(s)
        BY <3>5, <4>1, NamesAssumption DEF StopSubmission, RecordInv, RecordOK
      <4>3. deleters'[h] = [pc |-> "stop", sub |-> s, route |-> "submissions"]
        BY <3>5 DEF StopSubmission, TypeOK
      <4> QED
        BY <2>1, <4>2, <4>3 DEF DeleterOK
    <3>6. ASSUME NEW s \in Submissions, DeleteContainer(h, s) PROVE DeleterOK(deleters[h])'
      <4>1. deleters'[h].pc \in {"evict", "stop"} /\ deleters'[h].sub = s
            /\ deleters'[h].route = "sandbox"
        BY <3>6 DEF DeleteContainer, TypeOK
      <4> QED
        BY <4>1 DEF DeleterOK
    <3>7. ASSUME EvictProxy(h) PROVE DeleterOK(deleters[h])'
      <4>1. /\ deleters[h].pc = "evict"
            /\ deleters'[h].pc = IF deleters[h].route = "sandbox" THEN "stop" ELSE "complete"
            /\ deleters'[h].sub = deleters[h].sub /\ deleters'[h].route = deleters[h].route
        BY <3>3, <3>7 DEF EvictProxy
      <4> QED
        BY <2>1, <3>2, <4>1 DEF DeleterOK, Deleter
    <3>8. ASSUME DockerStop(h) PROVE DeleterOK(deleters[h])'
      <4>1. /\ deleters[h].pc = "stop" /\ deleters'[h].pc = "rm"
            /\ deleters'[h].sub = deleters[h].sub /\ deleters'[h].route = deleters[h].route
        BY <3>3, <3>8 DEF DockerStop
      <4> QED
        BY <2>1, <3>2, <4>1 DEF DeleterOK
    <3>9. ASSUME DockerRm(h), ~Done(h) PROVE DeleterOK(deleters[h])'
      <4>1. /\ deleters[h].pc = "rm" /\ deleters'[h].pc = "evict"
            /\ deleters'[h].sub = deleters[h].sub /\ deleters'[h].route = deleters[h].route
        BY <3>3, <3>9 DEF DockerRm
      <4>2. containers'[deleters[h].sub] = "removed"
        BY <3>2, <3>9, <4>1 DEF DockerRm, DeleterOK, TypeOK
      <4> QED
        BY <2>1, <3>2, <4>1, <4>2 DEF DeleterOK
    <3>10. ASSUME DockerFails(h) \/ SetCompleted(h) PROVE DeleterOK(deleters[h])'
      BY <3>4, <3>10 DEF DockerFails, SetCompleted
    <3> QED
      BY <2>2, <2>3, <3>1, <3>4, <3>5, <3>6, <3>7, <3>8, <3>9, <3>10 DEF Deleting
  <2>4. (\E h \in Deleters : Deleting(h)) \/ deleters' = deleters
    BY <1>2, DeployOthers DEF Next, vars, Submit, ContainerExits, RunLate, Ordering, ReadEndpoint,
       GetOrCreateProxy, Serve, Start
  <2>5. \A h \in Deleters : DeleterOK(deleters[h])'
    BY <2>2, <2>3, <2>4
  <2>6. None # "COMPLETED"
    BY NamesAssumption DEF Status
  <2>7. ASSUME NEW t \in Submissions, StatusOf(t)' = "COMPLETED"
        PROVE  containers'[t] = "removed"
    <3>1. StatusOf(t) = "COMPLETED" \/ containers[t] = "removed"
      BY <2>6, <2>7, StatusesStep DEF MovesTo
    <3> QED
      BY <2>1, <3>1 DEF DeleterInv, CompletedIsGone
  <2> QED
    BY <2>5, <2>7 DEF DeleterInv, CompletedIsGone
<1> QED
  BY <1>1, <1>2

(***************************************************************************)
(* Orders and events                                                       *)
(***************************************************************************)
LEMMA OrderStep ==
    ASSUME TypeOK, RecordInv, DeleterInv, OrderInv, [Next]_vars
    PROVE  OrderInv'
<1>1. CASE Crash
  BY <1>1 DEF Crash, OrderInv, NoOrder
<1>2. CASE ~Crash
  <2>1. \A s \in Submissions : \A url : Target(s, url) => Target(s, url)'
    BY <1>2, LinkedStays DEF Target
  <2>2. \A s \in Submissions : proxyCache[s] # None => Target(s, proxyCache[s])
    BY DEF OrderInv
  <2>3. ASSUME NEW s \in Submissions, proxyCache'[s] = proxyCache[s], proxyCache'[s] # None
        PROVE  Target(s, proxyCache[s])'
    BY <2>1, <2>2, <2>3 DEF Target
  <2>4. ASSUME NEW q \in Orders, orders'[q] = orders[q], orders[q].pc # "idle"
        PROVE  \E s \in Submissions : orders'[q].sub = s /\ Target(s, orders[q].url)'
    BY <2>1, <2>4 DEF OrderInv, Target
  <2>5. CASE UNCHANGED <<proxyCache, orders>>
    BY <2>3, <2>4, <2>5 DEF OrderInv
  <2>6. ASSUME NEW h \in Deleters, EvictProxy(h) PROVE OrderInv'
    <3>1. \A s \in Submissions : proxyCache'[s] \in {proxyCache[s], None}
      BY <2>6 DEF EvictProxy, Evict, TypeOK
    <3> QED
      BY <2>3, <2>4, <2>6, <3>1 DEF OrderInv, EvictProxy
  <2>7. ASSUME NEW q \in Orders, NEW s \in Submissions, ReadEndpoint(q, s) PROVE OrderInv'
    <3>1. Target(s, submissions[s].endpoint)
      <4>1. Fresh(s) => submissions[s].endpoint = NoURL
        BY FreshRec DEF Fresh
      <4>2. Linked(s) => submissions[s].endpoint = port[s]
        BY LinkedKnown
      <4> QED
        BY <2>7, <4>1, <4>2 DEF ReadEndpoint, RecordInv, RecordOK, Target
    <3>2. \E u : u = submissions[s].endpoint /\ Target(s, u)'
      BY <2>1, <3>1
    <3>3. orders'[q] = [pc |-> "proxy", sub |-> s, url |-> submissions[s].endpoint]
      BY <2>7 DEF ReadEndpoint, TypeOK
    <3>4. \A p \in Orders \ {q} : orders'[p] = orders[p]
      BY <2>7 DEF ReadEndpoint, TypeOK
    <3>5. \E t \in Submissions : orders'[q].sub = t /\ Target(t, orders[q].url)'
      BY <3>2, <3>3 DEF Target
    <3>6. proxyCache' = proxyCache
      BY <2>7 DEF ReadEndpoint
    <3> QED
      BY <2>3, <2>4, <3>4, <3>5, <3>6 DEF OrderInv
  <2>8. ASSUME NEW q \in Orders, GetOrCreateProxy(q) PROVE OrderInv'
    <3>1. PICK s \in Submissions : orders[q].sub = s /\ Target(s, orders[q].url)
      BY <2>8 DEF GetOrCreateProxy, OrderInv
    <3>2. PICK u : /\ Target(s, u)
                   /\ proxyCache' = [proxyCache EXCEPT ![s] = u]
                   /\ orders' = [orders EXCEPT ![q] = [pc |-> "serve", sub |-> s, url |-> u]]
      BY <2>2, <2>8, <3>1 DEF GetOrCreateProxy
    <3>3. Target(s, u)'
      BY <2>1, <3>2
    <3>4. \A p \in Orders \ {q} : orders'[p] = orders[p]
      BY <3>2 DEF TypeOK
    <3>5. \E t \in Submissions : orders'[q].sub = t /\ Target(t, orders[q].url)'
      BY <3>2, <3>3 DEF Target, TypeOK
    <3>6. \A t \in Submissions \ {s} : proxyCache'[t] = proxyCache[t]
      BY <3>2 DEF TypeOK
    <3>7. Target(s, proxyCache[s])'
      BY <3>2, <3>3 DEF Target, TypeOK
    <3> QED
      BY <2>3, <2>4, <3>4, <3>5, <3>6, <3>7 DEF OrderInv
  <2>9. ASSUME NEW q \in Orders, Serve(q) PROVE OrderInv'
    <3>1. \A p \in Orders \ {q} : orders'[p] = orders[p]
      BY <2>9 DEF Serve, TypeOK
    <3>2. orders'[q].pc = "idle" /\ proxyCache' = proxyCache
      BY <2>9 DEF Serve, NoOrder, TypeOK
    <3> QED
      BY <2>3, <2>4, <3>1, <3>2 DEF OrderInv
  <2>10. ASSUME NEW h \in Deleters, Deleting(h), ~EvictProxy(h)
         PROVE  UNCHANGED <<proxyCache, orders>>
    BY <2>10 DEF Deleting, StopSubmission, DeleteContainer, DockerStop, DockerRm, DockerFails,
       SetCompleted
  <2> QED
    BY <1>2, <2>5, <2>6, <2>7, <2>8, <2>9, <2>10, DeployOthers
       DEF Next, vars, Submit, ContainerExits, RunLate, Ordering, Start
<1> QED
  BY <1>1, <1>2

\* What a step may do to the ownership of a container.
LEMMA OwnersStep ==
    ASSUME TypeOK, RecordInv, DeleterInv, [Next]_vars, ~Crash, NEW s \in Submissions
    PROVE  /\ Known(s)' => Known(s) \/ Submit(s)
           /\ Owns(s) => Owns(s)'
           /\ Owns(s)' => Owns(s) \/ RunContainer(s)
           /\ Alive(s)' => Alive(s) \/ RunContainer(s) \/ s \in adrift
<1> DEFINE Goal ==
       /\ Known(s)' => Known(s) \/ Submit(s)
       /\ Owns(s) => Owns(s)'
       /\ Owns(s)' => Owns(s) \/ RunContainer(s)
       /\ Alive(s)' => Alive(s) \/ RunContainer(s) \/ s \in adrift
<1>1. ASSUME submissions'[s] = submissions[s], deploy'[s] = deploy[s], port'[s] = port[s],
             Alive(s)' => Alive(s) \/ s \in adrift
      PROVE  Goal
  BY <1>1, SameEntries
<1>2. ASSUME NEW t \in Submissions, Deploying(t) PROVE Goal
  <2>1. CASE t # s
    BY <1>1, <1>2, <2>1, DeployOthers DEF Alive
  <2>2. CASE t = s
    <3>1. Known(s) /\ RecordOK(s) /\ RecordOK(s)'
      BY <1>2, <2>2, DeployRecord DEF RecordInv
    <3>2. Owns(s) => deploy[s] \in {"running", "endpoint", "publish", "done"}
      BY DEF Owns, Linked
    <3>3. Owns(s)' => deploy'[s] \in {"running", "endpoint", "publish", "done"}
      BY DEF Owns, Linked
    <3>4. CASE SetCompiling(s) \/ Build(s) \/ BuildFails(s) \/ RunFails(s) \/ SetFailed(s)
      <4>1. /\ deploy[s] \in {"compiling", "build", "run", "failed"}
            /\ deploy'[s] \in {"build", "run", "failed", "clear"}
        BY <3>4 DEF SetCompiling, Build, BuildFails, RunFails, SetFailed, Goto, TypeOK
      <4>2. Alive(s)' => Alive(s)
        BY <3>4 DEF SetCompiling, Build, BuildFails, RunFails, SetFailed, Alive, TypeOK
      <4> QED
        BY <3>1, <3>2, <3>3, <4>1, <4>2
    <3>5. CASE ClearEndpoint(s)
      <4>1. deploy[s] = "clear" /\ deploy'[s] = "done" /\ Fresh(s)
        BY <3>1, <3>5 DEF ClearEndpoint, Goto, TypeOK, RecordOK, Linked
      <4>2. submissions'[s].container = NoURL
        BY <3>1, <3>5, EndpointSet DEF ClearEndpoint, TypeOK, Rec
      <4>3. ~Linked(s)'
        BY <4>2, NamesAssumption DEF Linked, Rec
      <4> QED
        BY <3>1, <3>2, <3>5, <4>1, <4>3 DEF Owns, ClearEndpoint, Alive
    <3>6. CASE RunContainer(s)
      <4>1. deploy[s] = "run" /\ deploy'[s] = "running" /\ Known(s)'
        BY <3>1, <3>6 DEF RunContainer, Goto, TypeOK, Known
      <4> QED
        BY <3>1, <3>2, <3>6, <4>1
    <3>7. CASE SetRunning(s) \/ SetEndpoint(s) \/ Publish(s)
      <4>1. /\ deploy[s] \in {"running", "endpoint", "publish"}
            /\ deploy'[s] \in {"endpoint", "publish", "done"}
            /\ deploy'[s] = "done" => deploy[s] = "publish"
        BY <3>7 DEF SetRunning, SetEndpoint, Publish, Goto, TypeOK
      <4>2. Owns(s)
        BY <3>1, <4>1 DEF Owns, RecordOK, Fresh, Stages
      <4>3. Owns(s)'
        <5>1. CASE deploy[s] = "publish"
          BY <1>2, <2>2, <4>2, <5>1, LinkedStays DEF Owns
        <5>2. CASE deploy'[s] \in {"endpoint", "publish"}
          BY <3>1, <5>2 DEF Owns, RecordOK, Fresh, Stages
        <5> QED
          BY <4>1, <5>1, <5>2
      <4>4. Alive(s)' => Alive(s)
        BY <3>7 DEF SetRunning, SetEndpoint, Publish, Alive
      <4> QED
        BY <3>1, <4>2, <4>3, <4>4
    <3> QED
      BY <1>2, <2>2, <3>4, <3>5, <3>6, <3>7 DEF Deploying
  <2> QED
    BY <2>1, <2>2
<1>3. ASSUME NEW t \in Submissions, Submit(t) PROVE Goal
  <2>1. CASE t # s
    BY <1>1, <1>3, <2>1 DEF Submit, Alive, TypeOK
  <2>2. CASE t = s
    BY <1>3, <2>2 DEF Submit, Owns, Linked, Alive, TypeOK
  <2> QED
    BY <2>1, <2>2
<1>4. ASSUME NEW h \in Deleters, SetCompleted(h) PROVE Goal
  <2>1. PICK t \in Submissions : t = deleters[h].sub /\ Linked(t)
    BY <1>4 DEF SetCompleted, DeleterInv, DeleterOK
  <2>2. CASE t = s
    BY <1>4, <2>1, <2>2, LinkedStays, LinkedKnown DEF Owns, SetCompleted, Alive
  <2>3. CASE t # s
    BY <1>1, <1>4, <2>1, <2>3 DEF SetCompleted, UpdateStatus, Alive, TypeOK
  <2> QED
    BY <2>2, <2>3
<1>5. ASSUME NEW h \in Deleters, Deleting(h), ~SetCompleted(h) PROVE Goal
  <2>1. Alive(s)' => Alive(s)
    BY <1>5 DEF Deleting, StopSubmission, DeleteContainer, EvictProxy, DockerStop, DockerRm,
       DockerFails, Alive, TypeOK
  <2> QED
    BY <1>1, <1>5, <2>1 DEF Deleting, StopSubmission, DeleteContainer, EvictProxy, DockerStop,
       DockerRm, DockerFails
<1>6. ASSUME NEW q \in Orders, Ordering(q) PROVE Goal
  BY <1>1, <1>6 DEF Ordering, ReadEndpoint, GetOrCreateProxy, Serve, Alive
<1>7. ASSUME NEW t \in Submissions, ContainerExits(t) \/ RunLate(t) PROVE Goal
  BY <1>1, <1>7 DEF ContainerExits, RunLate, Alive, TypeOK
<1>8. CASE Start
  BY <1>1, <1>8 DEF Start, Alive
<1>9. CASE UNCHANGED vars
  BY <1>1, <1>9 DEF vars, Alive
<1> QED
  BY <1>2, <1>3, <1>4, <1>5, <1>6, <1>7, <1>8, <1>9 DEF Next

\* Only a crash sets a docker run adrift.
LEMMA AdriftStays ==
    ASSUME [Next]_vars, ~Crash
    PROVE  adrift' = adrift
<1>1. ASSUME NEW s \in Submissions, Submit(s) \/ Deploying(s) \/ ContainerExits(s) \/ RunLate(s)
      PROVE  adrift' = adrift
  BY <1>1 DEF Submit, ContainerExits, RunLate, Deploying, Goto, SetCompiling, Build, BuildFails,
     RunContainer, RunFails, SetRunning, SetEndpoint, Publish, SetFailed, ClearEndpoint
<1>2. ASSUME NEW h \in Deleters, Deleting(h) PROVE adrift' = adrift
  BY <1>2 DEF Deleting, StopSubmission, DeleteContainer, EvictProxy, DockerStop, DockerRm,
     DockerFails, SetCompleted
<1>3. ASSUME NEW q \in Orders, Ordering(q) PROVE adrift' = adrift
  BY <1>3 DEF Ordering, ReadEndpoint, GetOrCreateProxy, Serve
<1> QED
  BY <1>1, <1>2, <1>3 DEF Next, vars, Start

LEMMA AdriftStep ==
    ASSUME TypeOK, RecordInv, DeleterInv, ReadyInv, AdriftInv, ReadyInv', [Next]_vars
    PROVE  AdriftInv'
<1>1. CASE Crash
  <2> SUFFICES ASSUME NEW s \in adrift'
               PROVE  /\ deploy'[s] = "done" /\ ~Known(s)' /\ port'[s] \in Nat
                      /\ \A e \in ready' : e.sub # s
    BY DEF AdriftInv
  <2>1. s \in Submissions /\ deploy'[s] = "done" /\ ~Known(s)' /\ port'[s] = port[s]
        /\ ready' = ready /\ (s \in adrift \/ deploy[s] = "run")
    BY <1>1 DEF Crash, Known, AdriftInv, TypeOK
  <2> QED
    BY <2>1 DEF AdriftInv, ReadyInv, RecordInv, RecordOK
<1>2. CASE ~Crash
  <2> SUFFICES ASSUME NEW s \in adrift
               PROVE  /\ deploy'[s] = "done" /\ ~Known(s)' /\ port'[s] \in Nat
                      /\ \A e \in ready' : e.sub # s
    BY <1>2, AdriftStays DEF AdriftInv
  <2>1. s \in Submissions /\ deploy[s] = "done" /\ ~Known(s) /\ port[s] \in Nat
    BY DEF AdriftInv, TypeOK
  <2>2. ~Submit(s) /\ ~Deploying(s)
    BY <2>1, DeployGoesOn DEF Submit
  <2>3. ~Known(s)'
    BY <1>2, <2>1, <2>2, OwnersStep
  <2>4. UNCHANGED <<deploy, port, ready>> \/ \E t \in Submissions \ {s} : Submit(t) \/ Deploying(t)
    <3>1. ASSUME NEW h \in Deleters, Deleting(h) PROVE UNCHANGED <<deploy, port, ready>>
      BY <3>1 DEF Deleting, StopSubmission, DeleteContainer, EvictProxy, DockerStop, DockerRm,
         DockerFails, SetCompleted
    <3>2. ASSUME NEW q \in Orders, Ordering(q) PROVE UNCHANGED <<deploy, port, ready>>
      BY <3>2 DEF Ordering, ReadEndpoint, GetOrCreateProxy, Serve
    <3> QED
      BY <1>2, <2>2, <3>1, <3>2 DEF Next, vars, ContainerExits, RunLate, Start
  <2>5. CASE UNCHANGED <<deploy, port, ready>>
    BY <2>1, <2>3, <2>5 DEF AdriftInv
  <2>6. ASSUME NEW t \in Submissions \ {s}, Submit(t)
        PROVE  deploy'[s] = "done" /\ port'[s] \in Nat /\ ready' = ready
    BY <2>1, <2>6 DEF Submit, TypeOK
  <2>7. ASSUME NEW t \in Submissions \ {s}, Deploying(t)
        PROVE  /\ deploy'[s] = "done" /\ port'[s] \in Nat
               /\ \A e \in ready' : e \in ready \/ e.sub = t
    <3>1. \A e \in ready' : e \in ready \/ e.sub = t
      BY <2>7 DEF Deploying, SetCompiling, Build, BuildFails, RunContainer, RunFails, SetRunning,
         SetEndpoint, Publish, SetFailed, ClearEndpoint
    <3> QED
      BY <2>1, <2>7, <3>1, DeployOthers
  <2> QED
    BY <2>3, <2>4, <2>5, <2>6, <2>7 DEF AdriftInv
<1> QED
  BY <1>1, <1>2

LEMMA ReadyStep ==
    ASSUME TypeOK, RecordInv, DeleterInv, ReadyInv, [Next]_vars
    PROVE  ReadyInv'
<1>1. ASSUME NEW s \in Submissions, deploy[s] = "done" PROVE deploy'[s] = "done"
  <2>1. ASSUME NEW t \in Submissions, Deploying(t) PROVE deploy'[s] = "done"
    BY <1>1, <2>1, DeployGoesOn, DeployOthers
  <2>2. ASSUME NEW t \in Submissions, Submit(t) \/ ContainerExits(t) \/ RunLate(t)
        PROVE  deploy'[s] = "done"
    BY <1>1, <2>2 DEF Submit, ContainerExits, RunLate, TypeOK
  <2>3. CASE Crash \/ Start \/ UNCHANGED vars
    BY <1>1, <2>3 DEF Crash, Start, vars
  <2>4. ASSUME NEW h \in Deleters, Deleting(h) PROVE deploy'[s] = "done"
    BY <1>1, <2>4 DEF Deleting, StopSubmission, DeleteContainer, EvictProxy, DockerStop,
       DockerRm, DockerFails, SetCompleted
  <2>5. ASSUME NEW q \in Orders, Ordering(q) PROVE deploy'[s] = "done"
    BY <1>1, <2>5 DEF Ordering, ReadEndpoint, GetOrCreateProxy, Serve
  <2> QED
    BY <2>1, <2>2, <2>3, <2>4, <2>5 DEF Next
<1>2. ASSUME NEW e \in ready
      PROVE  deploy'[e.sub] = "done" /\ (Known(e.sub)' => Linked(e.sub)' /\ e.port = port'[e.sub])
  <2>1. e.sub \in Submissions /\ deploy[e.sub] = "done"
    BY DEF TypeOK, Event, ReadyInv
  <2>2. CASE Crash
    BY <1>1, <2>1, <2>2 DEF Crash, Known
  <2>3. ASSUME ~Crash, Known(e.sub)' PROVE Linked(e.sub)' /\ e.port = port'[e.sub]
    <3>1. Known(e.sub)
      BY <2>1, <2>3, OwnersStep DEF Submit
    <3>2. Linked(e.sub) /\ e.port = port[e.sub]
      BY <3>1 DEF ReadyInv
    <3> QED
      BY <2>1, <2>3, <3>2, LinkedStays
  <2> QED
    BY <1>1, <2>1, <2>2, <2>3
<1>3. CASE ready' = ready
  BY <1>2, <1>3 DEF ReadyInv
<1>4. ASSUME NEW s \in Submissions, Publish(s) PROVE ReadyInv'
  <2>1. deploy[s] = "publish" /\ deploy'[s] = "done" /\ ~Crash
    BY <1>4 DEF Publish, Goto, Crash, TypeOK
  <2>2. RecordOK(s)
    BY DEF RecordInv
  <2>3. Linked(s)
    BY <2>1, <2>2 DEF RecordOK, Fresh, Stages
  <2>4. Linked(s)' /\ port'[s] = port[s]
    BY <2>1, <2>3, LinkedStays
  <2>5. \A e \in ready' : e \in ready \/ (e.sub = s /\ e.port = port[s])
    BY <1>4 DEF Publish
  <2>6. ASSUME NEW e \in ready', e \notin ready
        PROVE  deploy'[e.sub] = "done" /\ Linked(e.sub)' /\ e.port = port'[e.sub]
    BY <2>1, <2>4, <2>5, <2>6
  <2> QED
    BY <1>2, <2>6 DEF ReadyInv
<1>5. ASSUME NEW s \in Submissions, Deploying(s), ~Publish(s) PROVE ready' = ready
  BY <1>5 DEF Deploying, SetCompiling, Build, BuildFails, RunContainer, RunFails, SetRunning,
     SetEndpoint, SetFailed, ClearEndpoint
<1>6. ASSUME NEW h \in Deleters, Deleting(h) PROVE ready' = ready
  BY <1>6 DEF Deleting, StopSubmission, DeleteContainer, EvictProxy, DockerStop, DockerRm,
     DockerFails, SetCompleted
<1>7. ASSUME NEW q \in Orders, Ordering(q) PROVE ready' = ready
  BY <1>7 DEF Ordering, ReadEndpoint, GetOrCreateProxy, Serve
<1> QED
  BY <1>3, <1>4, <1>5, <1>6, <1>7 DEF Next, vars, Submit, ContainerExits, RunLate, Crash, Start

(***************************************************************************)
(* Ports                                                                   *)
(***************************************************************************)
LEMMA PortStep ==
    ASSUME TypeOK, RecordInv, DeleterInv, PortInv, [Next]_vars
    PROVE  PortInv'
<1>1. CASE Crash \/ Start
  <2>1. \A s \in Submissions : ~Known(s)'
    BY <1>1 DEF Crash, Start, Known, RecordInv
  <2>2. \A s \in Submissions : Linked(s)' => Known(s)'
    BY RecIsSubmission DEF Linked, Known, Status
  <2> QED
    BY <2>1, <2>2 DEF PortInv, Owns
<1>2. ASSUME ~Crash, UNCHANGED <<port, portOffset>> PROVE PortInv'
  <2>1. \A s \in Submissions : Known(s)' /\ port[s] \in Nat => Known(s)
    BY <1>2, OwnersStep, NamesAssumption DEF Submit, RecordInv, RecordOK
  <2>2. ASSUME NEW s \in Submissions, NEW t \in Submissions \ adrift,
               Owns(s)', Alive(t)', port[s] = port[t]
        PROVE  s = t
    <3>1. CASE Owns(s) /\ Alive(t)
      BY <2>2, <3>1 DEF PortInv
    <3>2. CASE RunContainer(s) /\ Alive(t)
      BY <2>2, <3>2 DEF RunContainer, PortFree
    <3>3. CASE Owns(s) /\ RunContainer(t)
      <4>1. Known(s) /\ Known(t) /\ port[s] \in Nat
        <5>1. RecordOK(s) /\ RecordOK(t)
          BY DEF RecordInv
        <5>2. deploy[t] = "run"
          BY <3>3 DEF RunContainer, Goto
        <5> QED
          BY <2>2, <3>3, <5>1, <5>2, LinkedKnown DEF Owns, RecordOK
      <4> QED
        BY <2>2, <4>1 DEF PortInv
    <3>4. CASE RunContainer(s) /\ RunContainer(t)
      BY <3>4 DEF RunContainer, Goto, TypeOK
    <3> QED
      BY <1>2, <2>2, <3>1, <3>2, <3>3, <3>4, OwnersStep
  <2>3. /\ \A s \in Submissions : Known(s)' /\ port[s] \in Nat => port[s] < 9000 + portOffset
        /\ \A s, t \in Submissions :
              Known(s)' /\ Known(t)' /\ port[s] \in Nat /\ port[s] = port[t] => s = t
    BY <2>1 DEF PortInv
  <2> QED
    BY <1>2, <2>2, <2>3, AdriftStays DEF PortInv
<1>3. ASSUME NEW s \in Submissions, Build(s) PROVE PortInv'
  <2>1. /\ port' = [port EXCEPT ![s] = 9000 + portOffset]
        /\ portOffset' = portOffset + 1 /\ portOffset \in Nat
        /\ submissions' = submissions /\ containers' = containers /\ adrift' = adrift
        /\ deploy[s] = "build" /\ deploy'[s] = "run"
        /\ \A t \in Submissions \ {s} : port'[t] = port[t] /\ deploy'[t] = deploy[t]
        /\ port'[s] = 9000 + portOffset
    BY <1>3 DEF Build, Goto, TypeOK
  <2>2. \A t \in Submissions : Known(t)' <=> Known(t)
    BY <2>1 DEF Known
  <2>3. ~Owns(s)' /\ ~Alive(s)'
    BY <2>1 DEF Owns, Linked, Alive, RecordInv, RecordOK
  <2>4. \A t \in Submissions \ {s} : (Owns(t)' <=> Owns(t)) /\ (Alive(t)' <=> Alive(t))
    BY <2>1, SameEntries DEF Alive
  <2>5. \A t \in Submissions \ {s} : Known(t) /\ port[t] \in Nat => port[t] < 9000 + portOffset
    BY DEF PortInv
  <2>6. \A t \in Submissions : Known(t)' /\ port'[t] \in Nat => port'[t] < 9000 + portOffset'
    BY <2>1, <2>2, <2>5
  <2>7. \A t, u \in Submissions :
           Known(t)' /\ Known(u)' /\ port'[t] \in Nat /\ port'[t] = port'[u] => t = u
    BY <2>1, <2>2, <2>5 DEF PortInv
  <2>8. \A t \in Submissions, u \in Submissions \ adrift' :
           Owns(t)' /\ Alive(u)' /\ port'[t] = port'[u] => t = u
    BY <2>1, <2>3, <2>4 DEF PortInv
  <2> QED
    BY <2>6, <2>7, <2>8 DEF PortInv
<1>4. ASSUME NEW s \in Submissions, Deploying(s), ~Build(s) PROVE UNCHANGED <<port, portOffset>>
  BY <1>4 DEF Deploying, SetCompiling, BuildFails, RunContainer, RunFails, SetRunning,
     SetEndpoint, Publish, SetFailed, ClearEndpoint
<1>5. ASSUME NEW h \in Deleters, Deleting(h) PROVE UNCHANGED <<port, portOffset>>
  BY <1>5 DEF Deleting, StopSubmission, DeleteContainer, EvictProxy, DockerStop, DockerRm,
     DockerFails, SetCompleted
<1>6. ASSUME NEW q \in Orders, Ordering(q) PROVE UNCHANGED <<port, portOffset>>
  BY <1>6 DEF Ordering, ReadEndpoint, GetOrCreateProxy, Serve
<1> QED
  BY <1>1, <1>2, <1>3, <1>4, <1>5, <1>6 DEF Next, vars, Submit, ContainerExits, RunLate

(***************************************************************************)
(* The inductive invariant and what follows from it                        *)
(***************************************************************************)
IInv == /\ TypeOK /\ RecordInv /\ PortInv /\ DeleterInv /\ OrderInv /\ ReadyInv /\ AdriftInv

LEMMA InvInit == Init => IInv
<1> SUFFICES ASSUME Init PROVE IInv
  OBVIOUS
<1>1. TypeOK
  BY TypesInit
<1>2. \A s \in Submissions : /\ ~Known(s) /\ ~Linked(s) /\ ~Alive(s)
                             /\ StatusOf(s) = None /\ proxyCache[s] = None
                             /\ port[s] = None /\ containers[s] = "none" /\ deploy[s] = "none"
  BY DEF Init, Known, Linked, Alive, StatusOf
<1>3. RecordInv
  BY <1>2 DEF RecordInv, RecordOK
<1>4. PortInv
  BY <1>2, NamesAssumption DEF PortInv, Owns
<1>5. DeleterInv
  BY <1>2, NamesAssumption DEF Init, NoDeleter, DeleterInv, DeleterOK, CompletedIsGone, Status
<1>6. OrderInv
  BY <1>2 DEF Init, NoOrder, OrderInv
<1>7. ReadyInv
  BY DEF Init, ReadyInv
<1>8. AdriftInv
  BY DEF Init, AdriftInv
<1> QED
  BY <1>1, <1>3, <1>4, <1>5, <1>6, <1>7, <1>8 DEF IInv

LEMMA InvStep == IInv /\ [Next]_vars => IInv'
BY TypesStep, RecordStep, PortStep, DeleterStep, OrderStep, ReadyStep, AdriftStep DEF IInv

LEMMA Invariance == Spec => []IInv
BY InvInit, InvStep, PTL DEF Spec

\* The types of the engine's state, for any number of submissions and requests.
THEOREM TypeCorrect == Spec => []TypeOK
<1>1. IInv => TypeOK
  BY DEF IInv
<1> QED
  BY <1>1, Invariance, PTL

\* Whatever requests stop and remove a container, and whatever Docker does, a
\* submission is COMPLETED only when its container is gone.
THEOREM CompletedGone == Spec => []CompletedIsGone
<1>1. IInv => CompletedIsGone
  BY DEF IInv, DeleterInv
<1> QED
  BY <1>1, Invariance, PTL

\* No order reaches the container of another submission, though ports are used
\* again in the next life of the engine; but for a container that an engine that
\* died had asked for and that starts late.
THEOREM OrdersReachTheirOwn == Spec => []OrdersReachOwnSandbox
<1>1. IInv => OrdersReachOwnSandbox
  <2> SUFFICES ASSUME IInv, NEW q \in Orders, NEW t \in Submissions,
                      t \notin adrift,
                      orders[q].pc = "serve", Alive(t), port[t] = orders[q].url
               PROVE  t = orders[q].sub
    BY DEF OrdersReachOwnSandbox
  <2>1. PICK s \in Submissions : orders[q].sub = s /\ Target(s, orders[q].url)
    BY DEF IInv, OrderInv
  <2>2. port[t] \in Nat
    BY DEF IInv, RecordInv, RecordOK
  <2>3. orders[q].url = port[s] /\ Linked(s)
    BY <2>1, <2>2, NamesAssumption DEF Target
  <2> QED
    BY <2>1, <2>3 DEF IInv, PortInv, Owns
<1> QED
  BY <1>1, Invariance, PTL

\* What submission.ready announces is in the record as long as the engine lives.
THEOREM AnnouncedRecorded == Spec => []AnnouncedIsRecorded
<1>1. IInv => AnnouncedIsRecorded
  <2> SUFFICES ASSUME IInv, NEW e \in ready, Known(e.sub)
               PROVE  /\ submissions[e.sub].container = e.sub
                      /\ submissions[e.sub].endpoint = e.port
                      /\ \A t \in Submissions \ adrift :
                            Alive(t) /\ port[t] = e.port => t = e.sub
    BY DEF AnnouncedIsRecorded
  <2>1. e.sub \in Submissions
    BY DEF IInv, TypeOK, Event
  <2>2. Linked(e.sub) /\ e.port = port[e.sub]
    BY DEF IInv, ReadyInv
  <2>3. submissions[e.sub].container = e.sub /\ submissions[e.sub].endpoint = e.port
    BY <2>1, <2>2, LinkedKnown
  <2>4. \A t \in Submissions \ adrift : Alive(t) /\ port[t] = e.port => t = e.sub
    BY <2>1, <2>2 DEF IInv, PortInv, Owns
  <2> QED
    BY <2>3, <2>4
<1> QED
  BY <1>1, Invariance, PTL

(***************************************************************************)
(* The lifecycle                                                           *)
(***************************************************************************)
LEMMA MoveOfLifecycle ==
    ASSUME NEW s \in Submissions, NEW from, NEW to, MovesTo(s, from, to)
    PROVE  Lifecycle!Move(s, from, to)
BY DEF MovesTo, Lifecycle!Move

LEMMA LifecycleStep == IInv /\ [Next]_vars => [Lifecycle!Next]_[s \in Submissions |-> StatusOf(s)]
<1> SUFFICES ASSUME IInv, [Next]_vars
             PROVE  [Lifecycle!Next]_[s \in Submissions |-> StatusOf(s)]
  OBVIOUS
<1>1. CASE \A t \in Submissions : StatusOf(t)' = StatusOf(t)
  BY <1>1
<1>2. CASE \A t \in Submissions : StatusOf(t)' = None
  BY <1>2 DEF Lifecycle!Next, Lifecycle!Forget
<1>3. ASSUME NEW s \in Submissions,
             \/ MovesTo(s, None, "RECEIVED") \/ MovesTo(s, "RECEIVED", "COMPILING")
             \/ MovesTo(s, "COMPILING", "RUNNING") \/ MovesTo(s, "COMPILING", "FAILED")
             \/ MovesTo(s, "RUNNING", "COMPLETED")
      PROVE  Lifecycle!Next
  BY <1>3, MoveOfLifecycle DEF Lifecycle!Next, Lifecycle!Receive, Lifecycle!Compile,
     Lifecycle!Start, Lifecycle!Fail, Lifecycle!Complete
<1>4. ASSUME NEW s \in Submissions, MovesTo(s, "COMPLETED", "COMPLETED")
      PROVE  \A t \in Submissions : StatusOf(t)' = StatusOf(t)
  BY <1>4 DEF MovesTo
<1> QED
  BY <1>1, <1>2, <1>3, <1>4, StatusesStep DEF IInv

\* The goroutine and the requests, whatever their order, move a submission along
\* its lifecycle.
THEOREM EngineImplementsLifecycle == Spec => ImplementsLifecycle
<1>1. Init => Lifecycle!Init
  BY DEF Init, Lifecycle!Init, StatusOf, Known
<1> QED
  BY <1>1, Invariance, LifecycleStep, PTL DEF Spec, ImplementsLifecycle, Lifecycle!Spec

(***************************************************************************)
(* Containers without a record                                             *)
(***************************************************************************)
LEMMA OwnedStep ==
    ASSUME ~DockerErrors, IInv, OwnedInv, [Next]_vars PROVE OwnedInv'
<1>1. CASE Crash
  BY <1>1 DEF Crash, OwnedInv
<1>2. CASE Start
  <2>1. \A s \in Submissions : ~Alive(s)'
    BY <1>2 DEF Start, Alive
  <2> QED
    BY <2>1 DEF OwnedInv
<1>3. ASSUME ~Crash, ~Start PROVE OwnedInv'
  <2>1. up' = up
    BY <1>3, DeployOthers DEF IInv, Next, vars, Submit, ContainerExits, RunLate, Deleting, StopSubmission,
       DeleteContainer, EvictProxy, DockerStop, DockerRm, DockerFails, SetCompleted, Ordering,
       ReadEndpoint, GetOrCreateProxy, Serve
  <2>2. ASSUME NEW s \in Submissions, RunContainer(s) PROVE Owns(s)'
    <3>1. Known(s)' /\ deploy'[s] = "running"
      BY <2>2, DeployFacts DEF RunContainer, Goto, Known, IInv, TypeOK
    <3> QED
      BY <3>1 DEF Owns
  <2> QED
    BY <1>3, <2>1, <2>2, OwnersStep, AdriftStays DEF IInv, OwnedInv
<1> QED
  BY <1>1, <1>2, <1>3

\* If docker stop and docker rm do what they are asked to, no container runs that
\* the engine has forgotten, but for those whose docker run outlived the engine
\* that asked for them.
THEOREM RunningOwned == ~DockerErrors /\ Spec => []RunningIsOwned
<1>1. Init => OwnedInv
  BY DEF Init, OwnedInv, Alive
<1>2. OwnedInv => RunningIsOwned
  <2>1. \A s \in Submissions : Linked(s) => Known(s) /\ submissions[s].container = s
    BY LinkedKnown
  <2> QED
    BY <2>1 DEF OwnedInv, RunningIsOwned, Owns
<1>3. CASE ~DockerErrors
  <2>1. IInv /\ OwnedInv /\ [Next]_vars => OwnedInv'
    BY <1>3, OwnedStep
  <2> QED
    BY <1>1, <1>2, <2>1, Invariance, PTL DEF Spec
<1>4. CASE DockerErrors
  BY <1>4
<1> QED
  BY <1>3, <1>4, NamesAssumption
=============================================================================

-------------------------- MODULE BenchmarkProofs --------------------------
(***************************************************************************)
(* Benchmark, for any number of submissions, requests, events and crashes: *)
(* it is a behaviour of the engine and one of the coordinator, and if      *)
(* docker stop and docker rm do what they are asked to, a submission that  *)
(* was tested to the end has no container left.                            *)
(***************************************************************************)
EXTENDS Benchmark, SandboxProofs, FiniteSetTheorems

\* What is proved of the coordinator, for the one in Benchmark.
CP == INSTANCE CoordinatorProofs

Handling == {"certify", "setrun", "bots", "delete", "judge", "done", "failed", "cooldown", "commit"}

\* After the DELETE, before the handler returns.
Judged == {"judge", "done", "failed", "cooldown"}

PlaceInv ==
    /\ published \in Nat /\ position \in 0..published /\ committed \in 0..position
    /\ pc \in Handling => position # 0
    /\ \A o \in Nat : C!Ended(o) => o \in 1..published

TopicInv ==
    /\ topic \in Seq(Submissions) /\ Len(topic) = published
    /\ \A o \in 1..published : \E e \in ready : e.sub = topic[o]

Stopped(s) == ~Alive(s) \/ s \in undeleted

\* The request that the coordinator waits for is under way for the submission
\* that was tested, or has left no container of it.
RequestOK(d) ==
    \/ d = NoDeleter /\ Stopped(Tested)
    \/ /\ d.pc \in {"stop", "rm", "evict", "complete"}
       /\ d.sub = Tested /\ d.route = "submissions"
       /\ d.pc # "stop" => ~Alive(Tested)

Waiting ==
    request # None => /\ pc = "delete" /\ request \in Deleters \ Others
                      /\ ~up => deleters[request] = NoDeleter

DeleteInv ==
    /\ Waiting
    /\ up => /\ \A o \in 1..published : C!Ended(o) => Stopped(topic[o])
             /\ pc \in Judged => Stopped(Tested)
             /\ request # None => RequestOK(deleters[request])

(***************************************************************************)
(* The coordinator's place in the topic                                    *)
(***************************************************************************)
LEMMA PlaceInit == JointInit => PlaceInv /\ TopicInv /\ DeleteInv
BY DEF JointInit, C!Init, C!Ended, PlaceInv, TopicInv, Waiting, DeleteInv, Handling, Judged

\* One step of the coordinator: only the DELETE leads behind it, the place in
\* the topic changes between two runs only, and none is passed over.
LEMMA PlaceMoves ==
    ASSUME PlaceInv, C!Next
    PROVE  /\ published' \in {published, published + 1}
           /\ position' \in 0..published' /\ committed' \in 0..position'
           /\ pc' \in Handling => position' # 0
           /\ pc' \in Judged => position' = position /\ (pc \in Judged \/ C!Delete)
           /\ pc' = "delete" => pc \in {"bots", "delete"} /\ position' = position
<1> USE DEF PlaceInv, Handling, Judged, C!Goto, C!loop, C!fleet
<1>1. CASE C!Publish
  BY <1>1 DEF C!Publish
<1>2. CASE C!Loop
  BY <1>2 DEF C!Loop, C!Fetch, C!FetchCancelled, C!Commit, C!CommitFails
<1>3. CASE C!Certify \/ C!SetRun \/ C!SetRunFails \/ C!BotsReturned
  BY <1>3 DEF C!Certify, C!SetRun, C!SetRunFails, C!BotsReturned
<1>4. CASE C!Delete \/ C!Judge \/ C!UpdateStatus \/ C!UpdateStatusFails \/ C!CooldownOver
  BY <1>4 DEF C!Delete, C!Judge, C!UpdateStatus, C!UpdateStatusFails, C!CooldownOver
<1>5. CASE \E b \in Bots : C!BotReturns(b) \/ \E i \in Slots : C!Fire(b, i)
  BY <1>5 DEF C!BotReturns, C!Fire
<1>6. CASE C!Tick \/ \E o \in inflight : C!Answer(o)
  BY <1>6 DEF C!Tick, C!Answer
<1>7. CASE C!Cancel \/ C!Crash \/ C!Restart
  BY <1>7 DEF C!Cancel, C!Crash, C!Restart
<1> QED
  BY <1>1, <1>2, <1>3, <1>4, <1>5, <1>6, <1>7 DEF C!Next, C!Handler

\* A run has ended when the pause after it is over, not before.
LEMMA EndsAtPause ==
    ASSUME C!Next
    PROVE  \A o : C!Ended(o)' => C!Ended(o) \/ (o = position /\ pc = "cooldown")
<1> USE DEF C!Goto, C!loop, C!fleet
<1>1. CASE C!CooldownOver
  BY <1>1 DEF C!CooldownOver, C!Ended, C!Run, C!Lives
<1>2. CASE UNCHANGED finished
  BY <1>2 DEF C!Ended, C!Lives
<1>3. CASE C!Publish
  BY <1>2, <1>3 DEF C!Publish
<1>4. CASE C!Loop
  BY <1>2, <1>4 DEF C!Loop, C!Fetch, C!FetchCancelled, C!Commit, C!CommitFails
<1>5. CASE C!Handler \/ C!Delete
  BY <1>1, <1>2, <1>5 DEF C!Handler, C!Certify, C!SetRun, C!SetRunFails, C!BotsReturned,
     C!Delete, C!Judge, C!UpdateStatus, C!UpdateStatusFails
<1>6. CASE \/ \E b \in Bots : C!BotReturns(b) \/ \E i \in Slots : C!Fire(b, i)
           \/ \E o \in inflight : C!Answer(o)
           \/ C!Tick \/ C!Cancel \/ C!Crash \/ C!Restart
  BY <1>2, <1>6 DEF C!BotReturns, C!Fire, C!Answer, C!Tick, C!Cancel, C!Crash, C!Restart
<1> QED
  BY <1>3, <1>4, <1>5, <1>6 DEF C!Next

LEMMA PlaceStep ==
    ASSUME PlaceInv, C!Next PROVE PlaceInv'
<1>1. pc = "cooldown" => position \in 1..published
  BY DEF PlaceInv, Handling
<1>2. \A o \in Nat : C!Ended(o)' => o \in 1..published
  BY <1>1, EndsAtPause DEF PlaceInv
<1> QED
  BY <1>2, PlaceMoves DEF PlaceInv

(***************************************************************************)
(* A step of both is a step of each                                        *)
(***************************************************************************)
\* What the coordinator tests was announced.
LEMMA TestedAnnounced ==
    ASSUME IInv, PlaceInv, TopicInv, pc \in Handling
    PROVE  /\ Tested \in Submissions \ adrift /\ deploy[Tested] = "done"
           /\ Known(Tested) => Linked(Tested)
<1>1. position \in 1..published
  BY DEF PlaceInv
<1>2. PICK e \in ready : e.sub = Tested
  BY <1>1 DEF TopicInv, Tested
<1>3. Tested \in Submissions
  BY <1>1 DEF TopicInv, Tested
<1>4. Tested \notin adrift
  BY <1>2 DEF IInv, AdriftInv
<1> QED
  BY <1>2, <1>3, <1>4 DEF IInv, ReadyInv

LEMMA EngineSteps ==
    ASSUME IInv, PlaceInv, TopicInv, [JointNext]_benchmark
    PROVE  [Next]_vars
<1>1. ASSUME NEW s \in Submissions, Announce(s) PROVE Next
  BY <1>1 DEF Announce, Next, Deploying
<1>2. ASSUME NEW h \in Deleters, DeleteArrives(h) PROVE Next
  <2>1. Tested \in Submissions
    BY <1>2, TestedAnnounced DEF DeleteArrives, Handling
  <2> QED
    BY <1>2, <2>1 DEF DeleteArrives, Next, Deleting
<1>3. CASE DeleteRefused \/ DeleteAnswered \/ DeleteLost \/ CoordinatorAlone
  BY <1>3 DEF DeleteRefused, DeleteAnswered, DeleteLost, CoordinatorAlone
<1> QED
  BY <1>1, <1>2, <1>3 DEF JointNext, Deletion, benchmark

LEMMA CoordinatorSteps ==
    ASSUME [JointNext]_benchmark PROVE [C!Next]_(C!vars)
<1>1. UNCHANGED coordinator => UNCHANGED C!vars
  BY DEF coordinator, C!vars, C!loop, C!fleet
<1>2. CASE EngineAlone \/ UNCHANGED benchmark
  BY <1>1, <1>2 DEF EngineAlone, benchmark
<1>3. ASSUME NEW s \in Submissions, Announce(s) PROVE C!Next
  BY <1>3 DEF Announce, C!Next
<1>4. ASSUME NEW h \in Deleters, DeleteArrives(h) PROVE UNCHANGED C!vars
  BY <1>1, <1>4 DEF DeleteArrives
<1>5. CASE DeleteRefused \/ DeleteAnswered \/ DeleteLost
  BY <1>5 DEF DeleteRefused, DeleteAnswered, DeleteLost, C!Next, C!Handler
<1> QED
  BY <1>2, <1>3, <1>4, <1>5 DEF JointNext, Deletion

LEMMA TopicStep ==
    ASSUME PlaceInv, TopicInv, IInv, [JointNext]_benchmark PROVE TopicInv'
<1>1. CASE UNCHANGED <<topic, published, ready>>
  BY <1>1 DEF TopicInv
<1>2. ASSUME NEW s \in Submissions, Announce(s) PROVE TopicInv'
  <2>1. /\ topic' = Append(topic, s) /\ published' = published + 1
        /\ ready' = ready \cup {[sub |-> s, port |-> port[s]]}
    BY <1>2 DEF Announce, Publish, C!Publish
  <2>2. topic' \in Seq(Submissions) /\ Len(topic') = published'
    BY <2>1 DEF TopicInv
  <2>3. \A o \in 1..published : topic'[o] = topic[o] /\ \E e \in ready' : e.sub = topic'[o]
    BY <2>1 DEF TopicInv
  <2>4. topic'[published'] = s /\ \E e \in ready' : e.sub = s
    <3>1. topic'[published'] = s
      BY <2>1 DEF TopicInv
    <3>2. [sub |-> s, port |-> port[s]] \in ready' /\ [sub |-> s, port |-> port[s]].sub = s
      BY <2>1
    <3> QED
      BY <3>1, <3>2
  <2>5. \A o \in 1..published' : o \in 1..published \/ o = published'
    BY <2>1 DEF PlaceInv
  <2> QED
    BY <2>2, <2>3, <2>4, <2>5 DEF TopicInv
<1>3. CASE EngineAlone \/ UNCHANGED benchmark
  BY <1>1, <1>3 DEF EngineAlone, coordinator, vars, between, benchmark
<1>4. ASSUME NEW h \in Deleters, DeleteArrives(h) PROVE UNCHANGED <<topic, published, ready>>
  BY <1>4 DEF DeleteArrives, StopSubmission, coordinator
<1>5. CASE DeleteRefused \/ DeleteAnswered \/ DeleteLost
  BY <1>1, <1>5 DEF DeleteRefused, DeleteAnswered, DeleteLost, C!Delete, vars, between
<1>6. CASE CoordinatorAlone
  BY <1>1, <1>6 DEF CoordinatorAlone, vars
<1> QED
  BY <1>1, <1>2, <1>3, <1>4, <1>5, <1>6 DEF JointNext, Deletion

JInv == IInv /\ PlaceInv /\ TopicInv

LEMMA JointStep == JInv /\ [JointNext]_benchmark => JInv' /\ [Next]_vars /\ [C!Next]_(C!vars)
<1> SUFFICES ASSUME JInv, [JointNext]_benchmark
             PROVE  JInv' /\ [Next]_vars /\ [C!Next]_(C!vars)
  OBVIOUS
<1>1. [Next]_vars /\ [C!Next]_(C!vars)
  BY EngineSteps, CoordinatorSteps DEF JInv
<1>2. ASSUME UNCHANGED C!vars PROVE PlaceInv'
  <2>1. UNCHANGED <<published, position, committed, pc, finished>>
    BY <1>2 DEF C!vars, C!loop
  <2> QED
    BY <2>1 DEF JInv, PlaceInv, C!Ended, C!Lives
<1>3. PlaceInv'
  BY <1>1, <1>2, PlaceStep DEF JInv
<1> QED
  BY <1>1, <1>3, InvStep, TopicStep DEF JInv

LEMMA JointInvariance == JointSpec => []JInv
<1>1. JointInit => JInv
  BY PlaceInit, InvInit DEF JointInit, JInv
<1> QED
  BY <1>1, JointStep, PTL DEF JointSpec

\* Whatever the coordinator asks for, and whenever it dies, the engine does what
\* SandboxEngine says of it: what is proved of the engine holds here.
THEOREM EngineIsSandbox == JointSpec => Spec
<1>1. JointInit => Init
  BY DEF JointInit
<1> QED
  BY <1>1, JointStep, JointInvariance, PTL DEF JointSpec, Spec

\* Whatever happens to the engine, the coordinator does what Coordinator says.
THEOREM CoordinatorIsCoordinator == JointSpec => C!Spec
<1>1. JointInit => C!Init
  BY DEF JointInit
<1> QED
  BY <1>1, JointStep, JointInvariance, PTL DEF JointSpec, C!Spec

(***************************************************************************)
(* What was tested is stopped                                              *)
(***************************************************************************)
\* A container whose deployment is over does not come back, and is not started
\* late.
LEMMA DeadStays ==
    ASSUME IInv, [Next]_vars, NEW s \in Submissions \ adrift, deploy[s] = "done", ~Alive(s)
    PROVE  ~Alive(s)'
<1>1. CASE Crash
  BY <1>1 DEF Crash, Alive
<1>2. ASSUME ~Crash PROVE ~Alive(s)'
  BY <1>2, OwnersStep DEF IInv, RunContainer, Goto
<1> QED
  BY <1>1, <1>2

\* One step of the engine and the request of the coordinator: nobody else takes
\* the slot of a request, and it ends only when the container has stopped.
LEMMA RequestStep ==
    ASSUME ~DockerErrors, IInv, NEW h \in Deleters, NEW s \in Submissions \ adrift,
           deploy[s] = "done",
           deleters[h].pc \in {"stop", "rm", "evict", "complete"},
           deleters[h].sub = s, deleters[h].route = "submissions",
           deleters[h].pc # "stop" => ~Alive(s),
           [Next]_vars, up'
    PROVE  \/ deleters'[h] = NoDeleter /\ ~Alive(s)'
           \/ /\ deleters'[h].pc \in {"stop", "rm", "evict", "complete"}
              /\ deleters'[h].sub = s /\ deleters'[h].route = "submissions"
              /\ deleters'[h].pc # "stop" => ~Alive(s)'
<1> DEFINE Goal ==
       \/ deleters'[h] = NoDeleter /\ ~Alive(s)'
       \/ /\ deleters'[h].pc \in {"stop", "rm", "evict", "complete"}
          /\ deleters'[h].sub = s /\ deleters'[h].route = "submissions"
          /\ deleters'[h].pc # "stop" => ~Alive(s)'
<1>1. deleters \in [Deleters -> Deleter] /\ deleters[h] \in Deleter
  BY DEF IInv, TypeOK
<1>2. ASSUME deleters'[h] = deleters[h] PROVE Goal
  BY <1>2, DeadStays
<1>3. ASSUME NEW g \in Deleters, Deleting(g), g # h PROVE Goal
  <2>1. deleters'[h] = deleters[h]
    BY <1>1, <1>3 DEF Deleting, StopSubmission, DeleteContainer, EvictProxy, DockerStop, DockerRm,
       DockerFails, SetCompleted, DeleterGoto, Done
  <2> QED
    BY <1>2, <2>1
<1>4. CASE Deleting(h)
  <2>1. \A to : /\ [deleters[h] EXCEPT !.pc = to].pc = to
                /\ [deleters[h] EXCEPT !.pc = to].sub = s
                /\ [deleters[h] EXCEPT !.pc = to].route = "submissions"
    BY <1>1 DEF Deleter
  <2>2. CASE EvictProxy(h)
    <3>1. deleters'[h] = [deleters[h] EXCEPT !.pc = "complete"] /\ deleters[h].pc = "evict"
      BY <1>1, <2>2 DEF EvictProxy, DeleterGoto
    <3> QED
      BY <2>1, <3>1, DeadStays
  <2>3. CASE DockerStop(h)
    <3>1. deleters'[h] = [deleters[h] EXCEPT !.pc = "rm"] /\ containers'[s] = "exited"
      BY <1>1, <2>3 DEF DockerStop, DeleterGoto, IInv, TypeOK
    <3> QED
      BY <2>1, <3>1 DEF Alive
  <2>4. CASE DockerRm(h)
    <3>1. deleters'[h] = [deleters[h] EXCEPT !.pc = "evict"] /\ containers'[s] = "removed"
      BY <1>1, <2>4 DEF DockerRm, DeleterGoto, IInv, TypeOK
    <3> QED
      BY <2>1, <3>1 DEF Alive
  <2>5. CASE DockerFails(h)
    <3>1. deleters'[h] = NoDeleter /\ ~Alive(s)
      BY <1>1, <2>5 DEF DockerFails, Done, Alive, Present
    <3> QED
      BY <3>1, DeadStays
  <2>6. CASE SetCompleted(h)
    <3>1. deleters'[h] = NoDeleter /\ ~Alive(s)
      BY <1>1, <2>6 DEF SetCompleted, Done
    <3> QED
      BY <3>1, DeadStays
  <2>7. ASSUME NEW t \in Submissions PROVE ~StopSubmission(h, t) /\ ~DeleteContainer(h, t)
    BY DEF StopSubmission, DeleteContainer
  <2> QED
    BY <1>4, <2>2, <2>3, <2>4, <2>5, <2>6, <2>7 DEF Deleting
<1>5. ASSUME NEW t \in Submissions,
             Submit(t) \/ Deploying(t) \/ ContainerExits(t) \/ RunLate(t)
      PROVE  Goal
  <2>1. deleters' = deleters
    BY <1>5, DeployOthers DEF IInv, Submit, ContainerExits, RunLate
  <2> QED
    BY <1>2, <2>1
<1>6. ASSUME NEW q \in Orders, Ordering(q) PROVE Goal
  BY <1>2, <1>6 DEF Ordering, ReadEndpoint, GetOrCreateProxy, Serve
<1>7. CASE Start \/ UNCHANGED vars
  BY <1>2, <1>7 DEF Start, vars
<1>8. ~Crash
  BY DEF Crash
<1> QED
  BY <1>3, <1>4, <1>5, <1>6, <1>7, <1>8 DEF Next

\* The topic and the lost requests only grow.
LEMMA History ==
    ASSUME JInv, [JointNext]_benchmark
    PROVE  undeleted \subseteq undeleted' /\ \A o \in 1..published : topic'[o] = topic[o]
<1>1. ASSUME NEW s \in Submissions, Announce(s)
      PROVE  undeleted' = undeleted /\ \A o \in 1..published : topic'[o] = topic[o]
  <2>1. topic' = Append(topic, s) /\ undeleted' = undeleted
    BY <1>1 DEF Announce
  <2> QED
    BY <2>1 DEF JInv, TopicInv
<1>2. ASSUME NEW h \in Deleters, DeleteArrives(h) PROVE UNCHANGED <<topic, undeleted>>
  BY <1>2 DEF DeleteArrives
<1>3. CASE EngineAlone \/ CoordinatorAlone \/ DeleteRefused \/ DeleteAnswered \/ DeleteLost
  BY <1>3 DEF EngineAlone, CoordinatorAlone, DeleteRefused, DeleteAnswered, DeleteLost, between
<1>4. CASE UNCHANGED benchmark
  BY <1>4 DEF benchmark, between
<1> QED
  BY <1>1, <1>2, <1>3, <1>4 DEF JointNext, Deletion

LEMMA StoppedStays ==
    ASSUME JInv, [JointNext]_benchmark, NEW o \in 1..published, Stopped(topic[o])
    PROVE  Stopped(topic[o])'
<1>1. PICK e \in ready : e.sub = topic[o]
  BY DEF JInv, TopicInv
<1>2. topic[o] \in Submissions \ adrift /\ deploy[topic[o]] = "done"
  BY <1>1 DEF JInv, TopicInv, IInv, ReadyInv, AdriftInv
<1>3. [Next]_vars
  BY JointStep
<1>4. undeleted \subseteq undeleted' /\ topic'[o] = topic[o]
  BY History
<1>5. ~Alive(topic[o]) => ~Alive(topic[o])'
  <2>1. ASSUME NEW s \in Submissions \ adrift, s = topic[o], ~Alive(s)
        PROVE  containers'[s] # "running"
    BY <1>2, <1>3, <2>1, DeadStays DEF JInv, Alive
  <2> QED
    BY <1>2, <1>4, <2>1 DEF Alive
<1> QED
  BY <1>4, <1>5 DEF Stopped

\* When the engine starts nothing runs.
LEMMA NothingRuns ==
    ASSUME ~DockerErrors, JInv, [Next]_vars, ~up, up'
    PROVE  \A s \in Submissions : ~Alive(s)'
<1>1. Start
  BY DeployOthers DEF JInv, IInv, Next, vars, Submit, ContainerExits, RunLate, Deleting,
     StopSubmission, DeleteContainer, EvictProxy, DockerStop, DockerRm, DockerFails, SetCompleted, Ordering,
     ReadEndpoint, GetOrCreateProxy, Serve, Crash
<1> QED
  BY <1>1 DEF Start, Alive

\* Who the coordinator waits for.
LEMMA RequestPlace ==
    ASSUME Waiting, JInv, [JointNext]_benchmark PROVE Waiting'
<1> SUFFICES ASSUME request' # None
             PROVE  /\ pc' = "delete" /\ request' \in Deleters \ Others
                    /\ ~up' => deleters'[request'] = NoDeleter
  BY DEF Waiting
<1>1. CASE EngineAlone
  <2>1. UNCHANGED <<request, pc>>
    BY <1>1 DEF EngineAlone, coordinator
  <2>2. ASSUME up, ~up' PROVE Crash
    BY <2>2, JointStep, DeployOthers DEF JInv, IInv, Next, vars, Submit, ContainerExits, RunLate, Deleting,
       StopSubmission, DeleteContainer, EvictProxy, DockerStop, DockerRm, DockerFails,
       SetCompleted, Ordering, ReadEndpoint, GetOrCreateProxy, Serve, Start
  <2>3. CASE ~up'
    BY <1>1, <2>1, <2>2, <2>3 DEF EngineAlone, Waiting, Crash
  <2> QED
    BY <2>1, <2>3 DEF Waiting
<1>2. ASSUME NEW s \in Submissions, Announce(s) PROVE UNCHANGED <<pc, request, up, deleters>>
  BY <1>2 DEF Announce, Publish, Goto, C!Publish
<1>3. ASSUME NEW h \in Deleters, DeleteArrives(h)
      PROVE  pc' = "delete" /\ request' \in Deleters \ Others /\ up'
  BY <1>3 DEF DeleteArrives, StopSubmission, coordinator
<1>4. CASE DeleteRefused \/ DeleteAnswered \/ DeleteLost
  BY <1>4 DEF DeleteRefused, DeleteAnswered, DeleteLost, between
<1>5. CASE CoordinatorAlone
  BY <1>5 DEF CoordinatorAlone, vars, Waiting
<1>6. CASE UNCHANGED benchmark
  BY <1>6 DEF benchmark, vars, coordinator, between, Waiting
<1> QED
  BY <1>1, <1>2, <1>3, <1>4, <1>5, <1>6 DEF JointNext, Deletion, Waiting

\* How the coordinator's step gets where the container has to be stopped: from
\* there, or by the answer to its DELETE.
LEMMA JudgedFrom ==
    ASSUME JInv, [JointNext]_benchmark, pc' \in Judged
    PROVE  /\ position' = position
           /\ pc \in Judged \/ DeleteRefused \/ DeleteAnswered \/ DeleteLost
<1>1. CASE EngineAlone \/ UNCHANGED benchmark
  BY <1>1 DEF EngineAlone, coordinator, benchmark
<1>2. ASSUME NEW s \in Submissions, Announce(s) PROVE UNCHANGED <<pc, position>>
  BY <1>2 DEF Announce, C!Publish, C!loop
<1>3. ASSUME NEW h \in Deleters, DeleteArrives(h) PROVE UNCHANGED <<pc, position>>
  BY <1>3 DEF DeleteArrives, coordinator
<1>4. CASE DeleteRefused \/ DeleteAnswered \/ DeleteLost
  BY <1>4 DEF DeleteRefused, DeleteAnswered, DeleteLost, C!Delete, C!loop
<1>5. CASE C!Next /\ CoordinatorAlone
  <2>1. ~C!Delete
    BY <1>5 DEF CoordinatorAlone, C!Delete, C!Goto
  <2> QED
    BY <1>5, <2>1, PlaceMoves DEF JInv
<1> QED
  BY <1>1, <1>2, <1>3, <1>4, <1>5 DEF JointNext, Deletion

\* A DELETE that is refused finds no container: the one that was announced is in
\* the record as long as the engine remembers the submission.
LEMMA RefusedIsStopped ==
    ASSUME JInv, OwnedInv, DeleteRefused, up PROVE ~Alive(Tested)
<1>1. pc \in Handling
  BY DEF DeleteRefused, C!Delete, C!Goto, Handling
<1>2. /\ Tested \in Submissions \ adrift /\ deploy[Tested] = "done"
      /\ Known(Tested) => Linked(Tested)
  BY <1>1, TestedAnnounced DEF JInv
<1>3. ~Known(Tested)
  BY <1>2, LinkedKnown DEF DeleteRefused
<1>4. ~Owns(Tested)
  BY <1>2, <1>3, LinkedKnown DEF Owns
<1> QED
  BY <1>2, <1>4 DEF OwnedInv

LEMMA DeleteStep ==
    ASSUME ~DockerErrors, JInv, OwnedInv, DeleteInv, [JointNext]_benchmark
    PROVE  DeleteInv'
<1>1. JInv' /\ [Next]_vars
  BY JointStep
<1>2. request' # None => /\ pc' = "delete" /\ request' \in Deleters \ Others
                         /\ ~up' => deleters'[request'] = NoDeleter
  BY RequestPlace DEF DeleteInv, Waiting
<1>3. ASSUME ~up, up' PROVE DeleteInv'
  <2>1. \A s \in Submissions : ~Alive(s)'
    BY <1>1, <1>3, NothingRuns
  <2>2. \A o \in 1..published' : Stopped(topic[o])'
    BY <1>1, <2>1 DEF JInv, TopicInv, Stopped
  <2>3. pc' \in Handling => Stopped(Tested)'
    BY <1>1, <2>2 DEF JInv, PlaceInv, Tested
  <2>4. request' # None => deleters'[request'] = NoDeleter
    <3>1. EngineAlone \/ UNCHANGED benchmark
      BY <1>3 DEF JointNext, Deletion, Announce, Publish, Goto, DeleteArrives, StopSubmission,
         DeleteRefused, DeleteAnswered, DeleteLost, CoordinatorAlone, vars
    <3> QED
      BY <1>3, <3>1 DEF EngineAlone, DeleteInv, Waiting, benchmark, vars
  <2> QED
    BY <1>2, <2>2, <2>3, <2>4 DEF DeleteInv, Waiting, RequestOK, Handling, Judged
<1>4. ASSUME up, up', NEW o \in 1..published', C!Ended(o)' PROVE Stopped(topic[o])'
  <2>1. C!Ended(o) \/ (o = position /\ pc = "cooldown")
    BY <1>4, CoordinatorSteps, EndsAtPause DEF C!vars, C!Ended, C!Lives
  <2>2. CASE C!Ended(o)
    BY <1>4, <2>2, StoppedStays DEF DeleteInv, Waiting, JInv, PlaceInv
  <2>3. CASE o = position /\ pc = "cooldown"
    <3>1. o \in 1..published /\ Stopped(topic[o])
      BY <1>4, <2>3 DEF DeleteInv, Waiting, JInv, PlaceInv, Judged, Handling, Tested
    <3> QED
      BY <3>1, StoppedStays
  <2> QED
    BY <2>1, <2>2, <2>3
<1>5. ASSUME up, up', pc' \in Judged PROVE Stopped(Tested)'
  <2>1. position' = position /\ (pc \in Judged \/ DeleteRefused \/ DeleteAnswered \/ DeleteLost)
    BY <1>5, JudgedFrom
  <2>2. pc \in Handling
    BY <2>1 DEF Judged, Handling, DeleteRefused, DeleteAnswered, DeleteLost, C!Delete, C!Goto
  <2>3. position \in 1..published
    BY <2>2 DEF JInv, PlaceInv
  <2>4. CASE pc \in Judged \/ DeleteRefused \/ DeleteAnswered
    <3>1. DeleteAnswered => Stopped(Tested)
      BY <1>5 DEF DeleteAnswered, DeleteInv, Waiting, RequestOK, NoDeleter
    <3>2. Stopped(topic[position])
      BY <1>5, <2>4, <3>1, RefusedIsStopped DEF DeleteInv, Waiting, Stopped, Tested
    <3> QED
      BY <2>1, <2>3, <3>2, StoppedStays DEF Tested
  <2>5. CASE DeleteLost
    BY <2>1, <2>5 DEF DeleteLost, Stopped, Tested
  <2> QED
    BY <2>1, <2>4, <2>5
<1>6. ASSUME up, up', request' # None PROVE RequestOK(deleters[request])'
  <2>1. ASSUME request' = request, position' = position
        PROVE  /\ Tested' = Tested /\ Tested \in Submissions \ adrift /\ deploy[Tested] = "done"
               /\ position \in 1..published /\ RequestOK(deleters[request])
               /\ Stopped(Tested) => Stopped(Tested)'
               /\ ~Alive(Tested) => ~Alive(Tested)'
    <3>1. pc \in Handling /\ RequestOK(deleters[request])
      BY <1>6, <2>1 DEF DeleteInv, Waiting, Handling
    <3>2. position \in 1..published
      BY <3>1 DEF JInv, PlaceInv
    <3>3. Tested' = Tested
      BY <2>1, <3>2, History DEF Tested
    <3>4. Tested \in Submissions \ adrift /\ deploy[Tested] = "done"
      BY <3>1, TestedAnnounced DEF JInv
    <3>5. Stopped(Tested) => Stopped(Tested)'
      BY <2>1, <3>2, StoppedStays DEF Tested
    <3>6. ASSUME NEW s \in Submissions \ adrift, s = Tested, ~Alive(s)
          PROVE  containers'[s] # "running"
      BY <1>1, <3>4, <3>6, DeadStays DEF JInv, Alive
    <3> QED
      BY <3>1, <3>2, <3>3, <3>4, <3>5, <3>6 DEF Alive
  <2>2. ASSUME request' = request, position' = position, deleters'[request] = deleters[request]
        PROVE  RequestOK(deleters[request])'
    BY <2>1, <2>2 DEF RequestOK
  <2>3. CASE EngineAlone
    <3>1. request' = request /\ position' = position
      BY <2>3 DEF EngineAlone, coordinator
    <3>2. request \in Deleters \ Others
      BY <1>2, <1>6, <3>1
    <3>3. CASE deleters[request] = NoDeleter
      BY <2>2, <2>3, <3>1, <3>2, <3>3 DEF EngineAlone
    <3>4. ASSUME deleters[request] # NoDeleter PROVE RequestOK(deleters[request])'
      <4> PICK s \in Submissions \ adrift : s = Tested
        BY <2>1, <3>1
      <4>1. /\ deleters[request].pc \in {"stop", "rm", "evict", "complete"}
            /\ deleters[request].sub = s /\ deleters[request].route = "submissions"
            /\ deleters[request].pc # "stop" => ~Alive(s)
            /\ deploy[s] = "done"
        BY <2>1, <3>1, <3>4 DEF RequestOK
      <4>2. Tested' = s
        BY <2>1, <3>1
      <4>3. \/ deleters'[request] = NoDeleter /\ ~Alive(s)'
            \/ /\ deleters'[request].pc \in {"stop", "rm", "evict", "complete"}
               /\ deleters'[request].sub = s /\ deleters'[request].route = "submissions"
               /\ deleters'[request].pc # "stop" => ~Alive(s)'
        BY <1>1, <1>6, <3>2, <4>1, RequestStep DEF JInv
      <4> QED
        BY <3>1, <4>2, <4>3 DEF RequestOK, Stopped, Alive
    <3> QED
      BY <3>3, <3>4
  <2>4. ASSUME NEW s \in Submissions, Announce(s) PROVE UNCHANGED <<request, position, deleters>>
    BY <2>4 DEF Announce, Publish, Goto, C!Publish, C!loop
  <2>5. ASSUME NEW h \in Deleters, DeleteArrives(h) PROVE RequestOK(deleters[request])'
    <3>1. /\ request' = h /\ position' = position /\ topic' = topic
          /\ deleters' = [deleters EXCEPT
                            ![h] = [pc |-> "stop", sub |-> Tested, route |-> "submissions"]]
      BY <2>5 DEF DeleteArrives, StopSubmission, coordinator
    <3>2. deleters'[h] = [pc |-> "stop", sub |-> Tested, route |-> "submissions"]
      BY <3>1 DEF JInv, IInv, TypeOK
    <3> QED
      BY <3>1, <3>2 DEF RequestOK, Tested
  <2>6. CASE DeleteRefused \/ DeleteAnswered \/ DeleteLost
    BY <1>6, <2>6 DEF DeleteRefused, DeleteAnswered, DeleteLost, between
  <2>7. CASE C!Next /\ CoordinatorAlone
    <3>1. pc' = "delete" /\ request' = request
      BY <1>2, <1>6, <2>7 DEF CoordinatorAlone
    <3>2. position' = position
      BY <2>7, <3>1, PlaceMoves DEF JInv
    <3> QED
      BY <2>2, <2>7, <3>1, <3>2 DEF CoordinatorAlone, vars
  <2>8. CASE UNCHANGED benchmark
    BY <2>2, <2>8 DEF benchmark, vars, coordinator, between
  <2> QED
    BY <2>2, <2>3, <2>4, <2>5, <2>6, <2>7, <2>8 DEF JointNext, Deletion
<1> QED
  BY <1>2, <1>3, <1>4, <1>5, <1>6 DEF DeleteInv, Waiting

\* If docker stop and docker rm do what they are asked to, no container runs
\* whose submission was tested to the end, unless the DELETE or its answer was
\* lost: in spite of crashes of the engine, of the coordinator, and of both.
THEOREM TestedStopped == ~DockerErrors /\ JointSpec => []TestedIsStopped
<1>1. JointInit => DeleteInv /\ OwnedInv
  BY PlaceInit DEF JointInit, Init, OwnedInv, Alive
<1>2. JInv /\ DeleteInv => TestedIsStopped
  BY DEF JInv, TopicInv, DeleteInv, TestedIsStopped, Stopped
<1>3. CASE ~DockerErrors
  <2>1. JInv /\ OwnedInv /\ DeleteInv /\ [JointNext]_benchmark => OwnedInv' /\ DeleteInv'
    BY <1>3, DeleteStep, JointStep, OwnedStep DEF JInv
  <2> QED
    BY <1>1, <1>2, <2>1, JointInvariance, PTL DEF JointSpec
<1>4. CASE DockerErrors
  BY <1>4
<1> QED
  BY <1>3, <1>4, NamesAssumption

(***************************************************************************)
(* Types, and how what the two processes hold fits together                *)
(***************************************************************************)
LEMMA SameCoordinator ==
    /\ C!Init <=> CP!Init
    /\ C!TypeOK <=> CP!TypeOK
    /\ [C!Next]_(C!vars) <=> [CP!Next]_(CP!vars)
<1> USE DEF C!Lives, CP!Lives, C!RunIDs, CP!RunIDs, C!Offsets, CP!Offsets, C!loop, CP!loop,
            C!fleet, CP!fleet, C!Run, CP!Run, C!Goto, CP!Goto, C!Fails, CP!Fails
<1>1. C!Init <=> CP!Init
  BY DEF C!Init, CP!Init
<1>2. C!TypeOK <=> CP!TypeOK
  BY DEF C!TypeOK, CP!TypeOK, C!Pc, CP!Pc, C!Inflight, CP!Inflight
<1>3. C!Publish <=> CP!Publish
  BY DEF C!Publish, CP!Publish
<1>4. C!Loop <=> CP!Loop
  BY DEF C!Loop, CP!Loop, C!Fetch, CP!Fetch, C!FetchCancelled, CP!FetchCancelled, C!Commit,
     CP!Commit, C!CommitFails, CP!CommitFails
<1>5. (C!Handler <=> CP!Handler) /\ (C!Delete <=> CP!Delete)
  BY DEF C!Handler, CP!Handler, C!Certify, CP!Certify, C!SetRun, CP!SetRun, C!SetRunFails,
     CP!SetRunFails, C!BotsReturned, CP!BotsReturned, C!Delete, CP!Delete, C!Judge, CP!Judge,
     C!UpdateStatus, CP!UpdateStatus, C!UpdateStatusFails, CP!UpdateStatusFails,
     C!Final, CP!Final, C!CooldownOver, CP!CooldownOver
<1>6. \A b \in Bots : /\ C!BotReturns(b) <=> CP!BotReturns(b)
                      /\ \A i \in Slots : C!Fire(b, i) <=> CP!Fire(b, i)
  BY DEF C!BotReturns, CP!BotReturns, C!Fire, CP!Fire
<1>7. \A o \in inflight : C!Answer(o) <=> CP!Answer(o)
  BY DEF C!Answer, CP!Answer
<1>8. (C!Tick <=> CP!Tick) /\ (C!Cancel <=> CP!Cancel) /\ (C!Crash <=> CP!Crash)
      /\ (C!Restart <=> CP!Restart)
  BY DEF C!Tick, CP!Tick, C!Cancel, CP!Cancel, C!Up, CP!Up, C!Crash, CP!Crash, C!Restart, CP!Restart
<1>9. C!vars = CP!vars /\ (C!vars' = CP!vars')
  BY DEF C!vars, CP!vars
<1>10. C!Next <=> CP!Next
  BY <1>3, <1>4, <1>5, <1>6, <1>7, <1>8 DEF C!Next, CP!Next
<1> QED
  BY <1>1, <1>2, <1>9, <1>10

LEMMA CoordinatorTypes == C!TypeOK /\ [C!Next]_(C!vars) => C!TypeOK'
<1>1. C!TypeOK' <=> CP!TypeOK'
  BY SameCoordinator, PTL
<1> QED
  BY <1>1, SameCoordinator, CP!TypesStep, FleetAssumption

OffsetsOf(s) == {o \in DOMAIN topic : topic[o] = s}
EventsOf(s)  == {e \in ready : e.sub = s}

BetweenInv ==
    /\ undeleted \subseteq Submissions /\ crashes \in 0..MaxCrashes
    /\ \A s \in Submissions : /\ IsFiniteSet(OffsetsOf(s)) /\ IsFiniteSet(EventsOf(s))
                              /\ Cardinality(OffsetsOf(s)) = Cardinality(EventsOf(s))
    \* the request waited for is served, or still of what was tested
    /\ request # None => \/ deleters[request] = NoDeleter
                         \/ deleters[request].pc # "idle" /\ deleters[request].sub = Tested

TypeInv == JInv /\ Waiting /\ C!TypeOK /\ BetweenInv

\* A request that is being served is served to its end, and no other takes its
\* place before.
LEMMA SubStays ==
    ASSUME IInv, [Next]_vars, NEW h \in Deleters, deleters[h].pc # "idle"
    PROVE  \/ deleters'[h] = NoDeleter
           \/ deleters'[h].pc # "idle" /\ deleters'[h].sub = deleters[h].sub
<1>1. deleters \in [Deleters -> Deleter] /\ deleters[h] \in Deleter
  BY DEF IInv, TypeOK
<1>2. ASSUME NEW g \in Deleters, Deleting(g), g # h PROVE deleters'[h] = deleters[h]
  BY <1>1, <1>2 DEF Deleting, StopSubmission, DeleteContainer, EvictProxy, DockerStop, DockerRm,
     DockerFails, SetCompleted, DeleterGoto, Done
<1>3. CASE Deleting(h)
  <2>1. ASSUME NEW to \in {"evict", "stop", "rm", "complete"}, DeleterGoto(h, to)
        PROVE  deleters'[h].pc # "idle" /\ deleters'[h].sub = deleters[h].sub
    BY <1>1, <2>1 DEF DeleterGoto, Deleter
  <2>2. Done(h) => deleters'[h] = NoDeleter
    BY <1>1 DEF Done
  <2> QED
    BY <1>3, <2>1, <2>2 DEF Deleting, StopSubmission, DeleteContainer, EvictProxy, DockerStop,
       DockerRm, DockerFails, SetCompleted
<1>4. ASSUME NEW t \in Submissions,
             Submit(t) \/ Deploying(t) \/ ContainerExits(t) \/ RunLate(t)
      PROVE  deleters' = deleters
  BY <1>4, DeployOthers DEF IInv, Submit, ContainerExits, RunLate
<1>5. ASSUME NEW q \in Orders, Ordering(q) PROVE deleters' = deleters
  BY <1>5 DEF Ordering, ReadEndpoint, GetOrCreateProxy, Serve
<1>6. CASE Start \/ UNCHANGED vars
  BY <1>6 DEF Start, vars
<1>7. CASE Crash
  BY <1>7 DEF Crash
<1> QED
  BY <1>2, <1>3, <1>4, <1>5, <1>6, <1>7 DEF Next

\* The topic holds an event of s per announcement.
LEMMA CountAnnounced ==
    ASSUME TypeInv, NEW s \in Submissions, Announce(s), NEW t \in Submissions
    PROVE  /\ IsFiniteSet(OffsetsOf(t)') /\ IsFiniteSet(EventsOf(t)')
           /\ Cardinality(OffsetsOf(t)') = Cardinality(EventsOf(t)')
<1> DEFINE e == [sub |-> s, port |-> port[s]]
           n == Len(topic) + 1
<1>1. /\ ready' = ready \cup {e} /\ e \notin ready
      /\ topic' = Append(topic, s) /\ topic \in Seq(Submissions)
  BY DEF Announce, Publish, TypeInv, JInv, TopicInv
<1>2. /\ DOMAIN topic = 1..Len(topic) /\ n \in Nat /\ DOMAIN topic' = 1..n
      /\ \A o \in 1..Len(topic) : topic'[o] = topic[o]
      /\ topic'[n] = s
  BY <1>1
<1>3. /\ IsFiniteSet(OffsetsOf(t)) /\ IsFiniteSet(EventsOf(t))
      /\ Cardinality(OffsetsOf(t)) = Cardinality(EventsOf(t))
  BY DEF TypeInv, BetweenInv
<1>4. CASE t = s
  <2>1. OffsetsOf(t)' = OffsetsOf(t) \cup {n} /\ n \notin OffsetsOf(t)
    BY <1>2, <1>4 DEF OffsetsOf
  <2>2. EventsOf(t)' = EventsOf(t) \cup {e} /\ e \notin EventsOf(t)
    BY <1>1, <1>4 DEF EventsOf
  <2>3. Cardinality(OffsetsOf(t)') = Cardinality(OffsetsOf(t)) + 1 /\ IsFiniteSet(OffsetsOf(t)')
    BY <1>3, <2>1, FS_AddElement
  <2>4. Cardinality(EventsOf(t)') = Cardinality(EventsOf(t)) + 1 /\ IsFiniteSet(EventsOf(t)')
    BY <1>3, <2>2, FS_AddElement
  <2> QED
    BY <1>3, <2>3, <2>4
<1>5. CASE t # s
  <2>1. OffsetsOf(t)' = OffsetsOf(t)
    BY <1>2, <1>5 DEF OffsetsOf
  <2>2. EventsOf(t)' = EventsOf(t)
    BY <1>1, <1>5 DEF EventsOf
  <2> QED
    BY <1>3, <2>1, <2>2
<1> QED
  BY <1>4, <1>5

LEMMA BetweenStep ==
    ASSUME TypeInv, [JointNext]_benchmark PROVE BetweenInv'
<1> USE DEF TypeInv
<1>1. JInv' /\ [Next]_vars /\ Waiting'
  BY JointStep, RequestPlace
<1>2. ASSUME UNCHANGED <<topic, ready>>
      PROVE  \A s \in Submissions : /\ IsFiniteSet(OffsetsOf(s)') /\ IsFiniteSet(EventsOf(s)')
                                    /\ Cardinality(OffsetsOf(s)') = Cardinality(EventsOf(s)')
  BY <1>2 DEF BetweenInv, OffsetsOf, EventsOf
\* The coordinator's place and the engine's record of its request.
<1>3. ASSUME request' = request, request # None, Tested' = Tested,
             deleters[request] = NoDeleter => deleters'[request] = NoDeleter
      PROVE  \/ deleters'[request'] = NoDeleter
             \/ deleters'[request'].pc # "idle" /\ deleters'[request'].sub = Tested'
  BY <1>1, <1>3, SubStays DEF BetweenInv, Waiting, JInv
<1>4. CASE EngineAlone
  <2>1. /\ UNCHANGED <<topic, ready, request, undeleted, position>>
        /\ crashes' \in 0..MaxCrashes
    BY <1>4, OthersAssumption DEF EngineAlone, BetweenInv, coordinator
  <2>2. request # None => (deleters[request] = NoDeleter => deleters'[request] = NoDeleter)
    BY <1>4 DEF EngineAlone, Waiting
  <2> QED
    BY <1>2, <1>3, <2>1, <2>2 DEF BetweenInv, Tested
<1>5. ASSUME NEW s \in Submissions, Announce(s) PROVE BetweenInv'
  <2>1. UNCHANGED <<request, undeleted, crashes, position, deleters>>
    BY <1>5 DEF Announce, Publish, Goto, C!Publish, C!loop
  <2>2. request # None => Tested' = Tested
    <3>1. request # None => position \in 1..published
      BY DEF Waiting, JInv, PlaceInv, Handling
    <3> QED
      BY <2>1, <3>1, History DEF Tested
  <2> QED
    BY <1>5, <2>1, <2>2, CountAnnounced DEF BetweenInv
<1>6. ASSUME NEW h \in Deleters, DeleteArrives(h) PROVE BetweenInv'
  <2>1. /\ request' = h /\ UNCHANGED <<topic, undeleted, crashes, position, ready>>
        /\ deleters' = [deleters EXCEPT
                          ![h] = [pc |-> "stop", sub |-> Tested, route |-> "submissions"]]
    BY <1>6 DEF DeleteArrives, StopSubmission, coordinator
  <2>2. deleters'[h].pc = "stop" /\ deleters'[h].sub = Tested
    BY <2>1 DEF JInv, IInv, TypeOK
  <2> QED
    BY <1>2, <2>1, <2>2 DEF BetweenInv, Tested
<1>7. CASE DeleteRefused \/ DeleteAnswered \/ DeleteLost
  <2>1. Tested \in Submissions
    BY <1>7, TestedAnnounced
       DEF JInv, DeleteRefused, DeleteAnswered, DeleteLost, C!Delete, C!Goto, Handling
  <2>2. /\ UNCHANGED <<topic, crashes, ready>> /\ request' = None
        /\ undeleted' \subseteq undeleted \cup {Tested}
    BY <1>7 DEF DeleteRefused, DeleteAnswered, DeleteLost, vars, between
  <2> QED
    BY <1>2, <2>1, <2>2 DEF BetweenInv
<1>8. CASE C!Next /\ CoordinatorAlone
  <2>1. /\ UNCHANGED <<topic, crashes, ready, undeleted, deleters>>
        /\ request' = IF pc' = "delete" THEN request ELSE None
    BY <1>8 DEF CoordinatorAlone, vars
  <2>2. pc' = "delete" => position' = position
    BY <1>8, PlaceMoves DEF JInv
  <2>3. request' # None => request' = request /\ Tested' = Tested
    BY <2>1, <2>2 DEF Tested
  <2> QED
    BY <1>2, <1>3, <2>1, <2>3 DEF BetweenInv
<1>9. CASE UNCHANGED benchmark
  <2>1. UNCHANGED <<topic, crashes, ready, undeleted, deleters, request, position>>
    BY <1>9 DEF benchmark, vars, coordinator, between
  <2> QED
    BY <1>2, <2>1 DEF BetweenInv, Tested
<1> QED
  BY <1>4, <1>5, <1>6, <1>7, <1>8, <1>9 DEF JointNext, Deletion

\* The events on the topic are what the engine announced, once each, and the
\* coordinator waits for the DELETE of the submission it tested and for no other,
\* whichever process dies in between.
THEOREM JointTypes == JointSpec => []JointTypeOK
<1>1. JointInit => TypeInv
  <2> SUFFICES ASSUME JointInit PROVE TypeInv
    OBVIOUS
  <2>1. JInv /\ Waiting
    BY PlaceInit, InvInit DEF JointInit, JInv, DeleteInv
  <2>2. C!TypeOK
    BY SameCoordinator, CP!TypesInit, FleetAssumption DEF JointInit
  <2>3. \A s \in Submissions : OffsetsOf(s) = {} /\ EventsOf(s) = {}
    BY DEF JointInit, Init, OffsetsOf, EventsOf
  <2>4. IsFiniteSet({})
    BY FS_EmptySet
  <2>5. undeleted \subseteq Submissions /\ crashes \in 0..MaxCrashes /\ request = None
    BY OthersAssumption DEF JointInit
  <2> QED
    BY <2>1, <2>2, <2>3, <2>4, <2>5 DEF TypeInv, BetweenInv
<1>2. TypeInv /\ [JointNext]_benchmark => TypeInv'
  BY JointStep, RequestPlace, CoordinatorTypes, BetweenStep DEF TypeInv
<1>3. TypeInv => JointTypeOK
  <2> SUFFICES ASSUME TypeInv PROVE JointTypeOK
    OBVIOUS
  <2>1. TypeOK /\ C!TypeOK /\ topic \in Seq(Submissions) /\ Len(topic) = published
    BY DEF TypeInv, JInv, IInv, TopicInv
  <2>2. /\ request \in (Deleters \ Others) \cup {None} /\ undeleted \subseteq Submissions
        /\ crashes \in 0..MaxCrashes
    BY DEF TypeInv, Waiting, BetweenInv
  <2>3. \A s \in Submissions : Cardinality({o \in DOMAIN topic : topic[o] = s})
                                = Cardinality({e \in ready : e.sub = s})
    BY DEF TypeInv, BetweenInv, OffsetsOf, EventsOf
  <2>4. request # None => pc = "delete" /\ deleters[request].sub \in {None, topic[position]}
    BY DEF TypeInv, Waiting, BetweenInv, NoDeleter, Tested
  <2> QED
    BY <2>1, <2>2, <2>3, <2>4 DEF JointTypeOK
<1> QED
  BY <1>1, <1>2, <1>3, PTL DEF JointSpec
=============================================================================

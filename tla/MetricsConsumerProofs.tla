----------------------- MODULE MetricsConsumerProofs -----------------------
(***************************************************************************)
(* Theorems about the telemetry consumer, for any number of runs, teams,   *)
(* messages, restarts and failures, any batch size and any delay.          *)
(***************************************************************************)
EXTENDS MetricsConsumer, TLAPS

LP == INSTANCE LeaderboardProofs

(***************************************************************************)
(* The score tasks and what is registered for them.                        *)
(***************************************************************************)
\* A process that has ended keeps nothing in memory.
DeadIsEmpty == ~Up =>
    /\ batch_buffer = {} /\ \A w \in Writers : inserts[w] = {}
    /\ \A o \in Offsets : task[o] = NoTask
    /\ \A r \in Runs : run_score_tasks[r] = 0 /\ ~L!Updating(r)

\* A task belongs to a message received in this life, and so
\* does the flush that the loop awaits.
TaskConsumed ==
    /\ \A o \in Offsets : task[o].pc # "none" => o \in started + 1..position
    /\ main = "flush" => position > started

\* A live task is the registered one of its run.
Registered == \A o \in Offsets : Live(o) => run_score_tasks[log[o]] = o
RegisteredRun == \A r \in Runs :
    run_score_tasks[r] # 0 => /\ run_score_tasks[r] \in started + 1..position
                              /\ log[run_score_tasks[r]] = r

\* update_leaderboard runs in the registered task, in its last part.
UpdateOwned ==
    /\ \A r \in Runs : L!Updating(r) =>
          run_score_tasks[r] # 0 /\ task[run_score_tasks[r]].pc = "update"
    /\ \A o \in Offsets : task[o].pc = "update" => L!Updating(log[o])

\* A newer message of the run of a live task is the one whose flush the loop
\* awaits, or awaited when it ended.
Newest == \A o \in Offsets : Live(o) =>
    \A n \in Consumed(log[o]) : n <= o \/ (n = position /\ main # "poll")

\* What is left to sleep and the silence of the run make up the delay.
Timers == \A o \in Offsets :
    task[o].pc = "sleep" => silence[log[o]] + task[o].timer >= Delay

ScorerInv == /\ DeadIsEmpty /\ TaskConsumed /\ Registered /\ RegisteredRun /\ UpdateOwned
             /\ Newest /\ Timers /\ ScoresInSilence

\* A step of update_leaderboard keeps the types.
LEMMA RedisTypes ==
    ASSUME L!TypeOK, [L!Next]_(L!vars)
    PROVE  L!TypeOK'
<1> USE TeamOfAssumption, ScoresAssumption
    DEF L!TypeOK, L!Update, L!NoUpdate, L!Document
<1>1. ASSUME NEW r \in Runs, L!ZScore(r) PROVE L!TypeOK'
  BY <1>1 DEF L!ZScore
<1>2. ASSUME NEW r \in Runs, L!ZAdd(r) PROVE L!TypeOK'
  BY <1>2 DEF L!ZAdd
<1>3. ASSUME NEW r \in Runs, L!SetDetail(r) PROVE L!TypeOK'
  BY <1>3 DEF L!SetDetail
<1>4. ASSUME NEW R \in SUBSET Runs, L!Abort(R) PROVE L!TypeOK'
  BY <1>4 DEF L!Abort
<1>5. ASSUME NEW r \in Runs, NEW s \in Scores, L!Begin(r, s) PROVE L!TypeOK'
  BY <1>5 DEF L!Begin
<1>6. CASE UNCHANGED L!vars
  BY <1>6 DEF L!vars
<1> QED
  BY <1>1, <1>2, <1>3, <1>4, <1>5, <1>6 DEF L!Next, L!Step

\* Every step of the consumer is a step of update_leaderboard, or none.
LEMMA RedisStep ==
    ASSUME TypeOK, TaskConsumed, [Next]_vars
    PROVE  [L!Next]_(L!vars)
<1> USE DEF redis, L!vars
<1>0. ASSUME NEW o \in Offsets, task[o].pc # "none" PROVE log[o] \in Runs
  BY <1>0 DEF TypeOK, TaskConsumed, Offsets
<1>1. ASSUME NEW o \in 1..Len(log), Register(o) PROVE [L!Next]_(L!vars)
  <2>1. CASE UNCHANGED redis
    BY <2>1
  <2>2. CASE L!Abort({log[o]})
    <3>1. log[o] \in Runs
      BY <1>1 DEF TypeOK
    <3> QED
      BY <2>2, <3>1 DEF L!Next
  <2> QED
    BY <1>1, <2>1, <2>2 DEF Register
<1>2. ASSUME NEW how, Die(how) PROVE [L!Next]_(L!vars)
  BY <1>2 DEF Die, L!Next
<1>3. CASE Receive
  <2>1. position + 1 \in 1..Len(log)
    BY <1>3 DEF Receive, TypeOK
  <2> QED
    BY <1>3, <1>1, <2>1 DEF Receive
<1>4. CASE Resume
  <2>1. position \in 1..Len(log)
    BY <1>4 DEF Resume, TypeOK, TaskConsumed
  <2> QED
    BY <1>4, <1>1, <2>1 DEF Resume
<1>5. ASSUME NEW o \in Offsets, Compute(o) PROVE [L!Next]_(L!vars)
  BY <1>5, <1>0 DEF Compute, L!Next
<1>6. ASSUME NEW o \in Offsets, Publishing(o) PROVE [L!Next]_(L!vars)
  BY <1>6, <1>0 DEF Publishing, L!Next
<1>7. ASSUME NEW o \in Offsets, TaskFails(o) PROVE [L!Next]_(L!vars)
  BY <1>7, <1>0 DEF TaskFails, L!Next
<1>8. CASE Exit \/ Crash
  BY <1>8, <1>2 DEF Exit, Crash
<1>9. ASSUME UNCHANGED redis PROVE [L!Next]_(L!vars)
  BY <1>9
<1> QED
  BY <1>3, <1>4, <1>5, <1>6, <1>7, <1>8, <1>9
     DEF Next, vars, Publish, Consume, AutoCommit, EndLoop, InterruptFlush, Stop, InsertDone, InsertFail,
         Scoring, Wake, FlushDone, Tick, Restart

LEMMA RegisterTypes ==
    ASSUME TypeOK, NEW o \in 1..Len(log), Register(o)
    PROVE  /\ silence' \in [Runs -> 0..Delay]
           /\ task' \in [Offsets -> Task]
           /\ run_score_tasks' = [run_score_tasks EXCEPT ![log[o]] = o]
           /\ log[o] \in Runs
<1>1. log[o] \in Runs
  BY DEF TypeOK
<1>2. [pc |-> "sleep", timer |-> Delay] \in Task /\ [pc |-> "over", timer |-> 0] \in Task
  BY BoundsAssumption DEF Task
<1> QED
  BY <1>1, <1>2, BoundsAssumption DEF TypeOK, Register

LEMMA TypeStep ==
    ASSUME TypeOK, TaskConsumed, [Next]_vars
    PROVE  TypeOK'
<1>0. L!TypeOK'
  BY RedisStep, RedisTypes DEF TypeOK
<1> USE <1>0, BoundsAssumption DEF TypeOK, Offsets, Writers, MainPc
<1>1. ASSUME NEW r \in Runs, Publish(r) PROVE TypeOK'
  BY <1>1 DEF Publish, memory
<1>2. CASE Receive
  <2>1. position + 1 \in 1..Len(log)
    BY <1>2 DEF Receive
  <2>2. /\ position' \in 0..Len(log) /\ position <= position'
        /\ batch_buffer \cup {position + 1} \subseteq Offsets
        /\ UNCHANGED <<log, committed, started, order_metrics, failed, scored, restarts, failures>>
    BY <1>2, <2>1 DEF Receive
  <2>3. batch_buffer' \subseteq Offsets /\ inserts' \in [Writers -> SUBSET Offsets]
    BY <1>2, <2>2 DEF Receive
  <2>4. main' \in MainPc
    BY <1>2 DEF Receive
  <2>5. /\ silence' \in [Runs -> 0..Delay] /\ task' \in [Offsets -> Task]
        /\ run_score_tasks' \in [Runs -> Writers]
    <3>1. CASE Register(position + 1)
      <4>1. run_score_tasks' = [run_score_tasks EXCEPT ![log[position + 1]] = position + 1]
        BY <2>1, <3>1, RegisterTypes
      <4>2. position + 1 \in Writers
        BY <2>1
      <4> QED
        BY <2>1, <3>1, <4>1, <4>2, RegisterTypes
    <3>2. CASE UNCHANGED <<silence, run_score_tasks, task, redis>>
      BY <3>2
    <3> QED
      BY <1>2, <3>1, <3>2 DEF Receive
  <2> QED
    BY <2>2, <2>3, <2>4, <2>5
<1>3. CASE Resume
  <2>1. position \in 1..Len(log)
    BY <1>3 DEF Resume, TaskConsumed
  <2>2. Register(position)
    BY <1>3 DEF Resume
  <2>3. /\ silence' \in [Runs -> 0..Delay] /\ task' \in [Offsets -> Task]
        /\ run_score_tasks' = [run_score_tasks EXCEPT ![log[position]] = position]
    BY <2>1, <2>2, RegisterTypes
  <2>4. run_score_tasks' \in [Runs -> Writers]
    BY <2>1, <2>3
  <2> QED
    BY <1>3, <2>3, <2>4 DEF Resume
<1>4. CASE AutoCommit
  <2>1. committed' = position /\ UNCHANGED <<log, position, started, order_metrics, failed,
            scored, restarts, failures, batch_buffer, inserts, main, silence, run_score_tasks, task>>
    BY <1>4 DEF AutoCommit, memory
  <2> QED
    BY <2>1
<1>5. CASE EndLoop
  BY <1>5 DEF EndLoop
<1>6. CASE Stop \/ InterruptFlush
  <2>1. main' = "stopping" /\ committed' = position
        /\ UNCHANGED <<log, position, started, batch_buffer, inserts, order_metrics, failed,
                       silence, run_score_tasks, task, scored, restarts, failures>>
    BY <1>6 DEF Stop, InterruptFlush
  <2> QED
    BY <2>1
<1>7. ASSUME NEW how \in {"exited", "crashed"}, Die(how), order_metrics' \in [Offsets -> Nat],
             UNCHANGED committed
      PROVE  TypeOK'
  <2>1. NoTask \in Task
    BY DEF NoTask, Task
  <2> QED
    BY <1>7, <2>1 DEF Die
<1>8. CASE Exit
  BY <1>8, <1>7 DEF Exit
<1>9. ASSUME NEW rows, Insert(rows) PROVE order_metrics' \in [Offsets -> Nat]
  BY <1>9 DEF Insert
<1>10. CASE Crash
  BY <1>10, <1>7, <1>9 DEF Crash
<1>11. ASSUME NEW w \in Writers, InsertDone(w) PROVE TypeOK'
  BY <1>11, <1>9 DEF InsertDone
<1>12. ASSUME NEW w \in Writers, InsertFail(w) PROVE TypeOK'
  <2>1. task' \in [Offsets -> Task]
    BY <1>12 DEF InsertFail, Task
  <2> QED
    BY <1>12, <2>1 DEF InsertFail
<1>13. ASSUME NEW o \in Offsets,
              NEW pc \in {"none", "sleep", "flush", "score", "update", "done", "over"}, TaskStep(o, pc)
       PROVE  task' \in [Offsets -> Task]
  BY <1>13 DEF TaskStep, Task
<1>14. ASSUME NEW o \in Offsets, Wake(o) PROVE TypeOK'
  <2>1. task' \in [Offsets -> Task]
    BY <1>14, <1>13 DEF Wake
  <2>2. batch_buffer' \subseteq Offsets /\ inserts' \in [Writers -> SUBSET Offsets]
    BY <1>14 DEF Wake
  <2>3. UNCHANGED <<log, position, committed, started, order_metrics, failed, main, restarts,
                    failures, silence, run_score_tasks, scored>>
    BY <1>14 DEF Wake, TaskStep
  <2> QED
    BY <2>1, <2>2, <2>3
<1>15. ASSUME NEW o \in Offsets, FlushDone(o) PROVE TypeOK'
  BY <1>15, <1>13 DEF FlushDone, TaskStep
<1>16. ASSUME NEW o \in Offsets, Compute(o) PROVE TypeOK'
  BY <1>16, <1>13 DEF Compute, TaskStep
<1>17. ASSUME NEW o \in Offsets, Publishing(o) PROVE TypeOK'
  <2>1. task' \in [Offsets -> Task]
    BY <1>17, <1>13 DEF Publishing
  <2>2. silence' \in [Runs -> 0..Delay] /\ run_score_tasks' \in [Runs -> Writers]
    <3>1. CASE /\ silence' = [silence EXCEPT ![log[o]] = Delay]
               /\ run_score_tasks' = [run_score_tasks EXCEPT ![log[o]] = 0]
      <4>1. Delay \in 0..Delay /\ 0 \in Writers
        OBVIOUS
      <4>2. silence' \in [Runs -> 0..Delay]
        BY <3>1, <4>1
      <4>3. run_score_tasks' \in [Runs -> Writers]
        BY <3>1, <4>1
      <4> QED
        BY <4>2, <4>3
    <3>2. CASE UNCHANGED <<silence, run_score_tasks>>
      BY <3>2
    <3> QED
      BY <1>17, <3>1, <3>2 DEF Publishing
  <2>3. UNCHANGED <<log, position, committed, started, order_metrics, failed, main, restarts,
                    failures, batch_buffer, inserts, scored>>
    BY <1>17 DEF Publishing, TaskStep
  <2> QED
    BY <2>1, <2>2, <2>3
<1>18. ASSUME NEW o \in Offsets, TaskFails(o) PROVE TypeOK'
  <2>1. task' \in [Offsets -> Task]
    BY <1>18 DEF TaskFails, Task
  <2> QED
    <3>1. failures' \in 0..MaxFailures
      BY <1>18 DEF TaskFails
    <3>2. UNCHANGED <<log, position, committed, started, batch_buffer, inserts, order_metrics,
                      failed, main, silence, run_score_tasks, scored, restarts>>
      BY <1>18 DEF TaskFails
    <3> QED
      BY <2>1, <3>1, <3>2
<1>19. CASE Tick
  <2>1. task' \in [Offsets -> Task]
    <3> SUFFICES ASSUME NEW o \in Offsets
                 PROVE  (IF task[o].timer > 0 THEN [task[o] EXCEPT !.timer = @ - 1]
                         ELSE task[o]) \in Task
      BY <1>19 DEF Tick
    <3>1. task[o] \in Task
      OBVIOUS
    <3>2. CASE task[o].timer > 0
      <4>1. task[o].timer - 1 \in 0..Delay
        BY <3>1, <3>2 DEF Task
      <4> QED
        BY <3>1, <3>2, <4>1 DEF Task
    <3> QED
      BY <3>1, <3>2
  <2>2. silence' \in [Runs -> 0..Delay]
    BY <1>19 DEF Tick
  <2> QED
    BY <1>19, <2>1, <2>2 DEF Tick
<1>20. CASE Restart
  BY <1>20 DEF Restart
<1>21. CASE UNCHANGED vars
  BY <1>21 DEF vars, memory
<1> QED
  BY <1>1, <1>2, <1>3, <1>4, <1>5, <1>6, <1>8, <1>10, <1>11, <1>12, <1>14, <1>15, <1>16,
     <1>17, <1>18, <1>19, <1>20, <1>21 DEF Next, Consume, Scoring

\* How the steps of update_leaderboard move the calls that are on their way.
LEMMA UpdatingMoves ==
    ASSUME L!TypeOK, NEW r \in Runs
    PROVE  /\ L!Step(r) => L!Updating(r) /\ \A q \in Runs \ {r} : L!Updating(q)' = L!Updating(q)
           /\ \A s \in Scores : L!Begin(r, s) =>
                 L!Updating(r)' /\ \A q \in Runs \ {r} : L!Updating(q)' = L!Updating(q)
           /\ L!Abort({r}) =>
                 ~L!Updating(r)' /\ \A q \in Runs \ {r} : L!Updating(q)' = L!Updating(q)
BY DEF L!TypeOK, L!Step, L!ZScore, L!ZAdd, L!SetDetail, L!Begin, L!Abort, L!Updating, L!NoUpdate

\* Registering a message keeps the invariant: the only task that can be live for
\* the run is the registered one, and it is cancelled.
LEMMA RegisterScorer ==
    ASSUME TypeOK, ScorerInv, Up, log' = log, started' = started,
           NEW o \in started + 1..Len(log), position' = o, Register(o),
           (main = "poll" /\ o = position + 1) \/ o = position,
           main' \in {"poll", "flush"}
    PROVE  ScorerInv'
<1> DEFINE r == log[o]
           old == run_score_tasks[r]
<1>1. r \in Runs /\ o \in Offsets /\ Up'
  <2>1. o \in 1..Len(log) /\ o \in Offsets
    BY BoundsAssumption DEF TypeOK, Offsets
  <2>2. r \in Runs
    BY <2>1 DEF TypeOK
  <2>3. Up'
    BY DEF Up
  <2> QED
    BY <2>1, <2>2, <2>3
<1>2. \A n \in Offsets : Live(n) /\ log[n] = r => n = old
  BY DEF ScorerInv, Registered
<1>3. task' = [n \in Offsets |->
                 IF n = o THEN [pc |-> "sleep", timer |-> Delay]
                 ELSE IF n = old /\ Live(n) THEN [pc |-> "over", timer |-> 0] ELSE task[n]]
  BY DEF Register
<1>4. \A n \in Offsets \ {o} : Live(n)' => Live(n) /\ log[n] # r /\ task'[n] = task[n]
  <2> SUFFICES ASSUME NEW n \in Offsets \ {o}, Live(n)'
               PROVE  Live(n) /\ log[n] # r /\ task'[n] = task[n]
    OBVIOUS
  <2>1. task'[n] = IF n = old /\ Live(n) THEN [pc |-> "over", timer |-> 0] ELSE task[n]
    BY <1>3
  <2>2. ~(n = old /\ Live(n))
    BY <2>1 DEF Live
  <2>3. task'[n] = task[n]
    BY <2>1, <2>2
  <2>4. Live(n)
    BY <2>3 DEF Live
  <2> QED
    BY <1>2, <2>2, <2>3, <2>4
<1>5. /\ run_score_tasks' = [run_score_tasks EXCEPT ![r] = o]
      /\ silence' = [silence EXCEPT ![r] = 0]
  BY DEF Register
<1>6. /\ task'[o].pc = "sleep" /\ task'[o].timer = Delay /\ Live(o)'
      /\ o > started /\ o \in Nat
  BY <1>1, <1>3 DEF Live, TypeOK
<1>7. run_score_tasks'[r] = o /\ \A q \in Runs \ {r} : run_score_tasks'[q] = run_score_tasks[q]
  BY <1>1, <1>5 DEF TypeOK
<1>8. DeadIsEmpty'
  BY <1>1 DEF DeadIsEmpty
<1>9. TaskConsumed'
  <2>1. \A n \in Offsets : task'[n].pc # "none" => task[n].pc # "none" \/ n = o
    BY <1>3 DEF Live
  <2> QED
    BY <1>6, <2>1 DEF TaskConsumed, ScorerInv, TypeOK
<1>10. Registered'
  <2> SUFFICES ASSUME NEW n \in Offsets, Live(n)' PROVE run_score_tasks'[log[n]] = n
    BY DEF Registered
  <2>1. CASE n = o
    BY <2>1, <1>7
  <2>2. CASE n # o
    <3>1. Live(n) /\ log[n] # r
      BY <2>2, <1>4
    <3>2. log[n] \in Runs /\ run_score_tasks[log[n]] = n
      BY <3>1 DEF ScorerInv, TaskConsumed, Registered, TypeOK, Live, Offsets
    <3> QED
      BY <3>1, <3>2, <1>7
  <2> QED
    BY <2>1, <2>2
<1>11. RegisteredRun'
  <2> SUFFICES ASSUME NEW q \in Runs, run_score_tasks'[q] # 0
               PROVE  /\ run_score_tasks'[q] \in started + 1..o
                      /\ log[run_score_tasks'[q]] = q
    BY DEF RegisteredRun
  <2>1. CASE q = r
    BY <2>1, <1>6, <1>7 DEF TypeOK
  <2>2. CASE q # r
    <3>1. run_score_tasks[q] \in started + 1..position /\ log[run_score_tasks[q]] = q
      BY <2>2, <1>7 DEF RegisteredRun, ScorerInv
    <3>2. position <= o
      BY <1>6 DEF TypeOK
    <3> QED
      BY <2>2, <3>1, <3>2, <1>7 DEF TypeOK
  <2> QED
    BY <2>1, <2>2
<1>12. UpdateOwned'
  <2>1. /\ ~L!Updating(r)'
        /\ \A q \in Runs \ {r} : L!Updating(q)' = L!Updating(q)
    <3>1. CASE old # 0 /\ task[old].pc = "update"
      <4>1. L!Abort({r})
        BY <3>1 DEF Register
      <4> QED
        BY <4>1, <1>1, UpdatingMoves DEF TypeOK
    <3>2. CASE ~(old # 0 /\ task[old].pc = "update")
      <4>1. UNCHANGED redis
        BY <3>2 DEF Register
      <4>2. ~L!Updating(r)
        BY <3>2, <1>1 DEF ScorerInv, UpdateOwned
      <4> QED
        BY <4>1, <4>2 DEF redis, L!Updating
    <3> QED
      BY <3>1, <3>2
  <2>2. ASSUME NEW q \in Runs, L!Updating(q)'
        PROVE  run_score_tasks'[q] # 0 /\ task'[run_score_tasks'[q]].pc = "update"
    <3> DEFINE n == run_score_tasks[q]
    <3>1. q # r /\ L!Updating(q)
      BY <2>1, <2>2
    <3>2. n # 0 /\ task[n].pc = "update" /\ log[n] = q /\ n \in Offsets
      <4>1. n # 0 /\ task[n].pc = "update"
        BY <3>1 DEF ScorerInv, UpdateOwned
      <4>2. log[n] = q
        BY <4>1 DEF ScorerInv, RegisteredRun
      <4>3. n \in Offsets
        BY <4>1, BoundsAssumption DEF TypeOK, Writers, Offsets
      <4> QED
        BY <4>1, <4>2, <4>3
    <3>3. n # o /\ n # old
      <4>1. n # o
        BY <3>1, <3>2
      <4>2. old = n => log[old] = r
        BY <3>2, <1>1 DEF ScorerInv, RegisteredRun
      <4> QED
        BY <4>1, <4>2, <3>1, <3>2
    <3>4. task'[n] = task[n]
      BY <1>3, <3>2, <3>3
    <3> QED
      BY <1>7, <3>1, <3>2, <3>4
  <2>3. ASSUME NEW n \in Offsets, task'[n].pc = "update" PROVE L!Updating(log[n])'
    <3>1. n # o
      BY <1>6, <2>3
    <3>2. Live(n) /\ log[n] # r /\ task'[n] = task[n]
      BY <2>3, <3>1, <1>4 DEF Live
    <3>3. log[n] \in Runs /\ L!Updating(log[n])
      BY <2>3, <3>2 DEF ScorerInv, TaskConsumed, UpdateOwned, TypeOK, Live, Offsets
    <3> QED
      BY <2>1, <3>2, <3>3
  <2> QED
    BY <2>2, <2>3 DEF UpdateOwned
<1>13. Newest'
  <2> SUFFICES ASSUME NEW n \in Offsets, Live(n)', NEW m \in Consumed(log[n])'
               PROVE  m <= n
    BY DEF Newest
  <2>1. m \in started + 1..o /\ log[m] = log[n]
    BY DEF Consumed
  <2>2. CASE n = o
    BY <2>1, <2>2, <1>6 DEF TypeOK
  <2>3. CASE n # o
    <3>1. Live(n) /\ log[n] # r
      BY <2>3, <1>4
    <3>2. m # o /\ m \in started + 1..position
      BY <2>1, <3>1, <1>6 DEF TypeOK
    <3>3. m \in Consumed(log[n])
      BY <2>1, <3>2 DEF Consumed
    <3>4. m <= n \/ (m = position /\ main # "poll")
      BY <3>1, <3>3 DEF ScorerInv, Newest
    <3> QED
      BY <3>2, <3>4
  <2> QED
    BY <2>2, <2>3
<1>14. Timers'
  <2> SUFFICES ASSUME NEW n \in Offsets, task'[n].pc = "sleep"
               PROVE  silence'[log[n]] + task'[n].timer >= Delay
    BY DEF Timers
  <2>1. CASE n = o
    BY <2>1, <1>1, <1>5, <1>6, BoundsAssumption DEF TypeOK
  <2>2. CASE n # o
    <3>1. Live(n) /\ log[n] # r /\ task'[n] = task[n]
      BY <2>2, <1>4 DEF Live
    <3>2. log[n] \in Runs
      <4>1. n \in started + 1..position
        BY <3>1 DEF ScorerInv, TaskConsumed, Live
      <4> QED
        BY <4>1 DEF TypeOK
    <3>3. silence'[log[n]] = silence[log[n]]
      BY <1>5, <3>1, <3>2 DEF TypeOK
    <3>4. task[n].pc = "sleep" /\ silence[log[n]] + task[n].timer >= Delay
      BY <3>1 DEF ScorerInv, Timers
    <3> QED
      BY <3>1, <3>3, <3>4
  <2> QED
    BY <2>1, <2>2
<1>15. ScoresInSilence'
  <2> SUFFICES ASSUME NEW n \in Offsets, task'[n].pc \in {"flush", "score", "update"}
               PROVE  silence'[log[n]] = Delay
    BY DEF ScoresInSilence
  <2>1. n # o
    BY <1>6
  <2>2. Live(n) /\ log[n] # r /\ task'[n] = task[n]
    BY <2>1, <1>4 DEF Live
  <2>3. log[n] \in Runs
    <3>1. n \in started + 1..position
      BY <2>2 DEF ScorerInv, TaskConsumed, Live
    <3> QED
      BY <3>1 DEF TypeOK
  <2>4. silence'[log[n]] = silence[log[n]]
    BY <1>5, <2>2, <2>3 DEF TypeOK
  <2> QED
    BY <2>2, <2>4 DEF ScorerInv, ScoresInSilence
<1> QED
  BY <1>8, <1>9, <1>10, <1>11, <1>12, <1>13, <1>14, <1>15 DEF ScorerInv

\* A live task moves on, in the middle of its code or to its end.
LEMMA TaskMoves ==
    ASSUME TypeOK, ScorerInv, UNCHANGED <<log, position, started>>,
           Up', main' \in {main, "closing"},
           NEW o \in Offsets, Live(o),
           NEW new, task' = [task EXCEPT ![o] = new], new.pc \notin {"none", "sleep"},
           new.pc \in {"flush", "score", "update"} => silence[log[o]] = Delay,
           L!Updating(log[o])' <=> new.pc = "update",
           \A q \in Runs \ {log[o]} : L!Updating(q)' = L!Updating(q),
           \/ UNCHANGED <<silence, run_score_tasks>>
           \/ /\ new.pc = "done"
              /\ silence' = [silence EXCEPT ![log[o]] = Delay]
              /\ run_score_tasks' = [run_score_tasks EXCEPT ![log[o]] = 0]
    PROVE  ScorerInv'
<1> DEFINE r == log[o]
<1> USE DEF ScorerInv, Offsets, Writers
<1>1. r \in Runs /\ run_score_tasks[r] = o
  BY DEF TaskConsumed, Registered, TypeOK, Live
<1>2. /\ task'[o] = new
      /\ \A n \in Offsets \ {o} : task'[n] = task[n]
  BY DEF TypeOK
<1>3. \A n \in Offsets \ {o} : Live(n) => log[n] \in Runs \ {r}
  <2> SUFFICES ASSUME NEW n \in Offsets \ {o}, Live(n) PROVE log[n] \in Runs /\ log[n] # r
    OBVIOUS
  <2>1. log[n] \in Runs
    BY DEF TaskConsumed, TypeOK, Live
  <2> QED
    BY <1>1, <2>1 DEF Registered
<1>4. \A q \in Runs \ {r} : run_score_tasks'[q] = run_score_tasks[q] /\ silence'[q] = silence[q]
  BY DEF TypeOK
<1>5. \A n \in Offsets : Live(n)' => Live(n)
  BY <1>2 DEF Live
<1>6. DeadIsEmpty'
  BY DEF DeadIsEmpty
<1>7. TaskConsumed'
  BY <1>2, <1>5 DEF TaskConsumed, Live
<1>8. Registered'
  <2> SUFFICES ASSUME NEW n \in Offsets, Live(n)' PROVE run_score_tasks'[log[n]] = n
    BY DEF Registered
  <2>1. CASE n = o
    BY <1>1, <1>2, <2>1 DEF Live
  <2>2. CASE n # o
    BY <1>3, <1>4, <1>5, <2>2 DEF Registered
  <2> QED
    BY <2>1, <2>2
<1>9. RegisteredRun'
  <2>1. run_score_tasks'[r] \in {0, run_score_tasks[r]}
    BY <1>1 DEF TypeOK
  <2> QED
    BY <1>4, <2>1 DEF RegisteredRun
<1>10. UpdateOwned'
  <2>1. ASSUME NEW q \in Runs, L!Updating(q)'
        PROVE  run_score_tasks'[q] # 0 /\ task'[run_score_tasks'[q]].pc = "update"
    <3>1. CASE q = r
      BY <1>1, <1>2, <2>1, <3>1
    <3>2. CASE q # r
      <4>1. L!Updating(q) /\ run_score_tasks'[q] = run_score_tasks[q]
        BY <1>4, <2>1, <3>2
      <4>2. run_score_tasks[q] \in Offsets /\ task[run_score_tasks[q]].pc = "update"
        BY <4>1 DEF UpdateOwned, TypeOK
      <4>3. run_score_tasks[q] # o
        BY <3>2, <4>2 DEF RegisteredRun
      <4> QED
        BY <1>2, <4>1, <4>2, <4>3
    <3> QED
      BY <3>1, <3>2
  <2>2. ASSUME NEW n \in Offsets, task'[n].pc = "update" PROVE L!Updating(log[n])'
    <3>1. CASE n = o
      BY <1>2, <2>2, <3>1
    <3>2. CASE n # o
      <4>1. task[n].pc = "update" /\ Live(n)
        BY <1>2, <2>2, <3>2 DEF Live
      <4> QED
        BY <1>3, <3>2, <4>1 DEF UpdateOwned
    <3> QED
      BY <3>1, <3>2
  <2> QED
    BY <2>1, <2>2 DEF UpdateOwned
<1>11. Newest'
  BY <1>5 DEF Newest, Consumed
<1>12. Timers'
  <2> SUFFICES ASSUME NEW n \in Offsets, task'[n].pc = "sleep"
               PROVE  silence'[log[n]] + task'[n].timer >= Delay
    BY DEF Timers
  <2>1. n # o /\ task'[n] = task[n] /\ Live(n)
    BY <1>2 DEF Live
  <2>2. silence'[log[n]] = silence[log[n]]
    BY <1>3, <1>4, <2>1
  <2> QED
    BY <2>1, <2>2 DEF Timers
<1>13. ScoresInSilence'
  <2> SUFFICES ASSUME NEW n \in Offsets, task'[n].pc \in {"flush", "score", "update"}
               PROVE  silence'[log[n]] = Delay
    BY DEF ScoresInSilence
  <2>1. CASE n = o
    <3>1. UNCHANGED silence /\ silence[r] = Delay
      BY <1>2, <2>1
    <3> QED
      BY <2>1, <3>1
  <2>2. CASE n # o
    <3>1. task'[n] = task[n] /\ Live(n)
      BY <1>2, <2>2 DEF Live
    <3>2. silence'[log[n]] = silence[log[n]]
      BY <1>3, <1>4, <2>2, <3>1
    <3> QED
      BY <3>1, <3>2 DEF ScoresInSilence
  <2> QED
    BY <2>1, <2>2
<1> QED
  BY <1>6, <1>7, <1>8, <1>9, <1>10, <1>11, <1>12, <1>13

\* A step that moves no task and changes nothing the tasks look at.
LEMMA TasksStay ==
    ASSUME TypeOK, ScorerInv,
           UNCHANGED <<position, started, silence, run_score_tasks, task, redis>>,
           \A o \in 1..position : log'[o] = log[o],
           \/ UNCHANGED <<main, batch_buffer, inserts>>
           \/ Up /\ Up' /\ (main' = "poll" => main = "poll")
                /\ (main' = "flush" => main = "flush")
    PROVE  ScorerInv'
<1> USE DEF ScorerInv
<1>1. DeadIsEmpty'
  BY DEF DeadIsEmpty, Up, L!Updating, redis
<1>2. TaskConsumed'
  BY DEF TaskConsumed
<1>3. \A o \in Offsets : task[o].pc # "none" => o \in 1..position /\ log'[o] = log[o]
  BY DEF TaskConsumed, TypeOK
<1>4. Registered' /\ Timers' /\ ScoresInSilence'
  BY <1>3 DEF Registered, Timers, ScoresInSilence, Live
<1>5. RegisteredRun'
  BY DEF RegisteredRun, TypeOK
<1>6. UpdateOwned'
  BY <1>3 DEF UpdateOwned, L!Updating, redis
<1>7. Newest'
  BY <1>3 DEF Newest, Consumed, Live, TypeOK
<1> QED
  BY <1>1, <1>2, <1>4, <1>5, <1>6, <1>7

LEMMA ScorerStep ==
    ASSUME TypeOK, ScorerInv, [Next]_vars
    PROVE  ScorerInv'
<1>1. ASSUME NEW r \in Runs, Publish(r) PROVE ScorerInv'
  <2>1. \A o \in 1..position : log'[o] = log[o]
    BY <1>1 DEF Publish, TypeOK
  <2> QED
    BY <1>1, <2>1, TasksStay DEF Publish, memory
<1>2. CASE Receive
  <2>1. CASE Register(position + 1)
    BY <1>2, <2>1, RegisterScorer DEF Receive, Up, TypeOK
  <2>2. CASE main' = "flush" /\ UNCHANGED <<silence, run_score_tasks, task, redis>>
    <3> USE <1>2, <2>2 DEF Receive, TypeOK, ScorerInv
    <3>1. /\ position' = position + 1 /\ UNCHANGED <<log, started>>
          /\ Up' /\ position \in Nat /\ started \in Nat /\ started <= position
      BY DEF Up
    <3>2. DeadIsEmpty' /\ TaskConsumed' /\ RegisteredRun'
      BY <3>1 DEF DeadIsEmpty, TaskConsumed, RegisteredRun
    <3>3. Registered' /\ Timers' /\ ScoresInSilence'
      BY <3>1 DEF Registered, Timers, ScoresInSilence, Live
    <3>4. UpdateOwned'
      BY <3>1 DEF UpdateOwned, L!Updating, redis
    <3>5. Newest'
      BY <3>1 DEF Newest, Consumed, Live
    <3> QED
      BY <3>2, <3>3, <3>4, <3>5
  <2> QED
    BY <1>2, <2>1, <2>2 DEF Receive
<1>3. CASE Resume
  <2>1. position \in started + 1..Len(log)
    BY <1>3 DEF Resume, ScorerInv, TaskConsumed, TypeOK
  <2> QED
    BY <1>3, <2>1, RegisterScorer DEF Resume, Up
<1>4. CASE AutoCommit
  BY <1>4, TasksStay DEF AutoCommit, memory
<1>5. CASE EndLoop \/ InterruptFlush \/ Stop
  BY <1>5, TasksStay DEF EndLoop, InterruptFlush, Stop, Up
<1>6. ASSUME NEW how \in {"exited", "crashed"}, Die(how) PROVE ScorerInv'
  <2>1. \A r \in Runs : ~L!Updating(r)'
    BY <1>6 DEF Die, L!Abort, L!Updating, L!NoUpdate, redis, L!TypeOK, TypeOK
  <2>2. \A o \in Offsets : task'[o] = NoTask /\ ~Live(o)'
    BY <1>6 DEF Die, NoTask, Live
  <2>3. DeadIsEmpty'
    BY <1>6, <2>1, <2>2 DEF Die, DeadIsEmpty
  <2>4. TaskConsumed' /\ Registered' /\ Newest' /\ Timers' /\ ScoresInSilence'
    BY <1>6, <2>2 DEF Die, NoTask, TaskConsumed, Registered, Newest, Timers, ScoresInSilence
  <2>5. RegisteredRun' /\ UpdateOwned'
    BY <1>6, <2>1, <2>2 DEF Die, NoTask, RegisteredRun, UpdateOwned
  <2> QED
    BY <2>3, <2>4, <2>5 DEF ScorerInv
<1>7. CASE Exit \/ Crash
  BY <1>6, <1>7 DEF Exit, Crash
<1>8. ASSUME NEW w \in Writers, InsertDone(w) PROVE ScorerInv'
  <2>1. Up /\ Up'
    BY <1>8 DEF InsertDone, ScorerInv, DeadIsEmpty, Up
  <2> QED
    BY <1>8, <2>1, TasksStay DEF InsertDone
<1>9. ASSUME NEW w \in Writers, InsertFail(w) PROVE ScorerInv'
  <2>1. Up /\ Up' /\ main' \in {main, "closing"}
    BY <1>9 DEF InsertFail, ScorerInv, DeadIsEmpty, Up
  <2>2. CASE w \in Offsets /\ task[w].pc = "flush"
    <3> DEFINE new == [task[w] EXCEPT !.pc = "over"]
    <3>1. /\ task' = [task EXCEPT ![w] = new] /\ new.pc = "over" /\ Live(w)
      BY <1>9, <2>2 DEF InsertFail, TypeOK, Task, Live
    <3>2. UNCHANGED update
      BY <1>9 DEF InsertFail, redis
    <3>3. log[w] \in Runs
      BY <2>2 DEF ScorerInv, TaskConsumed, TypeOK
    <3>4. ~L!Updating(log[w])
      <4> SUFFICES ASSUME L!Updating(log[w]) PROVE FALSE
        OBVIOUS
      <4>1. task[run_score_tasks[log[w]]].pc = "update"
        BY <3>3 DEF ScorerInv, UpdateOwned
      <4> QED
        BY <2>2, <3>1, <4>1 DEF ScorerInv, Registered
    <3> HIDE DEF new
    <3> QED
      BY <1>9, <2>1, <2>2, <3>1, <3>2, <3>4, TaskMoves DEF InsertFail, L!Updating
  <2>3. CASE ~(w \in Offsets /\ task[w].pc = "flush")
    <3>1. task' = task
      BY <1>9, <2>3 DEF InsertFail, TypeOK
    <3> QED
      BY <1>9, <2>1, <3>1, TasksStay DEF InsertFail
  <2> QED
    BY <2>2, <2>3
\* A step within a task outside update_leaderboard.
<1>10. ASSUME NEW o \in Offsets, Live(o), task[o].pc # "update",
              NEW pc \in {"flush", "score", "over"}, TaskStep(o, pc),
              UNCHANGED <<silence, run_score_tasks, redis>>,
              pc \in {"flush", "score"} => silence[log[o]] = Delay
       PROVE  ScorerInv'
  <2>1. /\ task' = [task EXCEPT ![o] = [task[o] EXCEPT !.pc = pc]]
        /\ [task[o] EXCEPT !.pc = pc].pc = pc
    BY <1>10 DEF TaskStep, TypeOK, Task
  <2>2. Up /\ Up'
    BY <1>10 DEF TaskStep, ScorerInv, DeadIsEmpty, Live, NoTask, Up
  <2>3. log[o] \in Runs
    BY <1>10 DEF ScorerInv, TaskConsumed, TypeOK, Live
  <2>4. ~L!Updating(log[o])
    BY <1>10, <2>3 DEF ScorerInv, UpdateOwned, Registered
  <2> QED
    BY <1>10, <2>1, <2>2, <2>4, TaskMoves DEF TaskStep, L!Updating, redis
<1>11. ASSUME NEW o \in Offsets, Wake(o) PROVE ScorerInv'
  <2>1. task[o].pc = "sleep" /\ task[o].timer = 0 /\ UNCHANGED <<silence, run_score_tasks, redis>>
    BY <1>11 DEF Wake
  <2>2. ~Stale(log[o]) => silence[log[o]] = Delay
    <3>1. log[o] \in Runs
      BY <2>1 DEF ScorerInv, TaskConsumed, TypeOK
    <3> QED
      BY <3>1, BoundsAssumption DEF Stale, TypeOK
  <2>3. \/ Stale(log[o]) /\ TaskStep(o, "over")
        \/ ~Stale(log[o]) /\ (TaskStep(o, "flush") \/ TaskStep(o, "score"))
    BY <1>11 DEF Wake
  <2> QED
    BY <1>10, <2>1, <2>2, <2>3 DEF Live
<1>20. ASSUME NEW o \in Offsets, FlushDone(o) PROVE ScorerInv'
  BY <1>10, <1>20 DEF FlushDone, Live, ScorerInv, ScoresInSilence
\* A step into, within or out of update_leaderboard.
<1>12. ASSUME NEW o \in Offsets, Live(o), NEW pc \in {"update", "done", "over"},
              task' = [task EXCEPT ![o].pc = pc], UNCHANGED <<log, position, started, main>>,
              L!Updating(log[o])' <=> pc = "update",
              pc = "update" => task[o].pc \in {"score", "update"},
              \A q \in Runs \ {log[o]} : L!Updating(q)' = L!Updating(q),
              \/ UNCHANGED <<silence, run_score_tasks>>
              \/ /\ pc = "done"
                 /\ silence' = [silence EXCEPT ![log[o]] = Delay]
                 /\ run_score_tasks' = [run_score_tasks EXCEPT ![log[o]] = 0]
       PROVE  ScorerInv'
  <2> DEFINE new == [task[o] EXCEPT !.pc = pc]
  <2>1. task' = [task EXCEPT ![o] = new] /\ new.pc = pc
    BY <1>12 DEF TypeOK, Task
  <2>2. Up /\ Up'
    BY <1>12 DEF ScorerInv, DeadIsEmpty, Live, NoTask, Up
  <2>3. new.pc \in {"flush", "score", "update"} => silence[log[o]] = Delay
    BY <1>12, <2>1 DEF ScorerInv, ScoresInSilence
  <2> HIDE DEF new
  <2> QED
    BY <1>12, <2>1, <2>2, <2>3, TaskMoves
<1>13. ASSUME NEW o \in Offsets, Live(o) PROVE log[o] \in Runs
  BY <1>13 DEF ScorerInv, TaskConsumed, TypeOK, Live
<1>14. ASSUME NEW o \in Offsets, Compute(o) PROVE ScorerInv'
  <2>1. Live(o)
    BY <1>14 DEF Compute, Live
  <2>2. PICK s \in Scores : L!Begin(log[o], s)
    BY <1>14 DEF Compute
  <2>3. /\ L!Updating(log[o])'
        /\ \A q \in Runs \ {log[o]} : L!Updating(q)' = L!Updating(q)
    <3>1. UNCHANGED log
      BY <1>14 DEF Compute, TaskStep
    <3> QED
      BY <1>13, <2>1, <2>2, <3>1, UpdatingMoves DEF TypeOK, L!Updating
  <2> QED
    BY <1>12, <1>14, <2>1, <2>3 DEF Compute, TaskStep
<1>15. ASSUME NEW o \in Offsets, Publishing(o) PROVE ScorerInv'
  <2>1. Live(o)
    BY <1>15 DEF Publishing, Live
  <2>2. \A q \in Runs \ {log[o]} : L!Updating(q)' = L!Updating(q)
    BY <1>13, <1>15, <2>1, UpdatingMoves DEF TypeOK, Publishing
  <2>3. CASE L!Updating(log[o])'
    <3>1. /\ TaskStep(o, "update") /\ UNCHANGED <<silence, run_score_tasks>>
          /\ task[o].pc = "update"
      BY <1>15, <2>3 DEF Publishing, L!Updating, TaskStep
    <3> QED
      BY <1>12, <2>1, <2>2, <2>3, <3>1 DEF TaskStep
  <2>4. CASE ~L!Updating(log[o])'
    <3>1. /\ TaskStep(o, "done")
          /\ silence' = [silence EXCEPT ![log[o]] = Delay]
          /\ run_score_tasks' = [run_score_tasks EXCEPT ![log[o]] = 0]
      BY <1>15, <2>4 DEF Publishing, L!Updating, TaskStep
    <3> QED
      BY <1>12, <2>1, <2>2, <2>4, <3>1 DEF TaskStep
  <2> QED
    BY <2>3, <2>4
<1>16. ASSUME NEW o \in Offsets, TaskFails(o) PROVE ScorerInv'
  <2>1. Live(o)
    BY <1>16 DEF TaskFails, Live
  <2>2. /\ ~L!Updating(log[o])'
        /\ \A q \in Runs \ {log[o]} : L!Updating(q)' = L!Updating(q)
    <3>1. CASE task[o].pc = "update"
      BY <1>13, <1>16, <2>1, <3>1, UpdatingMoves DEF TypeOK, TaskFails
    <3>2. CASE task[o].pc # "update"
      <4>1. ~L!Updating(log[o])
        BY <1>13, <2>1, <3>2 DEF ScorerInv, UpdateOwned, Registered
      <4> QED
        BY <1>16, <3>2, <4>1 DEF TaskFails, redis, L!Updating
    <3> QED
      BY <3>1, <3>2
  <2> QED
    BY <1>12, <1>16, <2>1, <2>2 DEF TaskFails
<1>17. CASE Tick
  <2> USE <1>17 DEF Tick, ScorerInv
  <2>1. /\ \A o \in Offsets : task'[o].pc = task[o].pc /\ Live(o)' = Live(o)
        /\ UNCHANGED <<log, position, started, main, run_score_tasks>>
    BY DEF TypeOK, Task, Live
  <2>2. DeadIsEmpty'
    BY DEF DeadIsEmpty, NoTask, Up, L!Updating, redis
  <2>3. TaskConsumed' /\ Registered' /\ RegisteredRun' /\ Newest'
    BY <2>1 DEF TaskConsumed, Registered, RegisteredRun, Newest, Consumed
  <2>4. UpdateOwned'
    <3>1. \A r \in Runs : L!Updating(r)' = L!Updating(r)
      BY DEF L!Updating, redis
    <3>2. \A r \in Runs : run_score_tasks[r] # 0 => run_score_tasks[r] \in Offsets
      BY DEF TypeOK, Writers, Offsets
    <3>3. \A o \in Offsets : task[o].pc = "update" => log[o] \in Runs
      BY DEF TaskConsumed, TypeOK
    <3> QED
      BY <2>1, <3>1, <3>2, <3>3 DEF UpdateOwned
  <2>5. Timers'
    <3> SUFFICES ASSUME NEW o \in Offsets, task'[o].pc = "sleep"
                 PROVE  silence'[log[o]] + task'[o].timer >= Delay
      BY DEF Timers
    <3>1. task[o].pc = "sleep" /\ silence[log[o]] + task[o].timer >= Delay
      BY <2>1 DEF Timers
    <3>2. /\ log[o] \in Runs /\ silence[log[o]] \in 0..Delay
          /\ task[o] \in Task /\ task[o].timer \in 0..Delay
      BY <3>1 DEF TaskConsumed, TypeOK, Task
    <3>3. silence'[log[o]] = IF silence[log[o]] < Delay THEN silence[log[o]] + 1 ELSE Delay
      BY <3>2
    <3>4. task'[o].timer = IF task[o].timer > 0 THEN task[o].timer - 1 ELSE task[o].timer
      BY <3>2 DEF Task
    <3> QED
      BY <3>1, <3>2, <3>3, <3>4, BoundsAssumption
  <2>6. ScoresInSilence'
    <3> SUFFICES ASSUME NEW o \in Offsets, task'[o].pc \in {"flush", "score", "update"}
                 PROVE  silence'[log[o]] = Delay
      BY DEF ScoresInSilence
    <3>1. task[o].pc \in {"flush", "score", "update"}
      BY <2>1
    <3>2. silence[log[o]] = Delay /\ log[o] \in Runs
      BY <3>1 DEF ScoresInSilence, TaskConsumed, TypeOK
    <3> QED
      BY <2>1, <3>2, BoundsAssumption
  <2> QED
    BY <2>2, <2>3, <2>4, <2>5, <2>6
<1>18. CASE Restart
  <2>1. /\ \A o \in Offsets : task'[o] = NoTask
        /\ \A r \in Runs : run_score_tasks'[r] = 0 /\ ~L!Updating(r)'
        /\ main' = "poll"
    BY <1>18 DEF Restart, ScorerInv, DeadIsEmpty, L!Updating, redis
  <2> QED
    BY <2>1 DEF ScorerInv, DeadIsEmpty, Up, TaskConsumed, Registered, RegisteredRun,
                UpdateOwned, Newest, Timers, ScoresInSilence, Live, NoTask
<1>19. CASE UNCHANGED vars
  BY <1>19, TasksStay DEF vars, memory
<1> QED
  BY <1>1, <1>2, <1>3, <1>4, <1>5, <1>7, <1>8, <1>9, <1>11, <1>14, <1>15, <1>16, <1>17,
     <1>18, <1>19, <1>20 DEF Next, Consume, Scoring

LEMMA ScorerInvariant == Spec => [](TypeOK /\ ScorerInv)
<1>1. Init => TypeOK
  BY BoundsAssumption DEF Init, TypeOK, L!Init, L!TypeOK, L!NoUpdate, L!Update, L!Document,
     NoTask, Task, MainPc, Writers, Offsets
<1>2. Init => ScorerInv
  BY DEF Init, L!Init, L!NoUpdate, L!Updating, ScorerInv, NoTask, DeadIsEmpty, Up, TaskConsumed,
     Registered, RegisteredRun, UpdateOwned, Newest, Timers, ScoresInSilence, Live
<1>3. TypeOK /\ ScorerInv /\ [Next]_vars => (TypeOK /\ ScorerInv)'
  BY TypeStep, ScorerStep DEF ScorerInv
<1> QED
  BY <1>1, <1>2, <1>3, PTL DEF Spec

\* Type correctness.
THEOREM TypeCorrect == Spec => []TypeOK
<1> QED
  BY ScorerInvariant, PTL

\* While the loop waits for a message, a run has at most one live score task:
\* the registered one, of the newest message.
THEOREM OneScorerPerRun == Spec => []NewestScorer
<1>1. ScorerInv => NewestScorer
  BY DEF ScorerInv, Registered, Newest, NewestScorer
<1> QED
  BY <1>1, ScorerInvariant, PTL

\* The staleness test of score_after_delay is dead code.
THEOREM StaleCheckIsDead == Spec => []StaleCheckNeverFires
<1>1. TypeOK /\ ScorerInv => StaleCheckNeverFires
  <2> SUFFICES ASSUME TypeOK, ScorerInv, NEW o \in Offsets,
                      task[o].pc = "sleep", task[o].timer = 0
               PROVE  ~Stale(log[o])
    BY DEF StaleCheckNeverFires
  <2>1. log[o] \in Runs
    BY DEF ScorerInv, TaskConsumed, TypeOK
  <2>2. silence[log[o]] >= Delay
    BY <2>1, BoundsAssumption DEF ScorerInv, Timers, TypeOK
  <2> QED
    BY <2>1, <2>2, BoundsAssumption DEF Stale, TypeOK
<1> QED
  BY <1>1, ScorerInvariant, PTL

\* The score of a run is published in its silence: no message of the run was
\* registered since Delay before its task woke up.
THEOREM ScoredInSilence == Spec => []ScoresInSilence
<1>1. ScorerInv => ScoresInSilence
  BY DEF ScorerInv
<1> QED
  BY <1>1, ScorerInvariant, PTL

\* The consumer touches Redis by steps of update_leaderboard only: its modules
\* are composed so, and the next theorems need it.
LEMMA ConsumerImplementsLeaderboard == Spec => ImplementsLeaderboard
<1>1. Init => L!Init
  BY DEF Init
<1>2. TypeOK /\ ScorerInv /\ [Next]_vars => [L!Next]_(L!vars)
  BY RedisStep DEF ScorerInv
<1> QED
  BY <1>1, <1>2, ScorerInvariant, PTL DEF Spec, ImplementsLeaderboard, L!Spec

(***************************************************************************)
(* What it takes for Redis to be the all-time-high policy: that two runs   *)
(* of one team are not written at the same time.                           *)
(***************************************************************************)
NoOverlap ==
    \A q, r \in Runs : q # r /\ TeamOf[q] = TeamOf[r] => ~(L!Updating(q) /\ L!Updating(r))

LEMMA BegunAlone ==
    ASSUME L!TypeOK, NoOverlap', NEW r \in Runs, NEW s \in Scores, L!Begin(r, s)
    PROVE  L!Alone(r)
<1> SUFFICES ASSUME NEW q \in Runs \ {r}, TeamOf[q] = TeamOf[r], L!Updating(q) PROVE FALSE
  BY DEF L!Alone
<1>1. update'[r].pc = "zscore" /\ update'[q] = update[q]
  BY DEF L!Begin, L!TypeOK
<1> QED
  BY <1>1 DEF NoOverlap, L!Updating

LEMMA SerialStep == L!TypeOK /\ NoOverlap' /\ [L!Next]_(L!vars) => [L!SerialNext]_(L!vars)
BY BegunAlone DEF L!Next, L!SerialNext

LEMMA ConsumerIsSerial == Spec /\ []NoOverlap => L!SerialSpec
<1>1. TypeOK => L!TypeOK
  BY DEF TypeOK
<1> QED
  BY <1>1, SerialStep, ScorerInvariant, ConsumerImplementsLeaderboard, PTL
     DEF ImplementsLeaderboard, L!Spec, L!SerialSpec

\* Through cancellations, failures and kills at any point, Redis only ever sees
\* the policy of ARCHITECTURE.md, as long as no two calls for one team overlap.
THEOREM ConsumerKeepsAllTimeHigh == Spec /\ []NoOverlap => ImplementsAllTimeHigh
<1>1. L!Init => LP!Init
  BY DEF L!Init, LP!Init, L!NoUpdate, LP!NoUpdate
<1>2. [L!SerialNext]_(L!vars) => [LP!SerialNext]_(LP!vars)
  BY DEF L!SerialNext, L!vars, L!Step, L!ZScore, L!ZAdd, L!SetDetail, L!Begin, L!Abort,
         L!Alone, L!Updating, L!Beats, L!NoUpdate,
         LP!SerialNext, LP!vars, LP!Step, LP!ZScore, LP!ZAdd, LP!SetDetail, LP!Begin, LP!Abort,
         LP!Alone, LP!Updating, LP!Beats, LP!NoUpdate
<1>3. LP!ATH!Init => L!ATH!Init
  BY DEF LP!ATH!Init, L!ATH!Init
<1>4. [LP!ATH!Next]_leaderboard => [L!ATH!Next]_leaderboard
  BY DEF LP!ATH!Next, L!ATH!Next, LP!ATH!Improve, L!ATH!Improve
<1>5. LP!SerialSpec => LP!ImplementsAllTimeHigh
  BY TeamOfAssumption, ScoresAssumption, LP!SerialImplementsAllTimeHigh
<1> QED
  BY <1>1, <1>2, <1>3, <1>4, <1>5, ConsumerIsSerial, PTL
     DEF L!SerialSpec, LP!SerialSpec, LP!ImplementsAllTimeHigh, ImplementsAllTimeHigh,
         L!ImplementsAllTimeHigh, L!ATH!Spec, LP!ATH!Spec

\* A team with a document is listed, wherever its score tasks were cancelled or
\* failed: the entry is written first, and nothing takes it back.
THEOREM ConsumerListsItsDocuments == Spec => []L!DetailHasRank
<1>1. L!Init => LP!Init
  BY DEF L!Init, LP!Init, L!NoUpdate, LP!NoUpdate
<1>2. [L!Next]_(L!vars) => [LP!Next]_(LP!vars)
  BY DEF L!Next, L!vars, L!Step, L!ZScore, L!ZAdd, L!SetDetail, L!Begin, L!Abort,
         L!Updating, L!Beats, L!NoUpdate,
         LP!Next, LP!vars, LP!Step, LP!ZScore, LP!ZAdd, LP!SetDetail, LP!Begin, LP!Abort,
         LP!Updating, LP!Beats, LP!NoUpdate
<1>3. LP!Spec => []LP!DetailHasRank
  BY TeamOfAssumption, ScoresAssumption, LP!DetailIsRanked
<1>4. LP!DetailHasRank => L!DetailHasRank
  BY DEF LP!DetailHasRank, L!DetailHasRank
<1> QED
  BY <1>1, <1>2, <1>3, <1>4, ConsumerImplementsLeaderboard, PTL
     DEF ImplementsLeaderboard, L!Spec, LP!Spec

(***************************************************************************)
(* The rows: none is lost but by a kill or a refused insert, and none is   *)
(* written twice in one life.                                              *)
(***************************************************************************)
\* Rows in memory belong to messages of this life, and each is in one place.
Held == \A o \in Offsets :
    (o \in batch_buffer \/ \E w \in Writers : o \in inserts[w]) => o \in started + 1..position
Apart ==
    /\ \A w \in Writers : inserts[w] \cap batch_buffer = {}
    /\ \A v, w \in Writers : v # w => inserts[v] \cap inserts[w] = {}

\* A writer starts an insert only when it has none on the way, and the loop
\* appends to the buffer only while it polls.
WriterFree ==
    /\ main # "poll" => batch_buffer = {}
    /\ main = "poll" => inserts[0] = {}
    /\ \A o \in Offsets : task[o].pc \in {"none", "sleep"} => inserts[o] = {}
    /\ main = "flush" => task[position].pc = "none"

\* A row that is still in memory, or still to be read, was not written in this life.
WrittenOnce == \A o \in Offsets :
    /\ order_metrics[o] <= restarts + 1
    /\ (o > position \/ o \in batch_buffer \/ \E w \in Writers : o \in inserts[w])
          => order_metrics[o] <= restarts

Accounted == main # "crashed" => \A o \in started + 1..position :
    \/ o \in batch_buffer \/ \E w \in Writers : o \in inserts[w]
    \/ o \in failed \/ order_metrics[o] > 0

RowInv == Held /\ Apart /\ WriterFree /\ WrittenOnce /\ Accounted

\* A step that touches neither the rows nor who may start an insert.
LEMMA RowsStay ==
    ASSUME TypeOK, RowInv,
           UNCHANGED <<position, started, batch_buffer, inserts, order_metrics, failed, restarts>>,
           \A o \in Offsets : task'[o].pc \in {"none", "sleep"} => task[o].pc \in {"none", "sleep"},
           main' = main \/ (main \in {"closing", "flush"} /\ main' = "stopping"),
           main = "flush" => task'[position].pc = task[position].pc
    PROVE  RowInv'
<1>1. Held' /\ Apart' /\ WrittenOnce' /\ Accounted'
  BY DEF RowInv, Held, Apart, WrittenOnce, Accounted
<1>2. WriterFree'
  <2>1. main' = "poll" => inserts'[0] = {}
    BY DEF RowInv, WriterFree
  <2>2. \A o \in Offsets : task'[o].pc \in {"none", "sleep"} => inserts'[o] = {}
    BY DEF RowInv, WriterFree
  <2>3. main' = "flush" => task'[position'].pc = "none"
    BY DEF RowInv, WriterFree
  <2>4. main' # "poll" => batch_buffer' = {}
    BY DEF RowInv, WriterFree
  <2> QED
    BY <2>1, <2>2, <2>3, <2>4 DEF WriterFree
<1> QED
  BY <1>1, <1>2 DEF RowInv

\* Writer w takes the buffer, with the rows in more, and clears it.
LEMMA BufferFlushed ==
    ASSUME TypeOK, RowInv, NEW w \in Writers, inserts[w] = {},
           NEW more \in SUBSET Offsets, \A o \in more : o = position + 1 /\ o <= MaxMessages,
           inserts' = [inserts EXCEPT ![w] = batch_buffer \cup more], batch_buffer' = {},
           position' \in {position, position + 1}, position' \in Nat,
           position + 1..position' \subseteq more, more # {} => position' = position + 1,
           UNCHANGED <<started, order_metrics, failed, restarts>>, main' # "crashed",
           main # "crashed"
    PROVE  Held' /\ Apart' /\ WrittenOnce' /\ Accounted'
<1> USE DEF RowInv, TypeOK
<1>1. /\ inserts'[w] = batch_buffer \cup more
      /\ \A v \in Writers \ {w} : inserts'[v] = inserts[v]
  OBVIOUS
<1>2. \A v \in Writers : inserts[v] \cap more = {}
  <2> SUFFICES ASSUME NEW v \in Writers, NEW x \in inserts[v], x \in more PROVE FALSE
    OBVIOUS
  <2>1. x \in Offsets
    OBVIOUS
  <2>2. x \in started + 1..position
    BY <2>1 DEF Held
  <2> QED
    BY <2>2
<1>3. \A o \in Offsets : (\E v \in Writers : o \in inserts'[v])
                         <=> (o \in batch_buffer \/ o \in more \/ \E v \in Writers : o \in inserts[v])
  BY <1>1
<1>4. Held'
  BY <1>3 DEF Held
<1>5. Apart'
  BY <1>1, <1>2 DEF Apart
<1>6. WrittenOnce'
  BY <1>3 DEF WrittenOnce, Offsets
<1>7. Accounted'
  <2> SUFFICES ASSUME NEW o \in started + 1..position'
               PROVE  \/ \E v \in Writers : o \in inserts'[v]
                      \/ o \in failed \/ order_metrics[o] > 0
    BY DEF Accounted
  <2>1. o \in Offsets
    BY BoundsAssumption DEF Offsets
  <2>2. CASE o \in started + 1..position
    BY <1>3, <2>1, <2>2 DEF Accounted
  <2>3. CASE o = position + 1
    BY <1>3, <2>1, <2>3
  <2> QED
    BY <2>2, <2>3
<1> QED
  BY <1>4, <1>5, <1>6, <1>7

LEMMA RowsStep ==
    ASSUME TypeOK, ScorerInv, RowInv, [Next]_vars
    PROVE  RowInv'
<1> USE BoundsAssumption DEF Offsets, Writers
<1>1. ASSUME NEW r \in Runs, Publish(r) PROVE RowInv'
  BY <1>1, RowsStay DEF Publish, memory
\* Registering creates one sleeping task, of a message whose writer is free.
<1>2. ASSUME Register(position'), position' \in Offsets, inserts'[position'] = {},
             \A o \in Offsets : inserts'[o] = inserts[o],
             main' = "poll", inserts'[0] = {}
      PROVE  WriterFree'
  <2>1. \A o \in Offsets : task'[o].pc \in {"none", "sleep"} =>
                              o = position' \/ task[o].pc \in {"none", "sleep"}
    BY <1>2 DEF Register, TypeOK, Task
  <2> QED
    BY <1>2, <2>1 DEF RowInv, WriterFree
<1>3. CASE Receive
  <2> DEFINE o == position + 1
  <2>1. o \in Offsets /\ position' = o /\ o \notin batch_buffer
    BY <1>3 DEF Receive, TypeOK, RowInv, Held
  <2>2. inserts[0] = {} /\ task[o].pc = "none" /\ inserts[o] = {}
    BY <1>3, <2>1 DEF Receive, RowInv, WriterFree, ScorerInv, TaskConsumed, TypeOK, Task
  <2>3. CASE main' = "flush"
    <3>1. /\ inserts' = [inserts EXCEPT ![0] = batch_buffer \cup {o}]
          /\ batch_buffer' = {} /\ task' = task
      BY <1>3, <2>3 DEF Receive
    <3>2. Held' /\ Apart' /\ WrittenOnce' /\ Accounted'
      <4>1. /\ {o} \in SUBSET Offsets /\ {o} # {} /\ \A n \in {o} : n = position + 1 /\ n <= MaxMessages
            /\ position' \in {position, position + 1} /\ position' \in Nat
            /\ position + 1..position' \subseteq {o} /\ position' = position + 1
        BY <2>1 DEF TypeOK
      <4>2. /\ UNCHANGED <<started, order_metrics, failed, restarts>>
            /\ main' # "crashed" /\ main # "crashed" /\ 0 \in Writers
        BY <1>3, <2>3 DEF Receive
      <4> QED
        BY <2>2, <3>1, <4>1, <4>2, BufferFlushed
    <3>3. WriterFree'
      BY <2>1, <2>2, <2>3, <3>1 DEF RowInv, WriterFree, TypeOK
    <3> QED
      BY <3>2, <3>3 DEF RowInv
  <2>4. CASE main' # "flush"
    <3>1. /\ batch_buffer' = batch_buffer \cup {o} /\ inserts' = inserts /\ main' = "poll"
          /\ Register(o) /\ UNCHANGED <<started, order_metrics, failed, restarts>>
      BY <1>3, <2>4 DEF Receive
    <3>2. WriterFree'
      BY <1>2, <2>1, <2>2, <3>1
    <3>3. \A n \in Nat : n \in started + 1..position' <=> n \in started + 1..position \/ n = o
      BY <2>1 DEF TypeOK
    <3>6. Held'
      BY <2>1, <3>1, <3>3 DEF RowInv, Held
    <3>7. WrittenOnce'
      BY <2>1, <3>1 DEF RowInv, WrittenOnce, TypeOK
    <3>8. Accounted'
      <4> SUFFICES ASSUME NEW n \in started + 1..position'
                   PROVE  \/ n \in batch_buffer' \/ \E w \in Writers : n \in inserts[w]
                          \/ n \in failed \/ order_metrics[n] > 0
        BY <3>1 DEF Accounted
      <4>1. n \in started + 1..position \/ n = o
        BY <3>3 DEF TypeOK
      <4>2. main # "crashed"
        BY <1>3 DEF Receive
      <4> QED
        BY <3>1, <4>1, <4>2 DEF RowInv, Accounted
    <3>4. \A w \in Writers : o \notin inserts[w]
      BY <2>1 DEF RowInv, Held, TypeOK
    <3>5. Apart'
      BY <3>1, <3>4 DEF RowInv, Apart
    <3> QED
      BY <3>2, <3>5, <3>6, <3>7, <3>8 DEF RowInv
  <2> QED
    BY <2>3, <2>4
<1>4. CASE Resume
  <2>1. position \in Offsets /\ inserts[position] = {} /\ inserts[0] = {}
    BY <1>4 DEF Resume, RowInv, WriterFree, ScorerInv, TaskConsumed, TypeOK
  <2>2. WriterFree'
    BY <1>2, <1>4, <2>1 DEF Resume
  <2>3. Held' /\ Apart' /\ WrittenOnce' /\ Accounted'
    BY <1>4 DEF Resume, RowInv, Held, Apart, WrittenOnce, Accounted
  <2> QED
    BY <2>2, <2>3 DEF RowInv
<1>5. CASE AutoCommit
  BY <1>5, RowsStay DEF AutoCommit, memory
<1>6. CASE EndLoop
  <2>1. inserts[0] = {}
    BY <1>6 DEF EndLoop, RowInv, WriterFree
  <2>2. inserts' = [inserts EXCEPT ![0] = batch_buffer \cup {}]
    BY <1>6 DEF EndLoop
  <2>3. Held' /\ Apart' /\ WrittenOnce' /\ Accounted'
    <3>1. /\ {} \in SUBSET Offsets /\ position' \in {position, position + 1} /\ position' \in Nat
          /\ position + 1..position' \subseteq {} /\ 0 \in Writers
          /\ UNCHANGED <<started, order_metrics, failed, restarts>>
          /\ main' # "crashed" /\ main # "crashed" /\ batch_buffer' = {}
      BY <1>6 DEF EndLoop, TypeOK
    <3> QED
      BY <2>1, <2>2, <3>1, BufferFlushed
  <2>4. WriterFree'
    BY <1>6, <2>2 DEF EndLoop, RowInv, WriterFree, TypeOK
  <2> QED
    BY <2>3, <2>4 DEF RowInv
<1>7. CASE Stop \/ InterruptFlush
  BY <1>7, RowsStay DEF Stop, InterruptFlush
\* When the process ends, memory is empty and every writer is free.
<1>8. ASSUME NEW how \in {"exited", "crashed"}, Die(how)
      PROVE  Held' /\ Apart' /\ WriterFree' /\ UNCHANGED <<position, started, failed, restarts>>
             /\ \A o \in Offsets : o \notin batch_buffer' /\ \A w \in Writers : o \notin inserts'[w]
  BY <1>8 DEF Die, Held, Apart, WriterFree, NoTask
<1>9. CASE Exit
  <2>1. \A o \in Offsets, w \in Writers : o \notin inserts[w]
    BY <1>9 DEF Exit, InFlight
  <2>2. Die("exited") /\ order_metrics' = order_metrics /\ main' = "exited" /\ main = "stopping"
    BY <1>9 DEF Exit, Die
  <2>3. WrittenOnce'
    BY <1>8, <2>2 DEF RowInv, WrittenOnce
  <2>4. Accounted'
    <3>1. batch_buffer = {} /\ UNCHANGED <<position, started, failed>>
      BY <1>8, <2>2 DEF RowInv, WriterFree
    <3> SUFFICES ASSUME NEW o \in started + 1..position
                 PROVE  o \in failed \/ order_metrics[o] > 0
      BY <2>2, <3>1 DEF Accounted
    <3>2. o \in Offsets
      BY DEF TypeOK
    <3> QED
      BY <2>1, <2>2, <3>1, <3>2 DEF RowInv, Accounted
  <2> QED
    BY <1>8, <2>2, <2>3, <2>4 DEF RowInv
<1>18. CASE Crash
  <2>1. PICK W \in SUBSET Writers : Insert(UNION {inserts[w] : w \in W})
    BY <1>18 DEF Crash
  <2>2. Die("crashed") /\ main' = "crashed"
    BY <1>18 DEF Crash, Die
  <2>3. WrittenOnce'
    <3> SUFFICES ASSUME NEW o \in Offsets
                 PROVE  /\ order_metrics'[o] <= restarts + 1
                        /\ o > position => order_metrics'[o] <= restarts
      BY <1>8, <2>2 DEF WrittenOnce
    <3>1. order_metrics'[o] = order_metrics[o] + IF \E w \in W : o \in inserts[w] THEN 1 ELSE 0
      BY <2>1 DEF Insert
    <3>2. (\E w \in W : o \in inserts[w]) => o <= position /\ order_metrics[o] <= restarts
      BY DEF RowInv, Held, WrittenOnce, TypeOK
    <3> QED
      BY <3>1, <3>2 DEF RowInv, WrittenOnce, TypeOK
  <2>4. Accounted'
    BY <2>2 DEF Accounted
  <2> QED
    BY <1>8, <2>2, <2>3, <2>4 DEF RowInv
\* An insert that is through, one way or the other, frees its writer.
<1>10. ASSUME NEW w \in Writers, inserts' = [inserts EXCEPT ![w] = {}],
              UNCHANGED <<position, started, batch_buffer>>
       PROVE  /\ Held' /\ Apart'
              /\ \A v \in Writers : inserts'[v] = IF v = w THEN {} ELSE inserts[v]
  <2>1. \A v \in Writers : inserts'[v] = IF v = w THEN {} ELSE inserts[v]
    BY <1>10 DEF TypeOK
  <2>2. Held'
    BY <1>10, <2>1 DEF RowInv, Held
  <2>3. Apart'
    BY <1>10, <2>1 DEF RowInv, Apart
  <2> QED
    BY <2>1, <2>2, <2>3
<1>11. ASSUME NEW w \in Writers, InsertDone(w) PROVE RowInv'
  <2>1. /\ inserts' = [inserts EXCEPT ![w] = {}]
        /\ UNCHANGED <<position, started, batch_buffer, failed, main, task, restarts>>
    BY <1>11 DEF InsertDone
  <2>2. \A o \in Offsets : order_metrics'[o] = order_metrics[o] + IF o \in inserts[w] THEN 1 ELSE 0
    BY <1>11 DEF InsertDone, Insert
  <2>3. \A v \in Writers : inserts'[v] = IF v = w THEN {} ELSE inserts[v]
    BY <1>10, <2>1
  <2>4. WriterFree'
    BY <2>1, <2>3 DEF RowInv, WriterFree
  <2>5. WrittenOnce'
    <3> SUFFICES ASSUME NEW o \in Offsets
                 PROVE  /\ order_metrics'[o] <= restarts + 1
                        /\ (o > position \/ o \in batch_buffer \/ \E v \in Writers : o \in inserts'[v])
                              => order_metrics'[o] <= restarts
      BY <2>1 DEF WrittenOnce
    <3>1. CASE o \in inserts[w]
      <4>1. o <= position
        BY <3>1 DEF RowInv, Held, TypeOK
      <4>2. o \notin batch_buffer
        BY <3>1 DEF RowInv, Apart
      <4>3. \A v \in Writers : o \notin inserts'[v]
        BY <3>1, <2>3 DEF RowInv, Apart
      <4>4. order_metrics[o] <= restarts
        BY <3>1 DEF RowInv, WrittenOnce
      <4>5. order_metrics'[o] <= restarts + 1
        BY <2>2, <3>1, <4>4 DEF TypeOK
      <4> QED
        BY <4>1, <4>2, <4>3, <4>5 DEF TypeOK
    <3>2. CASE o \notin inserts[w]
      <4>1. order_metrics'[o] = order_metrics[o]
        BY <2>2, <3>2 DEF TypeOK
      <4>2. (\E v \in Writers : o \in inserts'[v]) => \E v \in Writers : o \in inserts[v]
        BY <2>3
      <4> QED
        BY <4>1, <4>2 DEF RowInv, WrittenOnce
    <3> QED
      BY <3>1, <3>2
  <2>6. Accounted'
    <3> SUFFICES ASSUME NEW o \in started + 1..position, main # "crashed"
                 PROVE  \/ o \in batch_buffer \/ \E v \in Writers : o \in inserts'[v]
                        \/ o \in failed \/ order_metrics'[o] > 0
      BY <2>1 DEF Accounted
    <3>1. o \in Offsets /\ order_metrics[o] \in Nat
      BY DEF TypeOK
    <3> QED
      BY <2>2, <2>3, <3>1 DEF RowInv, Accounted
  <2> QED
    BY <1>10, <2>1, <2>4, <2>5, <2>6 DEF RowInv
<1>19. ASSUME NEW w \in Writers, InsertFail(w) PROVE RowInv'
  <2>1. /\ inserts' = [inserts EXCEPT ![w] = {}] /\ failed' = failed \cup inserts[w]
        /\ UNCHANGED <<position, started, batch_buffer, order_metrics, restarts>>
        /\ main' = main \/ (main = "flush" /\ main' = "closing")
        /\ \A o \in Offsets : task'[o].pc = task[o].pc \/ task'[o].pc = "over"
        /\ \A o \in Offsets : task[o].pc # "flush" => task'[o] = task[o]
    BY <1>19 DEF InsertFail, TypeOK, Task
  <2>2. inserts[w] # {}
    BY <1>19 DEF InsertFail
  <2>3. \A v \in Writers : inserts'[v] = IF v = w THEN {} ELSE inserts[v]
    BY <1>10, <2>1
  <2>4. WriterFree'
    <3>1. main = "flush" => position \in Offsets
      BY DEF TypeOK, ScorerInv, TaskConsumed
    <3> QED
      BY <2>1, <2>3, <3>1 DEF RowInv, WriterFree
  <2>5. WrittenOnce'
    BY <2>1, <2>3 DEF RowInv, WrittenOnce
  <2>6. Accounted'
    <3> SUFFICES ASSUME NEW o \in started + 1..position, main' # "crashed"
                 PROVE  \/ o \in batch_buffer \/ \E v \in Writers : o \in inserts'[v]
                        \/ o \in failed' \/ order_metrics[o] > 0
      BY <2>1 DEF Accounted
    <3>1. main # "crashed"
      BY <2>2 DEF ScorerInv, DeadIsEmpty, Up
    <3> QED
      BY <2>1, <2>3, <3>1 DEF RowInv, Accounted
  <2> QED
    BY <1>10, <2>1, <2>4, <2>5, <2>6 DEF RowInv
<1>12. ASSUME NEW o \in Offsets, NEW pc \in {"flush", "score", "update", "done", "over"},
              task' = [task EXCEPT ![o].pc = pc], task[o].pc # "none"
       PROVE  /\ \A n \in Offsets : task'[n].pc \in {"none", "sleep"} =>
                                      n # o /\ task[n].pc \in {"none", "sleep"}
              /\ main = "flush" => task'[position].pc = task[position].pc
  <2>1. /\ task'[o].pc = pc
        /\ \A n \in Offsets \ {o} : task'[n] = task[n]
    BY <1>12 DEF TypeOK, Task
  <2>2. main = "flush" => position \in Offsets \ {o}
    <3>1. main = "flush" => position \in Offsets
      BY DEF TypeOK, ScorerInv, TaskConsumed
    <3>2. main = "flush" => position # o
      BY <1>12 DEF RowInv, WriterFree
    <3> QED
      BY <3>1, <3>2
  <2> QED
    BY <2>1, <2>2
<1>13. ASSUME NEW o \in Offsets, FlushDone(o) \/ Compute(o) \/ Publishing(o) \/ TaskFails(o)
       PROVE  RowInv'
  BY <1>12, <1>13, RowsStay DEF FlushDone, Compute, Publishing, TaskFails, TaskStep
<1>14. ASSUME NEW o \in Offsets, Wake(o) PROVE RowInv'
  <2>1. CASE inserts' = inserts /\ batch_buffer' = batch_buffer
    <3>1. PICK pc \in {"over", "score"} : TaskStep(o, pc)
      BY <1>14, <2>1 DEF Wake, RowInv, WriterFree
    <3> QED
      BY <1>12, <1>14, <2>1, <3>1, RowsStay DEF Wake, TaskStep
  <2>2. CASE ~(inserts' = inserts /\ batch_buffer' = batch_buffer)
    <3>1. /\ inserts' = [inserts EXCEPT ![o] = batch_buffer \cup {}]
          /\ batch_buffer' = {} /\ TaskStep(o, "flush") /\ task[o].pc = "sleep"
      BY <1>14, <2>2 DEF Wake
    <3>2. inserts[o] = {}
      BY <3>1 DEF RowInv, WriterFree
    <3>3. Up
      BY <3>1 DEF ScorerInv, DeadIsEmpty, NoTask
    <3>4. /\ {} \in SUBSET Offsets /\ position' \in {position, position + 1} /\ position' \in Nat
          /\ position + 1..position' \subseteq {} /\ o \in Writers
          /\ UNCHANGED <<started, order_metrics, failed, restarts, main>>
          /\ main' # "crashed" /\ main # "crashed"
      BY <3>1, <3>3 DEF TaskStep, TypeOK, Up
    <3>5. Held' /\ Apart' /\ WrittenOnce' /\ Accounted'
      BY <3>1, <3>2, <3>4, BufferFlushed
    <3>6. \A w \in Writers \ {o} : inserts'[w] = inserts[w]
      BY <3>1 DEF TypeOK
    <3>7. /\ \A n \in Offsets : task'[n].pc \in {"none", "sleep"} =>
                                   n # o /\ task[n].pc \in {"none", "sleep"}
          /\ main = "flush" => task'[position].pc = task[position].pc
      BY <1>12, <3>1 DEF TaskStep
    <3>8. position' = position /\ main' = main
      BY <3>1 DEF TaskStep
    <3>9. WriterFree'
      BY <3>1, <3>6, <3>7, <3>8 DEF RowInv, WriterFree
    <3> QED
      BY <3>5, <3>9 DEF RowInv
  <2> QED
    BY <2>1, <2>2
<1>15. CASE Tick
  <2>1. \A o \in Offsets : task'[o].pc = task[o].pc
    BY <1>15 DEF Tick, TypeOK, Task
  <2>2. main = "flush" => position \in Offsets
    BY DEF TypeOK, ScorerInv, TaskConsumed
  <2> QED
    BY <1>15, <2>1, <2>2, RowsStay DEF Tick
<1>16. CASE Restart
  <2>1. /\ batch_buffer' = {} /\ \A w \in Writers : inserts'[w] = {}
        /\ position' = committed /\ started' = committed /\ committed <= position
        /\ restarts' = restarts + 1 /\ order_metrics' = order_metrics /\ main' = "poll"
    BY <1>16 DEF Restart, ScorerInv, DeadIsEmpty, TypeOK
  <2>2. Held' /\ Apart' /\ WriterFree'
    BY <2>1 DEF Held, Apart, WriterFree
  <2>3. WrittenOnce'
    BY <2>1 DEF RowInv, WrittenOnce, TypeOK
  <2>4. Accounted'
    BY <2>1 DEF Accounted, TypeOK
  <2> QED
    BY <2>2, <2>3, <2>4 DEF RowInv
<1>17. CASE UNCHANGED vars
  BY <1>17, RowsStay DEF vars, memory
<1> QED
  BY <1>1, <1>3, <1>4, <1>5, <1>6, <1>7, <1>9, <1>11, <1>13, <1>14, <1>15, <1>16, <1>17,
     <1>18, <1>19 DEF Next, Consume, Scoring

LEMMA RowInvariant == Spec => [](TypeOK /\ RowInv)
<1>1. Init => RowInv
  <2> SUFFICES ASSUME Init PROVE RowInv
    OBVIOUS
  <2>1. /\ batch_buffer = {} /\ main = "poll" /\ started = 0 /\ position = 0 /\ restarts = 0
        /\ \A w \in Writers : inserts[w] = {}
        /\ \A o \in Offsets : order_metrics[o] = 0
    BY DEF Init
  <2>2. 0 \in Writers /\ Offsets \subseteq Writers
    BY BoundsAssumption DEF Writers, Offsets
  <2>3. Held /\ Apart /\ WriterFree /\ WrittenOnce
    BY <2>1, <2>2 DEF Held, Apart, WriterFree, WrittenOnce
  <2>4. Accounted
    BY <2>1 DEF Accounted
  <2> QED
    BY <2>3, <2>4 DEF RowInv
<1>2. TypeOK /\ ScorerInv /\ RowInv /\ [Next]_vars => RowInv'
  BY RowsStep
<1> QED
  BY <1>1, <1>2, ScorerInvariant, PTL DEF Spec

\* Unless the process was killed, every message received is buffered, in one
\* insert on its way, in the table, or in a batch the database refused; and the
\* table holds a message at most once per life of the process.
THEOREM RowsAreAccountedFor == Spec => []RowsAccountedFor
<1>1. TypeOK /\ RowInv => NothingLost
  <2> SUFFICES ASSUME TypeOK, RowInv, main # "crashed" PROVE NothingLost
    BY DEF NothingLost
  <2>1. \A o : (o \in InFlight <=> \E w \in Writers : o \in inserts[w])
    BY DEF InFlight
  <2>2. \A o \in started + 1..position :
          o \in batch_buffer \cup InFlight \cup failed \/ order_metrics[o] > 0
    BY <2>1 DEF RowInv, Accounted
  <2> QED
    BY <2>2 DEF RowInv, Apart, NothingLost
<1>2. RowInv => NeverDuplicated
  BY DEF RowInv, WrittenOnce, NeverDuplicated
<1> QED
  BY <1>1, <1>2, RowInvariant, PTL DEF RowsAccountedFor

(***************************************************************************)
(* The score a run is left with counts what was read of it.                *)
(***************************************************************************)
\* Every message of this life is of one run, the newest one's.
OneRunRead == \A n \in started + 1..position : log[n] = log[position]
Quiet      == \A w \in Writers : inserts[w] = {}

\* From the first tick of its sleep on, no insert is on its way but the one the
\* newest task starts itself, and it takes the whole buffer.
FinalInv == main = "poll" /\ position > started /\ OneRunRead =>
    /\ task[position].pc = "sleep" /\ task[position].timer < Delay => Quiet
    /\ task[position].pc = "flush" =>
          batch_buffer = {} /\ \A w \in Writers \ {position} : inserts[w] = {}
    /\ task[position].pc = "score" => batch_buffer = {} /\ Quiet
    /\ task[position].pc \in {"update", "done"} =>
          started + 1..position \subseteq scored[log[position]] \cup failed

\* While every message read is of one run, the only live task is the newest one.
LEMMA OnlyNewestLives ==
    ASSUME TypeOK, ScorerInv, main = "poll", OneRunRead, NEW o \in Offsets, Live(o)
    PROVE  o = position /\ position > started
<1>1. o \in started + 1..position
  BY DEF ScorerInv, TaskConsumed, Live
<1>2. position \in Consumed(log[o])
  BY <1>1 DEF OneRunRead, Consumed, TypeOK
<1>3. position <= o
  BY <1>2 DEF ScorerInv, Newest
<1> QED
  BY <1>1, <1>3 DEF TypeOK

\* A step that starts no insert and does not move the newest task on keeps what
\* was said of it.
LEMMA FinalStays ==
    ASSUME TypeOK, FinalInv, UNCHANGED <<main, position, started>>,
           \A n \in started + 1..position : log'[n] = log[n],
           position > started => /\ task'[position].pc \in {task[position].pc, "over"}
                                 /\ \/ task'[position].timer = task[position].timer
                                    \/ inserts = [w \in Writers |-> {}],
           batch_buffer' = batch_buffer,
           \A w \in Writers : inserts'[w] \subseteq inserts[w],
           scored' = scored, failed \subseteq failed'
    PROVE  FinalInv'
<1> SUFFICES ASSUME main = "poll", position > started, OneRunRead'
             PROVE  FinalInv'
  BY DEF FinalInv
<1>1. /\ position \in started + 1..position
      /\ OneRunRead /\ log'[position] = log[position]
  BY DEF OneRunRead, TypeOK
<1>2. Quiet => Quiet'
  BY DEF Quiet
<1>3. inserts = [w \in Writers |-> {}] => Quiet
  BY DEF Quiet
<1> QED
  BY <1>1, <1>2, <1>3 DEF FinalInv

LEMMA FinalStep ==
    ASSUME ~SlowInserts, TypeOK, ScorerInv, RowInv, FinalInv, [Next]_vars
    PROVE  FinalInv'
<1> USE BoundsAssumption DEF Offsets, Writers
<1>1. ASSUME NEW r \in Runs, Publish(r) PROVE FinalInv'
  <2>1. \A n \in 1..position : log'[n] = log[n]
    BY <1>1 DEF Publish, TypeOK
  <2>2. \A n \in started + 1..position : n \in 1..position
    BY DEF TypeOK
  <2> QED
    BY <1>1, <2>1, <2>2, FinalStays DEF Publish, memory
\* A message is registered: its task begins to sleep.
<1>2. ASSUME Register(position'), position' \in Offsets PROVE FinalInv'
  <2>1. task'[position'].pc = "sleep" /\ task'[position'].timer = Delay
    BY <1>2 DEF Register
  <2> QED
    BY <2>1 DEF FinalInv
<1>3. CASE Receive
  <2>1. position' \in Offsets
    BY <1>3 DEF Receive, TypeOK
  <2>2. CASE main' = "flush"
    BY <2>2 DEF FinalInv
  <2>3. CASE main' # "flush"
    BY <1>2, <1>3, <2>1, <2>3 DEF Receive
  <2> QED
    BY <2>2, <2>3
<1>4. CASE Resume
  <2>1. position' \in Offsets /\ Register(position')
    BY <1>4 DEF Resume, TypeOK, ScorerInv, TaskConsumed
  <2> QED
    BY <1>2, <2>1
<1>5. CASE AutoCommit
  BY <1>5, FinalStays DEF AutoCommit, memory
<1>6. CASE main' # "poll"
  BY <1>6 DEF FinalInv
<1>7. ASSUME NEW w \in Writers, InsertDone(w) PROVE FinalInv'
  <2>1. \A v \in Writers : inserts'[v] \subseteq inserts[v]
    BY <1>7 DEF InsertDone, TypeOK
  <2> QED
    BY <1>7, <2>1, FinalStays DEF InsertDone
<1>8. ASSUME NEW w \in Writers, InsertFail(w), main' = "poll" PROVE FinalInv'
  <2>1. \A v \in Writers : inserts'[v] \subseteq inserts[v]
    BY <1>8 DEF InsertFail, TypeOK
  <2>2. position > started =>
          task'[position].pc \in {task[position].pc, "over"}
          /\ task'[position].timer = task[position].timer
    <3>1. position > started => position \in Offsets
      BY DEF TypeOK
    <3> QED
      BY <1>8, <3>1 DEF InsertFail, TypeOK, Task
  <2>3. main' = main /\ failed \subseteq failed'
    BY <1>8 DEF InsertFail
  <2> QED
    BY <1>8, <2>1, <2>2, <2>3, FinalStays DEF InsertFail
\* A score task goes on: it is the newest one.
<1>9. ASSUME NEW o \in Offsets, Live(o), UNCHANGED <<log, position, started>>,
             main = "poll", OneRunRead'
      PROVE  /\ o = position /\ position > started
             /\ OneRunRead
             /\ \A n \in started + 1..position : log[n] = log[position]
  <2>1. OneRunRead
    BY <1>9 DEF OneRunRead
  <2> QED
    BY <1>9, <2>1, OnlyNewestLives DEF OneRunRead
<1>10. ASSUME NEW o \in Offsets, Scoring(o) \/ TaskFails(o),
              main' = "poll", OneRunRead', position' > started'
       PROVE  FinalInv'
  <2>1. UNCHANGED <<log, position, started, main>> /\ Live(o)
    BY <1>10 DEF Scoring, Wake, FlushDone, Compute, Publishing, TaskFails, TaskStep, Live
  <2>2. /\ o = position /\ position > started /\ OneRunRead
        /\ \A n \in started + 1..position : log[n] = log[position]
    BY <1>9, <1>10, <2>1
  <2>3. CASE Wake(o)
    <3>1. CASE task'[o].pc = "flush"
      <4>1. /\ inserts' = [inserts EXCEPT ![o] = batch_buffer] /\ batch_buffer' = {}
            /\ task[o].pc = "sleep" /\ task[o].timer < Delay
        <5>1. CASE ~Stale(log[o]) /\ batch_buffer # {}
          BY <2>3, <5>1 DEF Wake
        <5>2. CASE ~(~Stale(log[o]) /\ batch_buffer # {})
          BY <2>3, <3>1, <5>2 DEF Wake, TaskStep, TypeOK, Task
        <5> QED
          BY <5>1, <5>2
      <4>2. Quiet
        BY <1>10, <2>1, <2>2, <4>1 DEF FinalInv
      <4>3. \A w \in Writers \ {o} : inserts'[w] = {}
        BY <4>1, <4>2 DEF Quiet, TypeOK
      <4> QED
        BY <2>1, <2>2, <3>1, <4>1, <4>3 DEF FinalInv
    <3>2. CASE task'[o].pc = "score"
      <4>1. /\ inserts' = inserts /\ batch_buffer' = batch_buffer
            /\ task[o].pc = "sleep" /\ task[o].timer < Delay /\ ~Stale(log[o])
        BY <2>3, <3>2 DEF Wake, TaskStep, TypeOK, Task
      <4>2. Quiet
        BY <1>10, <2>1, <2>2, <4>1 DEF FinalInv
      <4>3. batch_buffer = {}
        BY <2>3, <3>2, <4>1 DEF Wake, TaskStep, TypeOK, Task
      <4> QED
        BY <2>1, <2>2, <3>2, <4>1, <4>2, <4>3 DEF FinalInv, Quiet
    <3>3. task'[o].pc \in {"flush", "score", "over"}
      BY <2>3 DEF Wake, TaskStep, TypeOK, Task
    <3> QED
      BY <2>1, <2>2, <3>1, <3>2, <3>3 DEF FinalInv
  <2>4. CASE FlushDone(o)
    <3>1. /\ task'[o].pc = "score" /\ task[o].pc = "flush" /\ inserts[o] = {}
          /\ UNCHANGED <<inserts, batch_buffer>>
      BY <2>4 DEF FlushDone, TaskStep, TypeOK, Task
    <3>2. batch_buffer = {} /\ Quiet
      BY <1>10, <2>1, <2>2, <3>1 DEF FinalInv, Quiet
    <3> QED
      BY <2>1, <2>2, <3>1, <3>2 DEF FinalInv, Quiet
  <2>5. CASE Compute(o)
    <3>1. /\ task[o].pc = "score" /\ task'[o].pc = "update" /\ failed' = failed
          /\ scored' = [scored EXCEPT ![log[o]] =
                {n \in Offsets : order_metrics[n] > 0 /\ n <= Len(log) /\ log[n] = log[o]}]
      BY <2>5 DEF Compute, TaskStep, TypeOK, Task
    <3>2. batch_buffer = {} /\ Quiet
      BY <1>10, <2>1, <2>2, <3>1 DEF FinalInv
    <3>3. log[o] \in Runs
      BY <2>2 DEF TypeOK
    <3>4. ASSUME NEW n \in started + 1..position PROVE n \in scored'[log[o]] \cup failed
      <4>1. n \in Offsets /\ n <= Len(log) /\ log[n] = log[o]
        BY <2>2 DEF TypeOK
      <4>2. n \in failed \/ order_metrics[n] > 0
        BY <1>10, <2>1, <3>2, <4>1 DEF Quiet, RowInv, Accounted
      <4> QED
        BY <3>1, <3>3, <4>1, <4>2 DEF TypeOK
    <3> QED
      BY <2>1, <2>2, <3>1, <3>4 DEF FinalInv
  <2>6. CASE Publishing(o)
    <3>1. /\ task[o].pc = "update" /\ task'[o].pc \in {"update", "done"}
          /\ UNCHANGED <<scored, failed>>
      BY <2>6 DEF Publishing, TaskStep, TypeOK, Task
    <3> QED
      BY <1>10, <2>1, <2>2, <3>1 DEF FinalInv
  <2>7. CASE TaskFails(o)
    <3>1. task'[o].pc = "over"
      BY <2>7 DEF TaskFails, TypeOK, Task
    <3> QED
      BY <2>1, <2>2, <3>1 DEF FinalInv
  <2> QED
    BY <1>10, <2>3, <2>4, <2>5, <2>6, <2>7 DEF Scoring
<1>11. ASSUME NEW o \in Offsets, Scoring(o) \/ TaskFails(o) PROVE FinalInv'
  <2>1. CASE main' = "poll" /\ OneRunRead' /\ position' > started'
    BY <1>10, <1>11, <2>1
  <2>2. CASE ~(main' = "poll" /\ OneRunRead' /\ position' > started')
    BY <2>2 DEF FinalInv
  <2> QED
    BY <2>1, <2>2
<1>12. CASE Tick
  <2>1. position > started => position \in Offsets /\ task'[position].pc = task[position].pc
    BY <1>12 DEF Tick, TypeOK, Task
  <2>2. inserts = [w \in Writers |-> {}]
    BY <1>12 DEF Tick, InFlight, TypeOK
  <2> QED
    BY <1>12, <2>1, <2>2, FinalStays DEF Tick
<1>13. CASE Restart
  BY <1>13 DEF Restart, FinalInv, TypeOK
<1>14. CASE UNCHANGED vars
  BY <1>14, FinalStays DEF vars, memory
<1> QED
  BY <1>1, <1>3, <1>4, <1>5, <1>6, <1>7, <1>8, <1>11, <1>12, <1>13, <1>14
     DEF Next, Consume, EndLoop, InterruptFlush, Stop, Exit, Crash, Die

\* When inserts are faster than the delay and every message this process read is
\* of one run, the score its newest message leaves behind counted all of them,
\* but for the rows the database refused.
THEOREM FinalScoreCounts == ~SlowInserts /\ Spec => []FinalScoreCoversRun
<1>1. Init => FinalInv
  BY DEF Init, FinalInv
<1>2. TypeOK /\ ScorerInv /\ FinalInv => FinalScoreCoversRun
  <2> SUFFICES ASSUME TypeOK, ScorerInv, FinalInv,
                      NEW o \in Offsets, task[o].pc = "done", main = "poll", o = position,
                      Consumed(log[o]) = started + 1..position
               PROVE  Consumed(log[o]) \subseteq scored[log[o]] \cup failed
    BY DEF FinalScoreCoversRun
  <2>1. position > started
    BY DEF ScorerInv, TaskConsumed, TypeOK
  <2>2. OneRunRead
    BY DEF OneRunRead, Consumed
  <2> QED
    BY <2>1, <2>2 DEF FinalInv
<1>3. ~SlowInserts /\ TypeOK /\ ScorerInv /\ RowInv /\ FinalInv /\ [Next]_vars => FinalInv'
  BY FinalStep
<1>4. CASE SlowInserts
  BY <1>4, PTL
<1>5. CASE ~SlowInserts
  BY <1>1, <1>2, <1>3, <1>5, ScorerInvariant, RowInvariant, PTL DEF Spec
<1> QED
  BY <1>4, <1>5
=============================================================================

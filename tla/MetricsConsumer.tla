-------------------------- MODULE MetricsConsumer --------------------------
(***************************************************************************)
(* The telemetry consumer, telemetry/app/consumer/kafka_consumer.py: one   *)
(* asyncio process that reads bot.metrics, buffers rows, writes them to    *)
(* TimescaleDB in batches, and scores a run once it has been silent for    *)
(* Delay time units.  An action is what runs between two awaits.           *)
(*                                                                         *)
(* A message is named by its offset; what the code looks at is its run.    *)
(* The topic is one partition (the broker's default, and one consumer).    *)
(* Insert batches are named by who awaits them: 0 for consume_metrics      *)
(* itself, o for the score task that message o created.                    *)
(***************************************************************************)
EXTENDS Integers, Sequences, FiniteSets

CONSTANTS
    Runs, Teams, TeamOf, Scores, None,  \* of Leaderboard
    BATCH_SIZE,      \* rows that trigger a flush (5000 in the code)
    Delay,           \* silence after which a run is scored (5 s in the code)
    MaxMessages,     \* bound: messages published
    MaxRestarts,     \* bound: ends of the process, wanted or not
    MaxFailures,     \* bound: calls to TimescaleDB or Redis that raise
    SlowInserts      \* whether an insert may take as long as Delay

ASSUME BoundsAssumption ==
    /\ BATCH_SIZE \in Nat \ {0} /\ Delay \in Nat \ {0}
    /\ MaxMessages \in Nat /\ MaxRestarts \in Nat /\ MaxFailures \in Nat
    /\ SlowInserts \in BOOLEAN

ASSUME TeamOfAssumption == TeamOf \in [Runs -> Teams]
ASSUME ScoresAssumption == Scores \subseteq Nat /\ None \notin Nat

Offsets == 1..MaxMessages
Writers == 0..MaxMessages

VARIABLES
    log,              \* bot.metrics: log[o] is the run of message o
    position,         \* messages 1..position were handed to the loop
    committed,        \* the group's committed offset
    started,          \* where this life of the process began to read
    batch_buffer,     \* rows in memory
    inserts,          \* inserts[w]: the batch writer w is inserting, or {}
    order_metrics,    \* how many rows of each message the table holds
    failed,           \* rows whose insert raised
    main,             \* what consume_metrics awaits
    silence,          \* time since run_last_seen[r], up to Delay (also: no entry)
    run_score_tasks,  \* the message whose task is registered for a run, or 0
    task,             \* the score task each message created in this life
    scored,           \* the messages the latest score of a run counted
    restarts, failures,
    leaderboard, details, update

L == INSTANCE Leaderboard

memory == <<batch_buffer, inserts, main, silence, run_score_tasks, task>>
redis  == <<leaderboard, details, update>>
vars   == <<log, position, committed, started, memory, order_metrics, failed,
            scored, restarts, failures, redis>>

Task   == [pc : {"none", "sleep", "flush", "score", "update", "done", "over"},
           timer : 0..Delay]
NoTask == [pc |-> "none", timer |-> 0]
MainPc == {"poll", "flush", "closing", "stopping", "exited", "crashed"}

TypeOK ==
    /\ log \in Seq(Runs) /\ Len(log) <= MaxMessages
    /\ position \in 0..Len(log) /\ committed \in 0..position /\ started \in 0..position
    /\ batch_buffer \subseteq Offsets
    /\ inserts \in [Writers -> SUBSET Offsets]
    /\ order_metrics \in [Offsets -> Nat]
    /\ failed \subseteq Offsets
    /\ main \in MainPc
    /\ silence \in [Runs -> 0..Delay]
    /\ run_score_tasks \in [Runs -> Writers]
    /\ task \in [Offsets -> Task]
    /\ scored \in [Runs -> SUBSET Offsets]
    /\ restarts \in 0..MaxRestarts /\ failures \in 0..MaxFailures
    /\ L!TypeOK

Init ==
    /\ log = <<>> /\ position = 0 /\ committed = 0 /\ started = 0
    /\ batch_buffer = {} /\ inserts = [w \in Writers |-> {}]
    /\ order_metrics = [o \in Offsets |-> 0] /\ failed = {}
    /\ main = "poll"
    /\ silence = [r \in Runs |-> Delay]
    /\ run_score_tasks = [r \in Runs |-> 0]
    /\ task = [o \in Offsets |-> NoTask]
    /\ scored = [r \in Runs |-> {}]
    /\ restarts = 0 /\ failures = 0
    /\ L!Init

Up          == main \notin {"exited", "crashed"}
Live(o)     == task[o].pc \in {"sleep", "flush", "score", "update"}
InFlight    == UNION {inserts[w] : w \in Writers}
Consumed(r) == {o \in started + 1..position : log[o] = r}

(***************************************************************************)
(* The bots: order metrics of the runs, in any interleaving.               *)
(***************************************************************************)
Publish(r) ==
    /\ Len(log) < MaxMessages
    /\ log' = Append(log, r)
    /\ UNCHANGED <<position, committed, started, memory, order_metrics, failed,
                   scored, restarts, failures, redis>>

(***************************************************************************)
(* consume_metrics                                                         *)
(***************************************************************************)
\* mutant: the task that is already scheduled is not cancelled
RegisterOnly(o) ==
    /\ silence' = [silence EXCEPT ![log[o]] = 0]
    /\ run_score_tasks' = [run_score_tasks EXCEPT ![log[o]] = o]
    /\ task' = [task EXCEPT ![o] = [pc |-> "sleep", timer |-> Delay]]
    /\ UNCHANGED redis

\* mutant: a task that is past its sleep is left to finish
RegisterSparing(o) ==
    LET old == run_score_tasks[log[o]]
    IN  /\ silence' = [silence EXCEPT ![log[o]] = 0]
        /\ run_score_tasks' = [run_score_tasks EXCEPT ![log[o]] = o]
        /\ task' = [n \in Offsets |->
                     IF n = o THEN [pc |-> "sleep", timer |-> Delay]
                     ELSE IF n = old /\ task[n].pc = "sleep" THEN [pc |-> "over", timer |-> 0]
                     ELSE task[n]]
        /\ UNCHANGED redis

\* run_last_seen is refreshed, the run's registered task is cancelled at the
\* await it has reached (a shielded insert goes on), and a new one is created.
Register(o) ==
    LET r == log[o]
        old == run_score_tasks[r]
    IN  /\ silence' = [silence EXCEPT ![r] = 0]
        /\ run_score_tasks' = [run_score_tasks EXCEPT ![r] = o]
        /\ task' = [n \in Offsets |->
                     IF n = o THEN [pc |-> "sleep", timer |-> Delay]
                     ELSE IF n = old /\ Live(n) THEN [pc |-> "over", timer |-> 0]
                     ELSE task[n]]
        /\ IF old # 0 /\ task[old].pc = "update" THEN L!Abort({r}) ELSE UNCHANGED redis

\* The loop receives the next message.  A full buffer is flushed first, and
\* the run's bookkeeping waits until the insert is through.
Receive ==
    LET o == position + 1
        buffer == batch_buffer \cup {o}
    IN  /\ main = "poll" /\ position < Len(log)
        /\ position' = o
        /\ IF Cardinality(buffer) >= BATCH_SIZE
             THEN /\ inserts' = [inserts EXCEPT ![0] = buffer]
                  /\ batch_buffer' = {}
                  /\ main' = "flush"
                  /\ UNCHANGED <<silence, run_score_tasks, task, redis>>
             ELSE /\ batch_buffer' = buffer
                  /\ Register(o)
                  /\ UNCHANGED <<inserts, main>>
        /\ UNCHANGED <<log, committed, started, order_metrics, failed, scored,
                       restarts, failures>>

\* The flush that Receive waited for is through.
Resume ==
    /\ main = "flush" /\ inserts[0] = {}
    /\ main' = "poll"
    /\ Register(position)
    /\ UNCHANGED <<log, position, committed, started, batch_buffer, inserts,
                   order_metrics, failed, scored, restarts, failures>>

\* aiokafka commits the position of the loop in the background, whatever has
\* become of the messages up to it.
AutoCommit ==
    /\ Up /\ committed # position
    /\ committed' = position
    /\ UNCHANGED <<log, position, started, memory, order_metrics, failed, scored,
                   restarts, failures, redis>>

\* The loop ends (a broker error, except/finally): what is buffered is flushed.
EndLoop ==
    /\ main = "poll" /\ restarts < MaxRestarts
    /\ main' = "closing"
    /\ inserts' = [inserts EXCEPT ![0] = batch_buffer]
    /\ batch_buffer' = {}
    /\ UNCHANGED <<log, position, committed, started, order_metrics, failed, silence,
                   run_score_tasks, task, scored, restarts, failures, redis>>

\* The process is told to end while the loop flushes: the shielded insert goes
\* on, the buffer is empty, and consumer.stop() commits the position.
InterruptFlush ==
    /\ main = "flush" /\ restarts < MaxRestarts
    /\ main' = "stopping"
    /\ committed' = position
    /\ UNCHANGED <<log, position, started, batch_buffer, inserts, order_metrics, failed,
                   silence, run_score_tasks, task, scored, restarts, failures, redis>>

\* consumer.stop() commits the position.
Stop ==
    /\ main = "closing" /\ inserts[0] = {}
    /\ main' = "stopping"
    /\ committed' = position
    /\ UNCHANGED <<log, position, started, batch_buffer, inserts, order_metrics, failed,
                   silence, run_score_tasks, task, scored, restarts, failures, redis>>

\* Everything in memory is gone, the score tasks with it.
Die(how) ==
    /\ main' = how
    /\ batch_buffer' = {}
    /\ inserts' = [w \in Writers |-> {}]
    /\ silence' = [r \in Runs |-> Delay]
    /\ run_score_tasks' = [r \in Runs |-> 0]
    /\ task' = [o \in Offsets |-> NoTask]
    /\ LET updating == {r \in Runs : L!Updating(r)}
       IN  IF updating = {} THEN UNCHANGED redis ELSE L!Abort(updating)
    /\ UNCHANGED <<log, position, started, failed, scored, restarts, failures>>

\* db_pool.close() has waited for the connections that still insert, and
\* asyncio.run cancels the score tasks that are left.
Exit ==
    /\ main = "stopping" /\ InFlight = {}
    /\ Die("exited")
    /\ UNCHANGED <<committed, order_metrics>>

(***************************************************************************)
(* Batches on their way to TimescaleDB; a batch is one transaction.        *)
(***************************************************************************)
Insert(rows) == order_metrics' = [o \in Offsets |->
                    order_metrics[o] + IF o \in rows THEN 1 ELSE 0]

InsertDone(w) ==
    /\ inserts[w] # {}
    /\ Insert(inserts[w])
    /\ inserts' = [inserts EXCEPT ![w] = {}]
    /\ UNCHANGED <<log, position, committed, started, batch_buffer, failed, main, silence,
                   run_score_tasks, task, scored, restarts, failures, redis>>

\* The insert raises.  The rows are in no variable any more; who awaits them
\* ends: the score task, or the loop, unless it was interrupted.  (If the flush
\* of the finally block raises, the process ends without consumer.stop(): that
\* is a Crash.)
InsertFail(w) ==
    /\ inserts[w] # {} /\ failures < MaxFailures
    /\ w = 0 => main \in {"flush", "stopping"}
    /\ failures' = failures + 1
    /\ failed' = failed \cup inserts[w]
    /\ inserts' = [inserts EXCEPT ![w] = {}]
    /\ main' = IF w = 0 /\ main = "flush" THEN "closing" ELSE main
    /\ task' = [o \in Offsets |-> IF o = w /\ task[o].pc = "flush"
                                   THEN [task[o] EXCEPT !.pc = "over"] ELSE task[o]]
    /\ UNCHANGED <<log, position, committed, started, batch_buffer, order_metrics,
                   silence, run_score_tasks, scored, restarts, redis>>

(***************************************************************************)
(* score_after_delay: the task of message o                                *)
(***************************************************************************)
TaskStep(o, pc) ==
    /\ task' = [task EXCEPT ![o].pc = pc]
    /\ UNCHANGED <<log, position, committed, started, order_metrics, failed, main,
                   restarts, failures>>

StaleAtDelay(r) == silence[r] <= Delay     \* mutant: >= for > in the test

\* run_last_seen is within the last Delay
Stale(r) == silence[r] < Delay

\* mutant: no flush before scoring
WakeToScore(o) ==
    /\ task[o].pc = "sleep" /\ task[o].timer = 0
    /\ TaskStep(o, "score")
    /\ UNCHANGED <<inserts, batch_buffer, silence, run_score_tasks, scored, redis>>

\* The sleep is over: a stale task ends, another one flushes the buffer, which
\* holds rows of every run, or goes on to score if the buffer is empty.
Wake(o) ==
    /\ task[o].pc = "sleep" /\ task[o].timer = 0
    /\ UNCHANGED <<silence, run_score_tasks, scored, redis>>
    /\ IF ~Stale(log[o]) /\ batch_buffer # {}
         THEN /\ inserts' = [inserts EXCEPT ![o] = batch_buffer]
              /\ batch_buffer' = {}
              /\ TaskStep(o, "flush")
         ELSE /\ TaskStep(o, IF Stale(log[o]) THEN "over" ELSE "score")
              /\ UNCHANGED <<inserts, batch_buffer>>

\* mutant: the buffer is cleared once the insert is through
FlushDoneClears(o) ==
    /\ task[o].pc = "flush" /\ inserts[o] = {}
    /\ batch_buffer' = {}
    /\ TaskStep(o, "score")
    /\ UNCHANGED <<inserts, silence, run_score_tasks, scored, redis>>

FlushDone(o) ==
    /\ task[o].pc = "flush" /\ inserts[o] = {}
    /\ TaskStep(o, "score")
    /\ UNCHANGED <<batch_buffer, inserts, silence, run_score_tasks, scored, redis>>

\* compute_scores: one query over the rows the table holds now.
Compute(o) ==
    /\ task[o].pc = "score"
    /\ scored' = [scored EXCEPT ![log[o]] =
                    {n \in Offsets : order_metrics[n] > 0 /\ n <= Len(log) /\ log[n] = log[o]}]
    /\ \E s \in Scores : L!Begin(log[o], s)
    /\ TaskStep(o, "update")
    /\ UNCHANGED <<batch_buffer, inserts, silence, run_score_tasks>>

\* update_leaderboard goes on; when it returns, the score is broadcast (a
\* blocking call whose failure is caught) and the run's entries are removed.
Publishing(o) ==
    LET r == log[o] IN
    /\ task[o].pc = "update"
    /\ L!Step(r)
    /\ IF update'[r].pc = "idle"
         THEN /\ silence' = [silence EXCEPT ![r] = Delay]
              /\ run_score_tasks' = [run_score_tasks EXCEPT ![r] = 0]
              /\ TaskStep(o, "done")
         ELSE /\ TaskStep(o, "update")
              /\ UNCHANGED <<silence, run_score_tasks>>
    /\ UNCHANGED <<batch_buffer, inserts, scored>>

\* The query or a Redis command raises: the task ends and nobody is told.
TaskFails(o) ==
    /\ task[o].pc \in {"score", "update"} /\ failures < MaxFailures
    /\ failures' = failures + 1
    /\ task' = [task EXCEPT ![o].pc = "over"]
    /\ IF task[o].pc = "update" THEN L!Abort({log[o]}) ELSE UNCHANGED redis
    /\ UNCHANGED <<log, position, committed, started, batch_buffer, inserts, order_metrics,
                   failed, main, silence, run_score_tasks, scored, restarts>>

\* Time passes.  Nothing is urgent: a timer that has run out may wait.
Tick ==
    /\ SlowInserts \/ InFlight = {}
    /\ \/ \E r \in Runs : silence[r] < Delay
       \/ \E o \in Offsets : task[o].timer > 0
    /\ silence' = [r \in Runs |-> IF silence[r] < Delay THEN silence[r] + 1 ELSE Delay]
    /\ task' = [o \in Offsets |-> IF task[o].timer > 0
                                   THEN [task[o] EXCEPT !.timer = @ - 1] ELSE task[o]]
    /\ UNCHANGED <<log, position, committed, started, batch_buffer, inserts, order_metrics,
                   failed, main, run_score_tasks, scored, restarts, failures, redis>>

(***************************************************************************)
(* The process is killed; what was on the wire may still be committed by   *)
(* the database.  A new process starts at the committed offset.            *)
(***************************************************************************)
Crash ==
    /\ Up /\ restarts < MaxRestarts
    /\ \E W \in SUBSET {w \in Writers : inserts[w] # {}} :
          Insert(UNION {inserts[w] : w \in W})
    /\ Die("crashed")
    /\ UNCHANGED committed

\* mutant: the message after the committed offset is skipped
RestartPastCommitted ==
    /\ ~Up /\ restarts < MaxRestarts
    /\ main' = "poll"
    /\ position' = committed + 1 /\ started' = committed + 1
    /\ restarts' = restarts + 1
    /\ UNCHANGED <<log, committed, batch_buffer, inserts, order_metrics, failed, silence,
                   run_score_tasks, task, scored, failures, redis>>

Restart ==
    /\ ~Up /\ restarts < MaxRestarts
    /\ main' = "poll"
    /\ position' = committed /\ started' = committed
    /\ restarts' = restarts + 1
    /\ UNCHANGED <<log, committed, batch_buffer, inserts, order_metrics, failed, silence,
                   run_score_tasks, task, scored, failures, redis>>

(***************************************************************************)
(* Specification.  The event loop runs every ready task, the database and  *)
(* Redis answer, and the clock goes on; nothing else is fair.              *)
(***************************************************************************)
Consume == Receive \/ Resume \/ AutoCommit \/ EndLoop \/ InterruptFlush \/ Stop \/ Exit
Scoring(o) == Wake(o) \/ FlushDone(o) \/ Compute(o) \/ Publishing(o)

Next ==
    \/ \E r \in Runs : Publish(r)
    \/ Consume
    \/ \E w \in Writers : InsertDone(w) \/ InsertFail(w)
    \/ \E o \in Offsets : Scoring(o) \/ TaskFails(o)
    \/ Tick
    \/ Crash \/ Restart

Spec == Init /\ [][Next]_vars

Fairness ==
    /\ WF_vars(Receive) /\ WF_vars(Resume) /\ WF_vars(Stop) /\ WF_vars(Exit)
    /\ \A w \in Writers : WF_vars(InsertDone(w))
    /\ \A o \in Offsets : WF_vars(Scoring(o))
    /\ WF_vars(Tick) /\ WF_vars(Restart)

FairSpec == Spec /\ Fairness

(***************************************************************************)
(* Properties                                                              *)
(***************************************************************************)
\* Unless the process was killed, each message read in this life is buffered,
\* in exactly one insert, in the table, or was in a batch whose insert raised:
\* the synchronous copy-and-clear of flush_batch and the shield lose nothing.
NothingLost ==
    main # "crashed" =>
        /\ \A o \in started + 1..position :
              o \in batch_buffer \cup InFlight \cup failed \/ order_metrics[o] > 0
        /\ \A w \in Writers : inserts[w] \cap batch_buffer = {}
        /\ \A v, w \in Writers : v # w => inserts[v] \cap inserts[w] = {}

\* The table has no key, so a redelivered message is inserted again; but a row
\* is inserted at most once per life of the process.
NeverDuplicated == \A o \in Offsets : order_metrics[o] <= restarts + 1

\* Rows are neither lost nor written twice by what this process does.
RowsAccountedFor == NothingLost /\ NeverDuplicated

\* While the loop waits for a message there is at most one live score task of a
\* run: the registered one, of the newest message of the run.
NewestScorer ==
    main = "poll" =>
        \A o \in Offsets : Live(o) =>
            /\ run_score_tasks[log[o]] = o
            /\ \A n \in Consumed(log[o]) : n <= o

\* The staleness test of score_after_delay never succeeds: consume_metrics
\* refreshes run_last_seen and cancels the task in one go, so that what aborts
\* a superseded task is the cancellation alone.
StaleCheckNeverFires ==
    \A o \in Offsets : task[o].pc = "sleep" /\ task[o].timer = 0 => ~Stale(log[o])

\* "Wait `delay` seconds after last message": the run that a task flushes for,
\* scores or publishes is still silent when it does.  The time is looked up once,
\* before three awaits during which the loop goes on reading; what makes it hold
\* after them is that the loop cancels the task with every message it registers.
ScoresInSilence ==
    \A o \in Offsets :
        task[o].pc \in {"flush", "score", "update"} => silence[log[o]] = Delay

\* "compute final score": when all messages this process received are of one
\* run, and inserts are faster than Delay, the score of the run's newest message
\* counted every one of them, but for the rows the database refused.  (With two
\* runs it need not: a task whose buffer is empty does not wait for the insert
\* of another run's task, which may hold rows of its own run.)
FinalScoreCoversRun ==
    \A o \in Offsets :
        task[o].pc = "done" /\ main = "poll" /\ Consumed(log[o]) = started + 1..position
        /\ o = position => Consumed(log[o]) \subseteq scored[log[o]] \cup failed

\* "schedule a new score task - will fire 5s after last message": the team of a
\* run of which a message was received gets an entry.
EveryRunScored ==
    \A r \in Runs : (Consumed(r) # {}) ~> (leaderboard[TeamOf[r]] # None)

\* A message that was received ends up in the table, also when its batch never
\* fills: some score task flushes it.
EveryRowStored ==
    \A o \in Offsets : (o \in started + 1..position) ~> (order_metrics[o] > 0)

\* What the score tasks do to Redis, cancelled at any point or killed with the
\* process, are steps of update_leaderboard: by the way the modules are composed,
\* and used as a lemma.
ImplementsLeaderboard == L!Spec

\* ARCHITECTURE.md: Redis "enforces a strict All-Time High policy".
ImplementsAllTimeHigh == L!ImplementsAllTimeHigh
=============================================================================

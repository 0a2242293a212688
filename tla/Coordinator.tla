---------------------------- MODULE Coordinator ----------------------------
(***************************************************************************)
(* The bot-fleet coordinator: the consumer loop of submission.ready        *)
(* (botfleet/internal/consumer/submission.go), the handler that tests one  *)
(* submission (botfleet/cmd/coordinator/main.go), its bots                 *)
(* (botfleet/internal/bot/runner.go) and the run documents in Redis        *)
(* (botfleet/internal/state/redis.go).                                     *)
(*                                                                         *)
(* The topic is one partition.  An event is named by its offset; a run, a  *)
(* fresh uuid per call of the handler, by the life of the process and the  *)
(* offset.  Orders, fills and certification scores are left out: how they  *)
(* are judged changes no state here.                                       *)
(***************************************************************************)
EXTENDS Integers, FiniteSets

CONSTANTS
    Bots,            \* BOT_COUNT bots per run
    Slots,           \* slots of a bot's semaphore (100 in the code)
    Timeout,         \* of the bots' HTTP client (5 s in the code)
    Cooldown,        \* pause after a run (30 s in the code)
    MaxEvents,       \* bound: events published
    MaxRestarts,     \* bound: restarts of the process
    MaxFailures      \* bound: calls to Redis, Kafka or the engine that fail

ASSUME BoundsAssumption ==
    /\ Timeout \in Nat /\ Cooldown \in Nat
    /\ MaxEvents \in Nat /\ MaxRestarts \in Nat /\ MaxFailures \in Nat

\* Every order a bot fired has been answered or has timed out by the end of the
\* pause.
ASSUME CooldownAssumption == Timeout < Cooldown

Offsets == 1..MaxEvents
Lives   == 0..MaxRestarts
RunIDs  == Lives \X Offsets

VARIABLES
    published,    \* events 1..published are in the topic
    bad,          \* those of them that cannot be parsed
    position,     \* events 1..position were fetched
    committed,    \* the group's committed offset
    life,         \* restarts so far
    pc,           \* where the loop and the handler stand
    cancelled,    \* whether the signal context is cancelled
    status,       \* status[r]: of the document run:r in Redis, or "none"
    bots,         \* the bots of the current run that have not returned
    inflight,     \* the orders that fireOrder goroutines wait for
    measured,     \* the runs of which bot.metrics holds a message
    remaining,    \* what is left of the pause
    finished,     \* the runs whose handler returned nil
    errored,      \* the runs whose handler returned an error
    failures

loop == <<position, committed, life, cancelled>>
fleet == <<bots, inflight, measured>>
vars == <<published, bad, loop, pc, status, fleet, remaining, finished, errored, failures>>

Pc      == {"fetch", "certify", "setrun", "bots", "delete", "judge", "done", "failed",
            "cooldown", "commit", "stopped", "crashed"}
Inflight == [run : RunIDs, bot : Bots, slot : Slots, left : 0..Timeout]

TypeOK ==
    /\ published \in 0..MaxEvents /\ bad \subseteq 1..published
    /\ position \in 0..published /\ committed \in 0..position
    /\ life \in Lives
    /\ pc \in Pc
    /\ cancelled \in BOOLEAN
    /\ status \in [RunIDs -> {"none", "RUNNING", "DONE", "FAILED"}]
    /\ bots \subseteq Bots
    /\ inflight \subseteq Inflight
    /\ measured \subseteq RunIDs /\ finished \subseteq RunIDs /\ errored \subseteq RunIDs
    /\ remaining \in 0..Cooldown
    /\ failures \in 0..MaxFailures
    /\ pc \in {"certify", "setrun", "bots", "delete", "judge", "done", "failed", "cooldown",
               "commit"} => position \in Offsets

Init ==
    /\ published = 0 /\ bad = {}
    /\ position = 0 /\ committed = 0 /\ life = 0
    /\ pc = "fetch"
    /\ cancelled = FALSE
    /\ status = [r \in RunIDs |-> "none"]
    /\ bots = {} /\ inflight = {} /\ measured = {}
    /\ remaining = 0
    /\ finished = {} /\ errored = {}
    /\ failures = 0

Run == <<life, position>>      \* of the event that was fetched last
Up  == pc \notin {"stopped", "crashed"}

Goto(from, to) == pc = from /\ pc' = to

\* A call that takes ctx fails if ctx is cancelled; others fail now and then, and
\* what was written when the answer was lost is written.
Fails ==
    \/ cancelled /\ UNCHANGED failures
    \/ failures < MaxFailures /\ failures' = failures + 1

(***************************************************************************)
(* The sandbox engine: an event, at times one that is not JSON.            *)
(***************************************************************************)
Publish ==
    /\ published < MaxEvents
    /\ published' = published + 1
    /\ bad' \in {bad, bad \cup {published'}}
    /\ UNCHANGED <<loop, pc, status, fleet, remaining, finished, errored, failures>>

(***************************************************************************)
(* SubmissionConsumer.Run                                                  *)
(***************************************************************************)
\* mutant: ReadMessage for FetchMessage, which commits what it returns
FetchAndCommit ==
    /\ pc = "fetch" /\ position < published
    /\ position' = position + 1
    /\ committed' = position'
    /\ pc' = IF position' \in bad THEN "commit" ELSE "certify"
    /\ UNCHANGED <<published, bad, life, cancelled, status, fleet, remaining,
                   finished, errored, failures>>

\* FetchMessage.  With ctx cancelled it may still return a message, for select
\* takes either.  A bad message is skipped and committed.
Fetch ==
    /\ pc = "fetch" /\ position < published
    /\ position' = position + 1
    /\ pc' = IF position' \in bad THEN "commit" ELSE "certify"
    /\ UNCHANGED <<published, bad, committed, life, cancelled, status, fleet, remaining,
                   finished, errored, failures>>

\* Clean shutdown.
FetchCancelled ==
    /\ cancelled
    /\ Goto("fetch", "stopped")
    /\ inflight' = {}
    /\ UNCHANGED <<published, bad, loop, status, bots, measured, remaining, finished,
                   errored, failures>>

\* CommitMessages: the offset of this message, and so of all before it.
Commit ==
    /\ Goto("commit", "fetch")
    /\ committed' = position
    /\ UNCHANGED <<published, bad, position, life, cancelled, status, fleet, remaining,
                   finished, errored, failures>>

\* Its error is ignored.
CommitFails ==
    /\ Goto("commit", "fetch")
    /\ Fails
    /\ committed' \in {committed, position}
    /\ UNCHANGED <<published, bad, position, life, cancelled, status, fleet, remaining,
                   finished, errored>>

(***************************************************************************)
(* The handler                                                             *)
(***************************************************************************)
\* runCertification: a few orders one after the other, whatever they return.
Certify ==
    /\ Goto("certify", "setrun")
    /\ UNCHANGED <<published, bad, loop, status, fleet, remaining, finished, errored, failures>>

\* SetRun, then BOT_COUNT goroutines.
SetRun ==
    /\ Goto("setrun", "bots")
    /\ ~cancelled
    /\ status' = [status EXCEPT ![Run] = "RUNNING"]
    /\ bots' = Bots
    /\ UNCHANGED <<published, bad, loop, inflight, measured, remaining, finished, errored,
                   failures>>

\* mutant: the error is logged, and the bots start
SetRunFailsBotsStart ==
    /\ Goto("setrun", "bots")
    /\ Fails
    /\ bots' = Bots
    /\ UNCHANGED <<published, bad, loop, status, inflight, measured, remaining, finished, errored>>

\* The handler returns the error: the message is not committed.
SetRunFails ==
    /\ Goto("setrun", "fetch")
    /\ Fails
    /\ status' \in {status, [status EXCEPT ![Run] = "RUNNING"]}
    /\ errored' = errored \cup {Run}
    /\ UNCHANGED <<published, bad, loop, fleet, remaining, finished>>

\* wg.Wait(): the bots have returned, their last orders perhaps not.
BotsReturned ==
    /\ bots = {}
    /\ Goto("bots", "delete")
    /\ UNCHANGED <<published, bad, loop, status, fleet, remaining, finished, errored, failures>>

\* DELETE /submissions/:id, whatever it answers: without ctx and without a timeout,
\* so that it may wait for ever, and a signal does not end it.
Delete ==
    /\ Goto("delete", "judge")
    /\ UNCHANGED <<published, bad, loop, status, fleet, remaining, finished, errored, failures>>

\* mutant: the condition is the wrong way round
JudgeSwapped ==
    /\ pc = "judge"
    /\ pc' = IF cancelled THEN "done" ELSE "failed"
    /\ UNCHANGED <<published, bad, loop, status, fleet, remaining, finished, errored, failures>>

\* finalStatus, by ctx.Err()
Judge ==
    /\ pc = "judge"
    /\ pc' = IF cancelled THEN "failed" ELSE "done"
    /\ UNCHANGED <<published, bad, loop, status, fleet, remaining, finished, errored, failures>>

Final == [done |-> "DONE", failed |-> "FAILED"]

\* mutant: the status of a submission for that of a run
UpdateStatusCompleted ==
    /\ pc \in {"done", "failed"} /\ pc' = "cooldown"
    /\ ~cancelled
    /\ status' = [status EXCEPT ![Run] = "COMPLETED"]
    /\ remaining' = Cooldown
    /\ UNCHANGED <<published, bad, loop, fleet, finished, errored, failures>>

\* UpdateStatus: GET and SET of the document, both with ctx.
UpdateStatus ==
    /\ pc \in {"done", "failed"} /\ pc' = "cooldown"
    /\ ~cancelled
    /\ status' = [status EXCEPT ![Run] = Final[pc]]
    /\ remaining' = Cooldown
    /\ UNCHANGED <<published, bad, loop, fleet, finished, errored, failures>>

\* Its error is ignored.  What was written may be DONE, not FAILED: the ctx whose
\* end makes a run FAILED is the one that the document is read and written with.
UpdateStatusFails ==
    /\ pc \in {"done", "failed"} /\ pc' = "cooldown"
    /\ Fails
    /\ \/ UNCHANGED status
       \/ pc = "done" /\ status' = [status EXCEPT ![Run] = Final[pc]]
    /\ remaining' = Cooldown
    /\ UNCHANGED <<published, bad, loop, fleet, finished, errored>>

\* mutant: the handler does not wait for the timer
CooldownSkipped ==
    /\ Goto("cooldown", "commit")
    /\ remaining' = 0
    /\ finished' = finished \cup {Run}
    /\ UNCHANGED <<published, bad, loop, status, fleet, errored, failures>>

\* The pause is over, or ctx is cancelled; the handler returns nil.
CooldownOver ==
    /\ Goto("cooldown", "commit")
    /\ remaining = 0 \/ cancelled
    /\ remaining' = 0
    /\ finished' = finished \cup {Run}
    /\ UNCHANGED <<published, bad, loop, status, fleet, errored, failures>>

(***************************************************************************)
(* The bots (bot.Run and fireOrder)                                        *)
(***************************************************************************)
\* The ticker ticks and a slot of the semaphore is free.  ctx may be cancelled
\* already, for select takes either.
Fire(b, i) ==
    /\ pc = "bots" /\ b \in bots
    /\ \A o \in inflight : o.run = Run /\ o.bot = b => o.slot # i
    /\ inflight' = inflight \cup {[run |-> Run, bot |-> b, slot |-> i, left |-> Timeout]}
    /\ UNCHANGED <<published, bad, loop, pc, status, bots, measured, remaining, finished,
                   errored, failures>>

\* The deadline is over or ctx is cancelled.
BotReturns(b) ==
    /\ pc = "bots" /\ b \in bots
    /\ bots' = bots \ {b}
    /\ UNCHANGED <<published, bad, loop, pc, status, inflight, measured, remaining, finished,
                   errored, failures>>

\* The response, or the timeout: the metric is published, or lost with the
\* asynchronous writer.
Answer(o) ==
    /\ inflight' = inflight \ {o}
    /\ measured' \in {measured, measured \cup {o.run}}
    /\ UNCHANGED <<published, bad, loop, pc, status, bots, remaining, finished, errored, failures>>

(***************************************************************************)
(* Time, signals, crashes and restarts                                     *)
(***************************************************************************)
\* No order waits longer than the client's timeout.
Tick ==
    /\ \A o \in inflight : o.left > 0
    /\ remaining > 0 \/ inflight # {}
    /\ remaining' = IF remaining > 0 THEN remaining - 1 ELSE 0
    /\ inflight' = {[o EXCEPT !.left = @ - 1] : o \in inflight}
    /\ UNCHANGED <<published, bad, loop, pc, status, bots, measured, finished, errored, failures>>

\* SIGTERM
Cancel ==
    /\ Up /\ ~cancelled /\ life < MaxRestarts
    /\ cancelled' = TRUE
    /\ UNCHANGED <<published, bad, position, committed, life, pc, status, fleet, remaining,
                   finished, errored, failures>>

Crash ==
    /\ Up /\ life < MaxRestarts
    /\ pc' = "crashed"
    /\ inflight' = {} /\ bots' = {} /\ remaining' = 0
    /\ UNCHANGED <<published, bad, loop, status, measured, finished, errored, failures>>

\* mutant: the reader starts at the end of the topic
RestartAtEnd ==
    /\ ~Up /\ life < MaxRestarts
    /\ life' = life + 1
    /\ pc' = "fetch"
    /\ position' = published
    /\ cancelled' = FALSE
    /\ UNCHANGED <<published, bad, committed, status, fleet, remaining, finished, errored,
                   failures>>

\* The group goes on at its committed offset.
Restart ==
    /\ ~Up /\ life < MaxRestarts
    /\ life' = life + 1
    /\ pc' = "fetch"
    /\ position' = committed
    /\ cancelled' = FALSE
    /\ UNCHANGED <<published, bad, committed, status, fleet, remaining, finished, errored,
                   failures>>

(***************************************************************************)
(* Specification.  The orders of the certification and the bots have       *)
(* timeouts and deadlines, Redis and Kafka answer or fail.  Nothing bounds *)
(* the wait for the answer to DELETE: it is no part of the fair Handler.   *)
(***************************************************************************)
Loop == Fetch \/ FetchCancelled \/ Commit \/ CommitFails
Handler ==
    \/ Certify \/ SetRun \/ SetRunFails \/ BotsReturned \/ Judge
    \/ UpdateStatus \/ UpdateStatusFails \/ CooldownOver

Next ==
    \/ Publish
    \/ Loop \/ Handler \/ Delete
    \/ \E b \in Bots : BotReturns(b) \/ \E i \in Slots : Fire(b, i)
    \/ \E o \in inflight : Answer(o)
    \/ Tick
    \/ Cancel \/ Crash \/ Restart

Spec == Init /\ [][Next]_vars

Fairness ==
    /\ WF_vars(Loop) /\ WF_vars(Handler)
    /\ \A b \in Bots : WF_vars(BotReturns(b))
    /\ WF_vars(\E o \in inflight : o.left = 0 /\ Answer(o))
    /\ WF_vars(Tick) /\ WF_vars(Restart)

FairSpec == Spec /\ Fairness

(***************************************************************************)
(* Properties                                                              *)
(***************************************************************************)
Ended(o) == \E l \in Lives : <<l, o>> \in finished
Erred(o) == \E l \in Lives : <<l, o>> \in errored

\* The committed offset never passes an event that is still being tested or was
\* not even looked at: all before it were tested to the end, could not be
\* parsed, or made the handler fail.
CommittedWasHandled ==
    \A o \in 1..committed : o \in bad \/ Ended(o) \/ Erred(o)

\* A metric that reaches bot.metrics is of a run whose document is in Redis,
\* where the scoring looks for the team: SetRun comes before the first order.
MetricsHaveRun ==
    \A r \in RunIDs :
        r \in measured \/ (\E o \in inflight : o.run = r) => status[r] # "none"

\* When the next submission is certified no order of an earlier run is on its
\* way: the bots do not wait for their last orders, but the pause outlasts them.
QuietBeforeRun ==
    pc \in {"certify", "setrun"} /\ ~cancelled => inflight = {}

\* Every event is handled, unless the process ends - or waits for ever for the
\* answer to one DELETE, which holds up all events behind it.
EveryEventHandled ==
    \A o \in Offsets :
        []<>(pc # "delete") =>
            ((o <= published) ~> (o \in bad \/ Ended(o) \/ Erred(o) \/ ~Up))

\* submission.go: "Don't commit - retry on restart": an event whose handler
\* failed is not passed by the committed offset before it was tested.
FailedNotCommitted ==
    \A o \in 1..committed : o \in bad \/ Ended(o)

\* A run whose handler has returned is DONE in Redis, and none is that did not
\* return: unless a signal came, or a call failed that writes the document.
TestedIsDone ==
    Up /\ ~cancelled /\ failures = 0 =>
        \A r \in RunIDs : r[1] = life =>
            (status[r] = "DONE" <=> r \in finished \/ (r = Run /\ pc = "cooldown"))
=============================================================================

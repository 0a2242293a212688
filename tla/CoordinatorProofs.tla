------------------------- MODULE CoordinatorProofs -------------------------
(***************************************************************************)
(* Coordinator, for any number of bots, events, restarts and failures and  *)
(* any pause that is longer than the bots' timeout: what is committed was  *)
(* handled, every metric belongs to a run that Redis knows, and a run      *)
(* starts when the orders of the last one are gone.                        *)
(***************************************************************************)
EXTENDS Coordinator, TLAPS

Busy == {"certify", "setrun", "bots", "delete", "judge", "done", "failed", "cooldown", "commit"}

\* After an aged order is still one.
LEMMA OrdersAge ==
    ASSUME NEW O \in SUBSET Inflight, \A o \in O : o.left > 0
    PROVE  {[o EXCEPT !.left = @ - 1] : o \in O} \subseteq Inflight
<1>1. ASSUME NEW o \in O PROVE [o EXCEPT !.left = @ - 1] \in Inflight
  <2>1. o \in Inflight /\ o.left \in 1..Timeout
    BY BoundsAssumption DEF Inflight
  <2>2. o.left - 1 \in 0..Timeout
    BY <2>1, BoundsAssumption
  <2>3. /\ [o EXCEPT !.left = @ - 1] =
             [run |-> o.run, bot |-> o.bot, slot |-> o.slot, left |-> o.left - 1]
        /\ o.run \in RunIDs /\ o.bot \in Bots /\ o.slot \in Slots
    BY <2>1 DEF Inflight
  <2> QED
    BY <2>2, <2>3 DEF Inflight
<1> QED
  BY <1>1

LEMMA RunIsID ==
    ASSUME TypeOK, pc \in Busy PROVE position \in Offsets /\ Run \in RunIDs
<1>1. position \in Offsets
  BY DEF TypeOK, Busy
<1>2. life \in Lives
  BY DEF TypeOK
<1> QED
  BY <1>1, <1>2 DEF Run, RunIDs

(***************************************************************************)
(* Types                                                                   *)
(***************************************************************************)
LEMMA TypesInit == Init => TypeOK
<1> SUFFICES ASSUME Init PROVE TypeOK
  OBVIOUS
<1>1. status \in [RunIDs -> {"none", "RUNNING", "DONE", "FAILED"}]
  BY DEF Init
<1>2. 0 \in 0..MaxEvents /\ 0 \in Lives /\ 0 \in 0..Cooldown /\ 0 \in 0..MaxFailures
  BY BoundsAssumption DEF Lives
<1>3. 0 \in 0..0
  OBVIOUS
<1> QED
  BY <1>1, <1>2, <1>3 DEF Init, TypeOK, Pc

\* What TypeOK says of the topic and the reader's place in it ...
Places ==
    /\ published \in 0..MaxEvents /\ bad \subseteq 1..published
    /\ position \in 0..published /\ committed \in 0..position
    /\ life \in Lives
    /\ pc \in Busy => position \in Offsets

\* ... and of the rest.
Rest ==
    /\ pc \in Pc
    /\ cancelled \in BOOLEAN
    /\ status \in [RunIDs -> {"none", "RUNNING", "DONE", "FAILED"}]
    /\ bots \subseteq Bots
    /\ inflight \subseteq Inflight
    /\ measured \subseteq RunIDs /\ finished \subseteq RunIDs /\ errored \subseteq RunIDs
    /\ remaining \in 0..Cooldown
    /\ failures \in 0..MaxFailures

LEMMA TypeParts == TypeOK <=> Places /\ Rest
BY DEF TypeOK, Places, Rest, Busy

LEMMA PlacesStep == TypeOK /\ [Next]_vars => Places'
<1> SUFFICES ASSUME Places, [Next]_vars PROVE Places'
  BY TypeParts
<1> USE BoundsAssumption DEF Places, Goto, loop, Busy
<1>1. CASE Publish
  BY <1>1 DEF Publish
<1>2. CASE Fetch
  BY <1>2 DEF Fetch, Offsets
<1>3. CASE Commit \/ CommitFails
  <2>1. committed' \in {committed, position} /\ pc' = "fetch" /\ position \in 0..position
    BY <1>3 DEF Commit, CommitFails
  <2> QED
    BY <1>3, <2>1 DEF Commit, CommitFails
<1>4. CASE Restart
  BY <1>4 DEF Restart, Lives
<1>5. CASE Cancel \/ Crash \/ FetchCancelled
  BY <1>5 DEF Cancel, Crash, FetchCancelled
<1>6. CASE Certify \/ SetRun \/ SetRunFails \/ BotsReturned \/ Delete \/ Judge
  BY <1>6 DEF Certify, SetRun, SetRunFails, BotsReturned, Delete, Judge
<1>7. CASE UpdateStatus \/ UpdateStatusFails \/ CooldownOver \/ Tick
  BY <1>7 DEF UpdateStatus, UpdateStatusFails, CooldownOver, Tick
<1>8. ASSUME NEW b \in Bots, BotReturns(b) PROVE Places'
  BY <1>8 DEF BotReturns
<1>9. ASSUME NEW b \in Bots, NEW i \in Slots, Fire(b, i) PROVE Places'
  BY <1>9 DEF Fire
<1>10. ASSUME NEW o \in inflight, Answer(o) PROVE Places'
  BY <1>10 DEF Answer
<1>11. CASE UNCHANGED vars
  BY <1>11 DEF vars
<1> QED
  BY <1>1, <1>2, <1>3, <1>4, <1>5, <1>6, <1>7, <1>8, <1>9, <1>10, <1>11
     DEF Next, Loop, Handler

LEMMA RestStep == TypeOK /\ [Next]_vars => Rest'
<1> SUFFICES ASSUME TypeOK, Rest, [Next]_vars PROVE Rest'
  BY TypeParts
<1> USE BoundsAssumption DEF Rest, Pc, Goto, loop, fleet
<1>1. CASE Publish
  BY <1>1 DEF Publish
<1>2. CASE Fetch \/ FetchCancelled \/ Commit
  BY <1>2 DEF Fetch, FetchCancelled, Commit
<1>3. CASE CommitFails
  BY <1>3 DEF CommitFails, Fails
<1>4. CASE SetRun
  <2>1. Run \in RunIDs
    BY <1>4, RunIsID DEF SetRun, Busy
  <2>2. status' \in [RunIDs -> {"none", "RUNNING", "DONE", "FAILED"}]
    BY <1>4, <2>1 DEF SetRun
  <2> QED
    BY <1>4, <2>2 DEF SetRun
<1>5. CASE SetRunFails
  <2>1. Run \in RunIDs
    BY <1>5, RunIsID DEF SetRunFails, Busy
  <2>2. status' \in [RunIDs -> {"none", "RUNNING", "DONE", "FAILED"}]
    BY <1>5, <2>1 DEF SetRunFails
  <2> QED
    BY <1>5, <2>1, <2>2 DEF SetRunFails, Fails
<1>6. CASE UpdateStatus
  <2>1. Final[pc] \in {"DONE", "FAILED"}
    BY <1>6 DEF UpdateStatus, Final
  <2>2. status' \in [RunIDs -> {"none", "RUNNING", "DONE", "FAILED"}]
    BY <1>6, <2>1 DEF UpdateStatus
  <2> QED
    BY <1>6, <2>2 DEF UpdateStatus
<1>7. CASE UpdateStatusFails
  <2>1. Final[pc] \in {"DONE", "FAILED"}
    BY <1>7 DEF UpdateStatusFails, Final
  <2>2. status' \in [RunIDs -> {"none", "RUNNING", "DONE", "FAILED"}]
    BY <1>7, <2>1 DEF UpdateStatusFails
  <2> QED
    BY <1>7, <2>2 DEF UpdateStatusFails, Fails
<1>8. CASE CooldownOver
  <2>1. Run \in RunIDs
    BY <1>8, RunIsID DEF CooldownOver, Busy
  <2> QED
    BY <1>8, <2>1 DEF CooldownOver
<1>9. CASE Certify \/ BotsReturned \/ Delete \/ Judge
  BY <1>9 DEF Certify, BotsReturned, Delete, Judge
<1>10. ASSUME NEW b \in Bots, BotReturns(b) PROVE Rest'
  BY <1>10 DEF BotReturns
<1>11. ASSUME NEW b \in Bots, NEW i \in Slots, Fire(b, i) PROVE Rest'
  <2>1. Run \in RunIDs
    BY <1>11, RunIsID DEF Fire, Busy
  <2>2. [run |-> Run, bot |-> b, slot |-> i, left |-> Timeout] \in Inflight
    BY <2>1 DEF Inflight
  <2>3. inflight' \subseteq Inflight
    BY <1>11, <2>2 DEF Fire
  <2> QED
    BY <1>11, <2>3 DEF Fire
<1>12. ASSUME NEW o \in inflight, Answer(o) PROVE Rest'
  <2>1. o.run \in RunIDs
    BY DEF Inflight
  <2> QED
    BY <1>12, <2>1 DEF Answer
<1>13. CASE Tick
  <2>1. inflight' \subseteq Inflight
    BY <1>13, OrdersAge DEF Tick
  <2>2. remaining' \in 0..Cooldown
    BY <1>13 DEF Tick
  <2> QED
    BY <1>13, <2>1, <2>2 DEF Tick
<1>14. CASE Cancel \/ Restart
  BY <1>14 DEF Cancel, Restart
<1>15. CASE Crash
  BY <1>15 DEF Crash
<1>16. CASE UNCHANGED vars
  BY <1>16 DEF vars
<1> QED
  BY <1>1, <1>2, <1>3, <1>4, <1>5, <1>6, <1>7, <1>8, <1>9, <1>10, <1>11, <1>12, <1>13,
     <1>14, <1>15, <1>16
     DEF Next, Loop, Handler

LEMMA TypesStep == TypeOK /\ [Next]_vars => TypeOK'
<1> SUFFICES ASSUME TypeOK, [Next]_vars PROVE TypeOK'
  OBVIOUS
<1>1. Places' /\ Rest'
  BY PlacesStep, RestStep
<1> QED
  BY <1>1 DEF TypeOK, Places, Rest, Busy

\* The types of the state, for any bounds.
THEOREM TypeCorrect == Spec => []TypeOK
BY TypesInit, TypesStep, PTL DEF Spec

(***************************************************************************)
(* Offsets                                                                 *)
(***************************************************************************)
Handled(o) == o \in bad \/ Ended(o) \/ Erred(o)

\* What the loop has left behind was handled; what it is at, once it is about
\* to commit it or has gone on to fetch.
OffsetInv ==
    /\ \A o \in 1..committed : Handled(o)
    /\ \A o \in 1..position : Handled(o) \/ (o = position /\ pc \notin {"fetch", "commit"})

LEMMA OffsetStep == TypeOK /\ OffsetInv /\ [Next]_vars => OffsetInv'
<1> SUFFICES ASSUME TypeOK, OffsetInv, [Next]_vars PROVE OffsetInv'
  OBVIOUS
<1> USE DEF OffsetInv, loop, fleet
<1>1. CASE Fetch
  <2>1. \A o : Handled(o) => Handled(o)'
    BY <1>1 DEF Fetch, Handled, Ended, Erred
  <2>2. \A o \in bad : Handled(o)'
    BY <1>1 DEF Fetch, Handled
  <2>3. \A o \in 1..position : Handled(o)
    BY <1>1 DEF Fetch
  <2>4. position' = position + 1 /\ position \in Nat /\ committed' = committed
    BY <1>1, BoundsAssumption DEF Fetch, TypeOK
  <2>5. position' \in bad \/ pc' = "certify"
    BY <1>1 DEF Fetch
  <2>6. ASSUME NEW o \in 1..position'
        PROVE  Handled(o)' \/ (o = position' /\ pc' \notin {"fetch", "commit"})
    <3>1. CASE o = position'
      BY <3>1, <2>2, <2>5
    <3>2. CASE o \in 1..position
      BY <3>2, <2>1, <2>3
    <3> QED
      BY <3>1, <3>2, <2>4
  <2> QED
    BY <2>1, <2>4, <2>6
<1>2. CASE Commit \/ CommitFails
  <2>1. \A o : Handled(o) => Handled(o)'
    BY <1>2 DEF Commit, CommitFails, Handled, Ended, Erred
  <2>2. committed' \in {committed, position} /\ position' = position /\ pc = "commit"
    BY <1>2 DEF Commit, CommitFails, Goto
  <2> QED
    BY <2>1, <2>2
<1>3. CASE SetRunFails
  <2>1. \A o : Handled(o) => Handled(o)'
    BY <1>3 DEF SetRunFails, Handled, Ended, Erred
  <2>2. position \in Offsets => Erred(position)'
    BY <1>3 DEF SetRunFails, Run, Erred, TypeOK
  <2>3. position \in Offsets
    BY <1>3 DEF SetRunFails, Goto, TypeOK
  <2> QED
    BY <1>3, <2>1, <2>2, <2>3 DEF SetRunFails, Handled
<1>4. CASE CooldownOver
  <2>1. \A o : Handled(o) => Handled(o)'
    BY <1>4 DEF CooldownOver, Handled, Ended, Erred
  <2>2. Ended(position)'
    BY <1>4 DEF CooldownOver, Run, Ended, TypeOK
  <2> QED
    BY <1>4, <2>1, <2>2 DEF CooldownOver, Handled
<1>5. CASE Restart
  <2>1. \A o : Handled(o) => Handled(o)'
    BY <1>5 DEF Restart, Handled, Ended, Erred
  <2> QED
    BY <1>5, <2>1 DEF Restart
<1>6. CASE Publish
  <2>1. \A o : Handled(o) => Handled(o)'
    BY <1>6 DEF Publish, Handled, Ended, Erred
  <2> QED
    BY <1>6, <2>1 DEF Publish
<1>7. ASSUME UNCHANGED <<bad, position, committed, finished, errored>>,
             pc' \in {"fetch", "commit"} => pc \in {"fetch", "commit"}
      PROVE  OffsetInv'
  <2>1. \A o : Handled(o) => Handled(o)'
    BY <1>7 DEF Handled, Ended, Erred
  <2> QED
    BY <1>7, <2>1
<1>8. CASE FetchCancelled
  BY <1>7, <1>8 DEF FetchCancelled, Goto
<1>9. CASE Certify \/ SetRun \/ BotsReturned \/ Delete
  BY <1>7, <1>9 DEF Certify, SetRun, BotsReturned, Delete, Goto
<1>10. CASE Judge \/ UpdateStatus \/ UpdateStatusFails
  BY <1>7, <1>10 DEF Judge, UpdateStatus, UpdateStatusFails
<1>11. ASSUME NEW b \in Bots, BotReturns(b) PROVE OffsetInv'
  BY <1>7, <1>11 DEF BotReturns
<1>12. ASSUME NEW b \in Bots, NEW i \in Slots, Fire(b, i) PROVE OffsetInv'
  BY <1>7, <1>12 DEF Fire
<1>13. ASSUME NEW o \in inflight, Answer(o) PROVE OffsetInv'
  BY <1>7, <1>13 DEF Answer
<1>14. CASE Tick \/ Cancel \/ Crash
  BY <1>7, <1>14 DEF Tick, Cancel, Crash
<1>15. CASE UNCHANGED vars
  BY <1>7, <1>15 DEF vars
<1> QED
  BY <1>1, <1>2, <1>3, <1>4, <1>5, <1>6, <1>8, <1>9, <1>10, <1>11, <1>12, <1>13, <1>14, <1>15
     DEF Next, Loop, Handler

\* The committed offset never passes an event nobody looked at, through any
\* sequence of signals, crashes and restarts.
THEOREM CommittedMeansHandled == Spec => []CommittedWasHandled
<1>1. Init => OffsetInv
  BY DEF Init, OffsetInv
<1>2. OffsetInv => CommittedWasHandled
  BY DEF OffsetInv, CommittedWasHandled, Handled
<1> QED
  BY <1>1, <1>2, TypeCorrect, OffsetStep, PTL DEF Spec

(***************************************************************************)
(* Metrics                                                                 *)
(***************************************************************************)
\* Orders are fired by the bots of a run that SetRun has written.
MetricsInv ==
    /\ \A r \in measured : status[r] # "none"
    /\ \A o \in inflight : status[o.run] # "none"
    /\ pc = "bots" => status[Run] # "none"

LEMMA MetricsStep == TypeOK /\ MetricsInv /\ [Next]_vars => MetricsInv'
<1> SUFFICES ASSUME TypeOK, MetricsInv, [Next]_vars PROVE MetricsInv'
  OBVIOUS
<1> USE DEF MetricsInv, loop, fleet, Goto
<1>1. CASE SetRun
  <2>1. Run \in RunIDs /\ Run' = Run
    BY <1>1, RunIsID DEF SetRun, Busy, Run
  <2>2. /\ status'[Run] = "RUNNING"
        /\ \A r : status[r] # "none" /\ r \in RunIDs => status'[r] # "none"
    BY <1>1, <2>1 DEF SetRun, TypeOK
  <2>3. measured \subseteq RunIDs /\ \A o \in inflight : o.run \in RunIDs
    BY DEF TypeOK, Inflight
  <2> QED
    BY <1>1, <2>1, <2>2, <2>3 DEF SetRun
<1>2. CASE UpdateStatus \/ UpdateStatusFails \/ SetRunFails
  <2>1. Run \in RunIDs /\ Run' = Run /\ pc' # "bots"
    BY <1>2, RunIsID DEF UpdateStatus, UpdateStatusFails, SetRunFails, Busy, Run
  <2>2. PICK st : st # "none" /\ status' \in {status, [status EXCEPT ![Run] = st]}
    BY <1>2 DEF UpdateStatus, UpdateStatusFails, SetRunFails, Final
  <2>3. \A r \in RunIDs : status[r] # "none" => status'[r] # "none"
    BY <2>2 DEF TypeOK
  <2>4. measured \subseteq RunIDs /\ \A o \in inflight : o.run \in RunIDs
    BY DEF TypeOK, Inflight
  <2>5. UNCHANGED <<measured, inflight>>
    BY <1>2 DEF UpdateStatus, UpdateStatusFails, SetRunFails
  <2> QED
    BY <2>1, <2>3, <2>4, <2>5
<1>3. ASSUME NEW b \in Bots, NEW i \in Slots, Fire(b, i) PROVE MetricsInv'
  <2>1. Run' = Run /\ status' = status /\ status[Run] # "none"
    BY <1>3 DEF Fire, Run
  <2> QED
    BY <1>3, <2>1 DEF Fire
<1>4. ASSUME NEW b \in Bots, BotReturns(b) PROVE MetricsInv'
  BY <1>4 DEF BotReturns, Run
<1>5. ASSUME NEW o \in inflight, Answer(o) PROVE MetricsInv'
  BY <1>5 DEF Answer, Run
<1>6. CASE Tick
  <2>1. \A o \in inflight' : \E q \in inflight : o.run = q.run
    <3>1. \A q \in inflight : [q EXCEPT !.left = @ - 1].run = q.run
      BY DEF TypeOK, Inflight
    <3> QED
      BY <1>6, <3>1 DEF Tick
  <2> QED
    BY <1>6, <2>1 DEF Tick, Run
<1>7. CASE Publish \/ Cancel \/ Crash \/ Restart
  BY <1>7 DEF Publish, Cancel, Crash, Restart, Run
<1>8. CASE Fetch \/ FetchCancelled \/ Commit \/ CommitFails
  BY <1>8 DEF Fetch, FetchCancelled, Commit, CommitFails
<1>9. CASE Certify \/ BotsReturned \/ Delete
  BY <1>9 DEF Certify, BotsReturned, Delete
<1>10. CASE Judge \/ CooldownOver
  BY <1>10 DEF Judge, CooldownOver
<1>11. CASE UNCHANGED vars
  BY <1>11 DEF vars, Run
<1> QED
  BY <1>1, <1>2, <1>3, <1>4, <1>5, <1>6, <1>7, <1>8, <1>9, <1>10, <1>11 DEF Next, Loop, Handler

\* Whatever is cancelled, fails or crashes, the scoring finds the document of a
\* run of which there is a metric.
THEOREM MetricsOfKnownRuns == Spec => []MetricsHaveRun
<1>1. Init => MetricsInv
  BY DEF Init, MetricsInv
<1>2. TypeOK /\ MetricsInv => MetricsHaveRun
  BY DEF MetricsInv, MetricsHaveRun
<1> QED
  BY <1>1, <1>2, TypeCorrect, MetricsStep, PTL DEF Spec

(***************************************************************************)
(* The pause                                                               *)
(***************************************************************************)
\* During the pause each order in flight has less time left than the pause; so
\* none is there when it is over.  This needs Timeout < Cooldown.
TimerInv ==
    /\ ~cancelled /\ pc = "cooldown" => \A o \in inflight : o.left < remaining
    /\ ~cancelled /\ pc \in {"commit", "fetch", "certify", "setrun"} => inflight = {}
    /\ ~Up => inflight = {}

LEMMA TimerStep == TypeOK /\ TimerInv /\ [Next]_vars => TimerInv'
<1> SUFFICES ASSUME TypeOK, TimerInv, [Next]_vars PROVE TimerInv'
  OBVIOUS
<1>1. /\ \A o \in inflight : o.left \in 0..Timeout
      /\ remaining \in Nat /\ Timeout \in Nat /\ Cooldown \in Nat
  BY BoundsAssumption DEF TypeOK, Inflight
<1> USE DEF TimerInv, Up, loop, fleet, Goto
<1>2. CASE UpdateStatus \/ UpdateStatusFails
  <2>1. \A o \in inflight : o.left < Cooldown
    BY <1>1, CooldownAssumption
  <2> QED
    BY <1>2, <2>1 DEF UpdateStatus, UpdateStatusFails
<1>3. CASE CooldownOver
  <2>1. ~cancelled => inflight = {}
    BY <1>1, <1>3 DEF CooldownOver
  <2> QED
    BY <1>3, <2>1 DEF CooldownOver
<1>4. CASE Tick
  <2>1. ASSUME inflight = {} PROVE inflight' = {}
    BY <2>1, <1>4 DEF Tick
  <2>2. ASSUME ~cancelled, pc = "cooldown", NEW o \in inflight'
        PROVE  o.left < remaining'
    <3>1. PICK q \in inflight : o = [q EXCEPT !.left = @ - 1]
      BY <1>4 DEF Tick
    <3>2. o.left = q.left - 1
      BY <3>1 DEF TypeOK, Inflight
    <3>3. q.left < remaining
      BY <2>2
    <3>4. remaining' = remaining - 1
      BY <3>3, <1>1, <1>4 DEF Tick
    <3> QED
      BY <3>2, <3>3, <3>4, <1>1
  <2> QED
    BY <2>1, <2>2, <1>4 DEF Tick
<1>5. ASSUME NEW b \in Bots, BotReturns(b) PROVE TimerInv'
  BY <1>5 DEF BotReturns
<1>6. ASSUME NEW b \in Bots, NEW i \in Slots, Fire(b, i) PROVE TimerInv'
  BY <1>6 DEF Fire
<1>7. ASSUME NEW o \in inflight, Answer(o) PROVE TimerInv'
  BY <1>7 DEF Answer
<1>8. CASE Publish \/ Cancel \/ Crash \/ Restart
  BY <1>8 DEF Publish, Cancel, Crash, Restart
<1>9. CASE Fetch \/ FetchCancelled \/ Commit \/ CommitFails
  BY <1>9 DEF Fetch, FetchCancelled, Commit, CommitFails
<1>10. CASE Certify \/ SetRun \/ SetRunFails \/ BotsReturned \/ Delete \/ Judge
  BY <1>10 DEF Certify, SetRun, SetRunFails, BotsReturned, Delete, Judge
<1>11. CASE UNCHANGED vars
  BY <1>11 DEF vars
<1> QED
  BY <1>2, <1>3, <1>4, <1>5, <1>6, <1>7, <1>8, <1>9, <1>10, <1>11 DEF Next, Loop, Handler

\* A submission is certified when no order of an earlier run is on its way, for
\* any timeout that is shorter than the pause.
THEOREM QuietStart == Spec => []QuietBeforeRun
<1>1. Init => TimerInv
  BY DEF Init, TimerInv
<1>2. TimerInv => QuietBeforeRun
  BY DEF TimerInv, QuietBeforeRun
<1> QED
  BY <1>1, <1>2, TypeCorrect, TimerStep, PTL DEF Spec

(***************************************************************************)
(* What Redis says of a run                                                *)
(***************************************************************************)
\* The runs of this life that have finished are of events that were left behind,
\* and of lives to come there are none.
LifeInv ==
    /\ \A r \in RunIDs : r[1] > life => status[r] = "none" /\ r \notin finished
    /\ \A o \in Offsets : <<life, o>> \in finished =>
          o <= position /\ (o = position /\ Up => pc \in {"commit", "fetch"})

\* As long as nothing was cancelled and nothing failed, the documents tell.
DoneInv ==
    /\ ~cancelled => pc # "failed"
    /\ TestedIsDone

LEMMA LivesNat == Lives \subseteq Nat /\ Offsets \subseteq Nat
BY BoundsAssumption DEF Lives, Offsets

\* The steps that write a document or end a run.
LEMMA LifeStep ==
    ASSUME TypeOK, LifeInv, [Next]_vars PROVE LifeInv'
<1> USE DEF LifeInv, loop, fleet, Goto, Up
<1>1. /\ life \in Nat /\ position \in Nat
      /\ \A o \in Offsets : o \in Nat
      /\ \A r \in RunIDs : r[1] \in Nat /\ r[2] \in Offsets
  <2>1. life \in Nat /\ \A o \in Offsets : o \in Nat
    BY LivesNat DEF TypeOK
  <2>2. position \in Nat
    BY BoundsAssumption DEF TypeOK
  <2>3. \A r \in RunIDs : r[1] \in Lives /\ r[2] \in Offsets
    BY DEF RunIDs
  <2> QED
    BY <2>1, <2>2, <2>3, LivesNat
<1>2. ASSUME UNCHANGED <<life, position, finished, status>>,
             pc \in {"commit", "fetch"} /\ Up' => pc' \in {"commit", "fetch"},
             Up' => Up
      PROVE  LifeInv'
  BY <1>2
<1>3. CASE Fetch
  BY <1>1, <1>3 DEF Fetch
<1>4. CASE SetRun \/ SetRunFails \/ UpdateStatus \/ UpdateStatusFails
  <2>1. pc \in Busy
    BY <1>4 DEF SetRun, SetRunFails, UpdateStatus, UpdateStatusFails, Busy
  <2>2. Run \in RunIDs /\ Run[1] = life
    BY <2>1, RunIsID DEF Run
  <2>3. PICK st : status' \in {status, [status EXCEPT ![Run] = st]}
    BY <1>4 DEF SetRun, SetRunFails, UpdateStatus, UpdateStatusFails
  <2>4. \A r \in RunIDs : r[1] > life => status'[r] = status[r]
    BY <1>1, <2>2, <2>3 DEF TypeOK
  <2>5. UNCHANGED <<life, position, finished>> /\ pc \notin {"commit", "fetch"}
    BY <1>4 DEF SetRun, SetRunFails, UpdateStatus, UpdateStatusFails
  <2> QED
    BY <1>1, <2>1, <2>4, <2>5 DEF Busy
<1>5. CASE CooldownOver
  <2>1. finished' = finished \cup {Run} /\ Run = <<life, position>> /\ pc' = "commit"
        /\ UNCHANGED <<life, position, status>>
    BY <1>5 DEF CooldownOver, Run
  <2> QED
    BY <1>1, <2>1
<1>6. CASE Restart
  <2>1. life' = life + 1 /\ UNCHANGED <<finished, status>>
    BY <1>6 DEF Restart
  <2>2. ASSUME NEW o \in Offsets, <<life', o>> \in finished PROVE FALSE
    <3>1. <<life', o>> \in RunIDs /\ <<life', o>>[1] > life
      BY <1>1, <2>1, <2>2 DEF TypeOK
    <3> QED
      BY <2>2, <3>1
  <2>3. ASSUME NEW r \in RunIDs, r[1] > life' PROVE status'[r] = "none" /\ r \notin finished'
    <3>1. r[1] > life
      BY <1>1, <2>1, <2>3
    <3> QED
      BY <2>1, <3>1
  <2> QED
    BY <2>1, <2>2, <2>3
<1>7. CASE Publish \/ Tick \/ Cancel \/ Crash \/ UNCHANGED vars
  BY <1>2, <1>7 DEF Publish, Tick, Cancel, Crash, vars
<1>8. CASE FetchCancelled \/ Commit \/ CommitFails
  BY <1>2, <1>8 DEF FetchCancelled, Commit, CommitFails
<1>9. CASE Certify \/ BotsReturned \/ Delete \/ Judge
  BY <1>2, <1>9 DEF Certify, BotsReturned, Delete, Judge
<1>10. CASE \/ \E b \in Bots : BotReturns(b) \/ \E i \in Slots : Fire(b, i)
            \/ \E o \in inflight : Answer(o)
  BY <1>2, <1>10 DEF BotReturns, Fire, Answer
<1> QED
  BY <1>3, <1>4, <1>5, <1>6, <1>7, <1>8, <1>9, <1>10 DEF Next, Loop, Handler

LEMMA DoneStep ==
    ASSUME TypeOK, LifeInv, DoneInv, [Next]_vars PROVE DoneInv'
<1> DEFINE Calm == Up /\ ~cancelled /\ failures = 0
           Tells(r) == status[r] = "DONE" <=> r \in finished \/ (r = Run /\ pc = "cooldown")
<1> USE DEF loop, fleet, Goto
<1>1. failures \in Nat /\ (~cancelled => pc # "failed")
  BY BoundsAssumption DEF TypeOK, DoneInv
<1>2. Calm => \A r \in RunIDs : r[1] = life => Tells(r)
  BY DEF DoneInv, TestedIsDone
<1>4. ASSUME UNCHANGED <<status, finished, life, position>>, Calm' => Calm,
             ~cancelled' => pc' # "failed", pc' = "cooldown" <=> pc = "cooldown"
      PROVE  DoneInv'
  BY <1>2, <1>4 DEF DoneInv, TestedIsDone, Run
<1>5. CASE Fetch
  <2>1. /\ pc = "fetch" /\ pc' \in {"commit", "certify"}
        /\ UNCHANGED <<status, finished, life, cancelled, failures>>
    BY <1>5 DEF Fetch
  <2> QED
    BY <1>2, <2>1 DEF DoneInv, TestedIsDone, Up
<1>6. CASE SetRun
  <2>1. Run \in RunIDs /\ position \in Offsets
    BY <1>6, RunIsID DEF SetRun, Busy
  <2>2. Run \notin finished
    BY <1>6, <2>1 DEF SetRun, LifeInv, Run, Up
  <2>3. /\ status' = [status EXCEPT ![Run] = "RUNNING"] /\ pc = "setrun" /\ pc' = "bots"
        /\ UNCHANGED <<finished, life, position, cancelled, failures>>
    BY <1>6 DEF SetRun
  <2>4. ASSUME Calm', NEW r \in RunIDs, r[1] = life' PROVE status'[r] = "DONE" <=> r \in finished'
    <3>1. Tells(r)
      BY <1>2, <2>3, <2>4 DEF Up
    <3>2. status'[Run] = "RUNNING" /\ (r # Run => status'[r] = status[r])
      BY <2>1, <2>3 DEF TypeOK
    <3> QED
      BY <2>2, <2>3, <3>1, <3>2
  <2> QED
    BY <2>3, <2>4 DEF DoneInv, TestedIsDone
<1>7. CASE UpdateStatus
  <2>1. Run \in RunIDs
    BY <1>7, RunIsID DEF UpdateStatus, Busy
  <2>2. pc = "done" /\ pc' = "cooldown"
    BY <1>1, <1>7 DEF UpdateStatus
  <2>3. /\ status' = [status EXCEPT ![Run] = "DONE"]
        /\ UNCHANGED <<finished, life, position, cancelled, failures>>
    BY <1>7, <2>2 DEF UpdateStatus, Final
  <2>4. ASSUME Calm', NEW r \in RunIDs, r[1] = life'
        PROVE  status'[r] = "DONE" <=> r \in finished' \/ r = Run'
    <3>1. Tells(r)
      BY <1>2, <2>2, <2>3, <2>4 DEF Up
    <3>2. status'[Run] = "DONE" /\ (r # Run => status'[r] = status[r])
      BY <2>1, <2>3 DEF TypeOK
    <3> QED
      BY <2>2, <2>3, <3>1, <3>2 DEF Run
  <2> QED
    BY <2>2, <2>4 DEF DoneInv, TestedIsDone
<1>8. CASE CooldownOver
  <2>1. /\ finished' = finished \cup {Run} /\ pc = "cooldown" /\ pc' = "commit"
        /\ UNCHANGED <<status, life, position, cancelled, failures>>
    BY <1>8 DEF CooldownOver
  <2> QED
    BY <1>2, <2>1 DEF DoneInv, TestedIsDone, Up
<1>9. CASE Restart
  <2>1. life' = life + 1 /\ pc' = "fetch" /\ UNCHANGED <<status, finished>>
    BY <1>9 DEF Restart
  <2>2. life \in Nat
    BY LivesNat DEF TypeOK
  <2>3. \A r \in RunIDs : r[1] = life' => status[r] = "none" /\ r \notin finished
    BY <2>1, <2>2 DEF LifeInv
  <2> QED
    BY <2>1, <2>3 DEF DoneInv, TestedIsDone
<1>10. CASE SetRunFails \/ UpdateStatusFails \/ CommitFails
  <2>1. ~Calm' /\ pc' # "failed"
    BY <1>1, <1>10 DEF SetRunFails, UpdateStatusFails, CommitFails, Fails
  <2> QED
    BY <2>1 DEF DoneInv, TestedIsDone
<1>11. CASE FetchCancelled \/ Cancel \/ Crash
  <2>1. ~Calm' /\ (~cancelled' => pc' # "failed")
    BY <1>1, <1>11 DEF FetchCancelled, Cancel, Crash, Up
  <2> QED
    BY <2>1 DEF DoneInv, TestedIsDone
<1>12. CASE Publish \/ Commit \/ Tick \/ UNCHANGED vars
  BY <1>1, <1>4, <1>12 DEF Publish, Commit, Tick, vars, Up
<1>13. CASE Certify \/ BotsReturned \/ Delete \/ Judge
  BY <1>1, <1>4, <1>13 DEF Certify, BotsReturned, Delete, Judge, Up
<1>14. CASE \/ \E b \in Bots : BotReturns(b) \/ \E i \in Slots : Fire(b, i)
            \/ \E o \in inflight : Answer(o)
  BY <1>1, <1>4, <1>14 DEF BotReturns, Fire, Answer, Up
<1> QED
  BY <1>5, <1>6, <1>7, <1>8, <1>9, <1>10, <1>11, <1>12, <1>13, <1>14 DEF Next, Loop, Handler

\* Without a signal and without a failed call a run is DONE in Redis exactly when
\* it was tested to its end, through crashes at any moment.
THEOREM DoneTells == Spec => []TestedIsDone
<1>1. Init => LifeInv /\ DoneInv
  BY DEF Init, LifeInv, DoneInv, TestedIsDone
<1>2. DoneInv => TestedIsDone
  BY DEF DoneInv
<1> QED
  BY <1>1, <1>2, TypeCorrect, LifeStep, DoneStep, PTL DEF Spec
=============================================================================

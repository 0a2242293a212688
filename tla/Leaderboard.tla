---------------------------- MODULE Leaderboard ----------------------------
(***************************************************************************)
(* update_leaderboard of telemetry/app/db/redis_store.py: the read-check-  *)
(* write over two Redis keys that a score task runs when a benchmark run   *)
(* ends.  Each await is a point where another task, or the cancellation of *)
(* this one, can come in between; each Redis command is atomic.            *)
(*                                                                         *)
(* A run's score is any member of Scores: how compute_scores weighs        *)
(* latency, throughput and correctness does not matter here.  TeamOf is    *)
(* the contestant_id the coordinator stored with the run.                  *)
(***************************************************************************)
EXTENDS Integers, FiniteSets

CONSTANTS Runs, Teams, TeamOf, Scores, None

ASSUME TeamOfAssumption == TeamOf \in [Runs -> Teams]
ASSUME ScoresAssumption == Scores \subseteq Nat /\ None \notin Nat

VARIABLES
    leaderboard,  \* the sorted set "leaderboard": leaderboard[t] is t's score, or None
    details,      \* details[t]: the document at "scores:<t>", or None
    update        \* update[r]: where the update_leaderboard call of run r stands

vars == <<leaderboard, details, update>>

Document == [run : Runs, score : Scores]
Update   == [pc : {"idle", "zscore", "zadd", "set"}, score : Scores \cup {None}]
NoUpdate == [pc |-> "idle", score |-> None]

TypeOK ==
    /\ leaderboard \in [Teams -> Scores \cup {None}]
    /\ details \in [Teams -> Document \cup {None}]
    /\ update \in [Runs -> Update]
    /\ \A r \in Runs : update[r].pc # "idle" => update[r].score \in Scores

Init ==
    /\ leaderboard = [t \in Teams |-> None]
    /\ details = [t \in Teams |-> None]
    /\ update = [r \in Runs |-> NoUpdate]

Updating(r) == update[r].pc # "idle"

\* mutant: the score is missing from the result of compute_scores
BeginUnscored(r, s) ==
    /\ ~Updating(r)
    /\ update' = [update EXCEPT ![r] = [pc |-> "zscore", score |-> None]]
    /\ UNCHANGED <<leaderboard, details>>

\* The call, with the score that compute_scores returned; it waits for ZSCORE.
Begin(r, s) ==
    /\ ~Updating(r)
    /\ update' = [update EXCEPT ![r] = [pc |-> "zscore", score |-> s]]
    /\ UNCHANGED <<leaderboard, details>>

BeatsAlways(s, current) == TRUE            \* mutant: the comparison is dropped

\* `current_score is None or final_score > current_score`
Beats(s, current) == current = None \/ s > current

\* The reply to ZSCORE: the entry is compared with the new score at once, but
\* what the comparison allows happens only after another round trip.
ZScore(r) ==
    /\ update[r].pc = "zscore"
    /\ update' = [update EXCEPT ![r] =
                    IF Beats(update[r].score, leaderboard[TeamOf[r]])
                      THEN [@ EXCEPT !.pc = "zadd"] ELSE NoUpdate]
    /\ UNCHANGED <<leaderboard, details>>

\* mutant: a ZADD that failed is taken for done
ZAddLost(r) ==
    /\ update[r].pc = "zadd"
    /\ update' = [update EXCEPT ![r].pc = "set"]
    /\ UNCHANGED <<leaderboard, details>>

\* ZADD overwrites whatever the entry has become in between.
ZAdd(r) ==
    /\ update[r].pc = "zadd"
    /\ leaderboard' = [leaderboard EXCEPT ![TeamOf[r]] = update[r].score]
    /\ update' = [update EXCEPT ![r].pc = "set"]
    /\ UNCHANGED details

\* SET of the detail document; the call returns.
SetDetail(r) ==
    /\ update[r].pc = "set"
    /\ details' = [details EXCEPT ![TeamOf[r]] = [run |-> r, score |-> update[r].score]]
    /\ update' = [update EXCEPT ![r] = NoUpdate]
    /\ UNCHANGED leaderboard

\* A step of the call on its way.
Step(r) == ZScore(r) \/ ZAdd(r) \/ SetDetail(r)

\* The calls of the runs in R are abandoned at the await they have reached:
\* consume_metrics cancels a score task, a Redis command raises (one run), or
\* the process ends (all of them).
Abort(R) ==
    /\ R # {} /\ \A r \in R : Updating(r)
    /\ update' = [r \in Runs |-> IF r \in R THEN NoUpdate ELSE update[r]]
    /\ UNCHANGED <<leaderboard, details>>

Next ==
    \/ \E r \in Runs : Step(r) \/ \E s \in Scores : Begin(r, s)
    \/ \E R \in SUBSET Runs : Abort(R)

Spec == Init /\ [][Next]_vars

(***************************************************************************)
(* The runs of one team do not overlap.  The coordinator tests one         *)
(* submission at a time and cools down for 30 s, so in the normal case the *)
(* previous run of a team is scored before the next one ends.              *)
(***************************************************************************)
Alone(r) == \A q \in Runs \ {r} : TeamOf[q] = TeamOf[r] => ~Updating(q)

SerialNext ==
    \/ \E r \in Runs : Step(r) \/ \E s \in Scores : Alone(r) /\ Begin(r, s)
    \/ \E R \in SUBSET Runs : Abort(R)

SerialSpec == Init /\ [][SerialNext]_vars

(***************************************************************************)
(* Properties                                                              *)
(***************************************************************************)
\* A team whose detail document exists is in the sorted set: get_leaderboard
\* finds documents through the sorted set only, and ZADD comes before SET.
DetailHasRank == \A t \in Teams : details[t] # None => leaderboard[t] # None

\* With the runs of a team one after the other the document never shows more
\* than the entry it is listed under: SET comes after ZADD, and a call that
\* was cancelled between the two leaves an older, smaller document.
DetailNeverAhead ==
    \A t \in Teams : details[t] # None => details[t].score <= leaderboard[t]

\* The code implements the policy of ARCHITECTURE.md: absent, then only up.
ATH == INSTANCE AllTimeHigh WITH best <- leaderboard
ImplementsAllTimeHigh == ATH!Spec
=============================================================================

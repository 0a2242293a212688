-------------------------- MODULE LeaderboardProofs --------------------------
(***************************************************************************)
(* Theorems about update_leaderboard, for any set of runs, teams, scores.  *)
(***************************************************************************)
EXTENDS Leaderboard, TLAPS

\* Type correctness holds whatever overlaps.
THEOREM TypeCorrect == Spec => []TypeOK
<1>1. Init => TypeOK
  BY DEF Init, TypeOK, NoUpdate, Update, Document
<1>2. TypeOK /\ [Next]_vars => TypeOK'
  <2> SUFFICES ASSUME TypeOK, [Next]_vars PROVE TypeOK'
    OBVIOUS
  <2> USE TeamOfAssumption, ScoresAssumption DEF TypeOK, Update, NoUpdate, Document
  <2>1. ASSUME NEW r \in Runs, ZScore(r) PROVE TypeOK'
    BY <2>1 DEF ZScore
  <2>2. ASSUME NEW r \in Runs, ZAdd(r) PROVE TypeOK'
    BY <2>2 DEF ZAdd
  <2>3. ASSUME NEW r \in Runs, SetDetail(r) PROVE TypeOK'
    BY <2>3 DEF SetDetail
  <2>4. ASSUME NEW R \in SUBSET Runs, Abort(R) PROVE TypeOK'
    BY <2>4 DEF Abort
  <2>5. ASSUME NEW r \in Runs, NEW s \in Scores, Begin(r, s) PROVE TypeOK'
    BY <2>5 DEF Begin
  <2>6. CASE UNCHANGED vars
    BY <2>6 DEF vars
  <2> QED
    BY <2>1, <2>2, <2>3, <2>4, <2>5, <2>6 DEF Next, Step
<1> QED
  BY <1>1, <1>2, PTL DEF Spec

(***************************************************************************)
(* A document implies an entry.  The invariant is not inductive alone: a   *)
(* call waiting for SET must know that its ZADD is still visible, which no *)
(* other task can undo because entries are never removed.                  *)
(***************************************************************************)
ZAddDone == \A r \in Runs : update[r].pc = "set" => leaderboard[TeamOf[r]] # None

RankInv == TypeOK /\ DetailHasRank /\ ZAddDone

LEMMA RankInvariant == Spec => []RankInv
<1>1. Init => RankInv
  BY DEF Init, RankInv, TypeOK, NoUpdate, Update, Document, DetailHasRank, ZAddDone
<1>2. RankInv /\ TypeOK' /\ [Next]_vars => RankInv'
  <2> SUFFICES ASSUME RankInv, TypeOK', [Next]_vars
               PROVE DetailHasRank' /\ ZAddDone'
    BY DEF RankInv
  <2> USE TeamOfAssumption, ScoresAssumption
      DEF RankInv, TypeOK, Update, NoUpdate, DetailHasRank, ZAddDone
  <2>1. ASSUME NEW r \in Runs, ZScore(r) PROVE DetailHasRank' /\ ZAddDone'
    BY <2>1 DEF ZScore
  <2>2. ASSUME NEW r \in Runs, ZAdd(r) PROVE DetailHasRank' /\ ZAddDone'
    BY <2>2 DEF ZAdd
  <2>3. ASSUME NEW r \in Runs, SetDetail(r) PROVE DetailHasRank' /\ ZAddDone'
    BY <2>3 DEF SetDetail
  <2>4. ASSUME NEW R \in SUBSET Runs, Abort(R) PROVE DetailHasRank' /\ ZAddDone'
    BY <2>4 DEF Abort
  <2>5. ASSUME NEW r \in Runs, NEW s \in Scores, Begin(r, s)
        PROVE DetailHasRank' /\ ZAddDone'
    BY <2>5 DEF Begin
  <2>6. CASE UNCHANGED vars
    BY <2>6 DEF vars
  <2> QED
    BY <2>1, <2>2, <2>3, <2>4, <2>5, <2>6 DEF Next, Step
<1> QED
  BY <1>1, <1>2, TypeCorrect, PTL DEF Spec

\* Every document is listed, also when updates overlap or are cancelled.
THEOREM DetailIsRanked == Spec => []DetailHasRank
<1>1. RankInv => DetailHasRank
  BY DEF RankInv
<1> QED
  BY <1>1, RankInvariant, PTL

(***************************************************************************)
(* One update per team at a time: what ZSCORE answered is still true when  *)
(* ZADD arrives.                                                           *)
(***************************************************************************)
OneAtATime == \A r, q \in Runs :
    TeamOf[r] = TeamOf[q] /\ Updating(r) /\ Updating(q) => r = q
AnswerStillTrue == \A r \in Runs :
    /\ update[r].pc = "zadd" => Beats(update[r].score, leaderboard[TeamOf[r]])
    /\ update[r].pc = "set"  => leaderboard[TeamOf[r]] = update[r].score

SerialInv == RankInv /\ OneAtATime /\ AnswerStillTrue /\ DetailNeverAhead

\* The serial behaviours are behaviours of the unrestricted specification.
LEMMA SerialIsSpec == SerialSpec => Spec
<1>1. SerialNext => Next
  BY DEF SerialNext, Next
<1> QED
  BY <1>1, PTL DEF SerialSpec, Spec

LEMMA SerialStep == ASSUME SerialInv, RankInv', [SerialNext]_vars PROVE SerialInv'
<1> DEFINE Rest == OneAtATime /\ AnswerStillTrue /\ DetailNeverAhead
<1> SUFFICES Rest'
  BY DEF SerialInv
<1> USE TeamOfAssumption, ScoresAssumption
    DEF SerialInv, RankInv, TypeOK, Update, Document, NoUpdate, DetailHasRank, OneAtATime,
        AnswerStillTrue, DetailNeverAhead, Beats, Updating
<1>1. ASSUME NEW r \in Runs, ZScore(r) PROVE Rest'
  BY <1>1 DEF ZScore
<1>2. ASSUME NEW r \in Runs, ZAdd(r) PROVE Rest'
  <2>1. OneAtATime'
    BY <1>2 DEF ZAdd
  <2>2. AnswerStillTrue'
    BY <1>2 DEF ZAdd
  <2>3. DetailNeverAhead'
    BY <1>2 DEF ZAdd
  <2> QED
    BY <2>1, <2>2, <2>3
<1>3. ASSUME NEW r \in Runs, SetDetail(r) PROVE Rest'
  <2>1. OneAtATime' /\ AnswerStillTrue'
    BY <1>3 DEF SetDetail
  <2>2. /\ leaderboard[TeamOf[r]] = update[r].score
        /\ update[r].score \in Nat
    BY <1>3 DEF SetDetail
  <2>3. details' = [details EXCEPT ![TeamOf[r]] = [run |-> r, score |-> update[r].score]]
    BY <1>3 DEF SetDetail
  <2>4. DetailNeverAhead'
    <3> SUFFICES ASSUME NEW t \in Teams, details'[t] # None
                 PROVE  details'[t].score <= leaderboard[t]
      BY <1>3 DEF SetDetail
    <3>1. CASE t = TeamOf[r]
      BY <3>1, <2>2, <2>3
    <3>2. CASE t # TeamOf[r]
      BY <3>2, <2>3
    <3> QED
      BY <3>1, <3>2
  <2> QED
    BY <2>1, <2>4
<1>4. ASSUME NEW R \in SUBSET Runs, Abort(R) PROVE Rest'
  BY <1>4 DEF Abort
<1>5. ASSUME NEW r \in Runs, NEW s \in Scores, Alone(r), Begin(r, s) PROVE Rest'
  BY <1>5 DEF Begin, Alone
<1>6. CASE UNCHANGED vars
  BY <1>6 DEF vars
<1> QED
  BY <1>1, <1>2, <1>3, <1>4, <1>5, <1>6 DEF SerialNext, Step

LEMMA SerialInvariant == SerialSpec => []SerialInv
<1>1. Init => SerialInv
  <2>1. Init => TypeOK
    BY DEF Init, TypeOK, Update, Document, NoUpdate
  <2> QED
    BY <2>1 DEF Init, SerialInv, RankInv, NoUpdate, DetailHasRank, ZAddDone, OneAtATime,
                AnswerStillTrue, DetailNeverAhead, Updating
<1>2. SerialInv /\ RankInv' /\ [SerialNext]_vars => SerialInv'
  BY SerialStep
<1> QED
  BY <1>1, <1>2, SerialIsSpec, RankInvariant, PTL DEF SerialSpec

\* Without overlap the document never shows more than the entry.
THEOREM DetailIsNeverAhead == SerialSpec => []DetailNeverAhead
<1>1. SerialInv => DetailNeverAhead
  BY DEF SerialInv
<1> QED
  BY <1>1, SerialInvariant, PTL

\* Without overlap the sorted set implements the all-time-high policy.
THEOREM SerialImplementsAllTimeHigh == SerialSpec => ImplementsAllTimeHigh
<1>1. Init => ATH!Init
  BY DEF Init, ATH!Init
<1>2. SerialInv /\ [SerialNext]_vars => [ATH!Next]_leaderboard
  <2> SUFFICES ASSUME SerialInv, [SerialNext]_vars PROVE [ATH!Next]_leaderboard
    OBVIOUS
  <2> USE TeamOfAssumption DEF SerialInv, RankInv, TypeOK, Update, Beats
  <2>1. ASSUME NEW r \in Runs, ZAdd(r) PROVE ATH!Next
    <3>1. ATH!Improve(TeamOf[r], update[r].score)
      BY <2>1 DEF ZAdd, AnswerStillTrue, ATH!Improve
    <3>2. update[r].score \in Scores /\ TeamOf[r] \in Teams
      BY <2>1 DEF ZAdd
    <3> QED
      BY <3>1, <3>2 DEF ATH!Next
  <2>2. ASSUME NEW r \in Runs, ZScore(r) \/ SetDetail(r)
        PROVE leaderboard' = leaderboard
    BY <2>2 DEF ZScore, SetDetail
  <2>3. ASSUME NEW r \in Runs, NEW s \in Scores, Begin(r, s)
        PROVE leaderboard' = leaderboard
    BY <2>3 DEF Begin
  <2>4. ASSUME NEW R \in SUBSET Runs, Abort(R) PROVE leaderboard' = leaderboard
    BY <2>4 DEF Abort
  <2>5. CASE UNCHANGED vars
    BY <2>5 DEF vars
  <2> QED
    BY <2>1, <2>2, <2>3, <2>4, <2>5 DEF SerialNext, Step
<1> QED
  BY <1>1, <1>2, SerialInvariant, PTL DEF SerialSpec, ImplementsAllTimeHigh, ATH!Spec
=============================================================================

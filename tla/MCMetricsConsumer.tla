------------------------- MODULE MCMetricsConsumer -------------------------
(* One run, two runs of one team, or two of two teams, by the cfg.         *)
EXTENDS MetricsConsumer

CONSTANTS r1, r2, t1, t2

OneRun == {r1}
TwoRuns == {r1, r2}
SameTeam == [r \in TwoRuns |-> t1]
TwoTeams == [r \in TwoRuns |-> IF r = r1 THEN t1 ELSE t2]
OneTeamOf == [r \in OneRun |-> t1]
Team1 == {t1}
Teams2 == {t1, t2}
OneScore == {1}
TwoScores == {1, 2}
=============================================================================

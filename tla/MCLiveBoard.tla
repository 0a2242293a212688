---------------------------- MODULE MCLiveBoard ----------------------------
(* Two runs of team t1 and one of t2, of which get_leaderboard reads the   *)
(* better one; one page and one other client of the websocket.             *)
EXTENDS LiveBoard

CONSTANTS r1, r2, r3, t1, t2, c1, c2

MCRuns    == {r1, r2, r3}
MCTeams   == {t1, t2}
MCTeamOf  == [r \in MCRuns |-> IF r = r3 THEN t2 ELSE t1]
MCScores  == 1..2
MCClients == {c1, c2}
MCPages   == {c1}

\* The two runs of t1 are told apart by nothing.
RunSymmetry == Permutations({r1, r2})
=============================================================================

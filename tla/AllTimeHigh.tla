---------------------------- MODULE AllTimeHigh ----------------------------
(***************************************************************************)
(* What the leaderboard promises (ARCHITECTURE.md, section 2): Redis       *)
(* "enforces a strict All-Time High policy".  A team's entry is absent, or *)
(* it is a score one of its runs reached, and it only ever grows.          *)
(***************************************************************************)
EXTENDS Integers

CONSTANTS Teams, Scores, None

VARIABLE best       \* best[t]: the best score team t ever published, or None

Init == best = [t \in Teams |-> None]

Improve(t, s) ==
    /\ best[t] = None \/ s > best[t]
    /\ best' = [best EXCEPT ![t] = s]

Next == \E t \in Teams, s \in Scores : Improve(t, s)

Spec == Init /\ [][Next]_best
=============================================================================

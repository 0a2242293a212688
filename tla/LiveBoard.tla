------------------------------ MODULE LiveBoard ------------------------------
(***************************************************************************)
(* From the leaderboard in Redis to the browsers: get_leaderboard of       *)
(* telemetry/app/db/redis_store.py, the telemetry API (telemetry/app/      *)
(* main.py), the broadcast at the end of a score task (kafka_consumer.py), *)
(* and the page (telemetry/frontend/src/App.tsx).  Leaderboard is extended *)
(* by the readers and by what follows an update; a team's runs do not      *)
(* overlap (SerialSpec).                                                   *)
(*                                                                         *)
(* The page keeps one row per submission and sorts its rows: what it shows *)
(* is a function of the submission.  Runs stands for the submissions here; *)
(* one that is tested again is a run that is scored again.                 *)
(***************************************************************************)
EXTENDS Leaderboard, Sequences, SequencesExt

CONSTANTS
    Clients,    \* of the websocket
    Pages,      \* those of them that are pages and ask for the leaderboard
    Top,        \* entries that get_leaderboard reads (20 in the code)
    MaxPushes   \* bound: scores broadcast

ASSUME LiveAssumption ==
    IsFiniteSet(Clients) /\ Pages \subseteq Clients /\ Top \in Nat \ {0} /\ MaxPushes \in Nat

VARIABLES
    posting,            \* the push whose answer the consumer's event loop is blocked for, or 0
    pushes,             \* POST /broadcast: the requests so far
    connected_clients,
    socket,             \* socket[c]: the websocket of c, as its handler knows it
    inbox,              \* inbox[c]: rows on their way to page c
    page,               \* page[c]: the request of c for the leaderboard
    shown,              \* shown[c]: what c shows
    missed              \* history: the teams whose document c was not sent, or has replaced

api      == <<pushes, connected_clients>>
browsers == <<socket, inbox, page, shown, missed>>
live     == <<vars, posting, api, browsers>>

Rows   == [Runs -> Scores \cup {None}]
NoRows == [r \in Runs |-> None]

Push == [pc : {"posted", "sending", "over"}, row : Document \cup {None}, next : Nat \ {0},
         dead : Seq(Clients), owed : SUBSET Clients, removals : Nat]
Page == [pc : {"asked", "reading", "shown"}, todo : Seq(Teams), rows : Rows]

NewPush(pc, row) == [pc |-> pc, row |-> row, next |-> 1, dead |-> <<>>, owed |-> {},
                     removals |-> 0]
NewPage(pc) == [pc |-> pc, todo |-> <<>>, rows |-> NoRows]

LiveTypeOK ==
    /\ TypeOK
    /\ posting \in 0..Len(pushes) /\ pushes \in Seq(Push)
    /\ connected_clients \in Seq(Clients)
    /\ socket \in [Clients -> {"none", "open", "lost", "raised", "closed"}]
    /\ inbox \in [Pages -> Seq(Document)]
    /\ page \in [Pages -> Page]
    /\ shown \in [Pages -> Rows]
    /\ missed \in [Pages -> SUBSET Teams]
    \* a client is listed once, from its acceptance on, and no more when its handler
    \* knows that it is gone
    /\ \A c \in Clients : socket[c] \in {"none", "closed"} => ~Contains(connected_clients, c)
    /\ \A i, j \in DOMAIN connected_clients : connected_clients[i] = connected_clients[j] => i = j

LiveInit ==
    /\ Init
    /\ posting = 0 /\ pushes = <<>>
    /\ connected_clients = SetToSeq(Clients \ Pages)   \* they were there before
    /\ socket = [c \in Clients |-> IF c \in Pages THEN "none" ELSE "open"]
    /\ inbox = [c \in Pages |-> <<>>]
    /\ page = [c \in Pages |-> NewPage("asked")]
    /\ shown = [c \in Pages |-> NoRows]
    /\ missed = [c \in Pages |-> {}]

(***************************************************************************)
(* The consumer: score_after_delay from update_leaderboard on.  urlopen    *)
(* blocks the event loop, so that no other task goes on.                   *)
(***************************************************************************)
BeginUpdate(r, s) ==
    /\ posting = 0
    /\ Len(pushes) + Cardinality({q \in Runs : Updating(q)}) < MaxPushes
    /\ Alone(r) /\ Begin(r, s)
    /\ UNCHANGED <<posting, api, browsers>>

\* A step of update_leaderboard; the score is posted when it returns, beaten or not.
UpdateStep(r) ==
    /\ posting = 0
    /\ Step(r)
    /\ IF ~Updating(r)'
         THEN /\ posting' = Len(pushes) + 1
              /\ pushes' = Append(pushes, NewPush("posted", [run |-> r, score |-> update[r].score]))
         ELSE UNCHANGED <<posting, pushes>>
    /\ missed' = [c \in Pages |-> {t \in missed[c] : details'[t] = details[t]}]
    /\ UNCHANGED <<connected_clients, socket, inbox, page, shown>>

\* A task is cancelled, or a Redis command raises.
UpdateEnds(r) ==
    /\ posting = 0
    /\ Abort({r})
    /\ UNCHANGED <<posting, api, browsers>>

\* The consumer is killed; a request it has sent is served all the same.
ConsumerDies ==
    /\ posting' = 0
    /\ LET updating == {r \in Runs : Updating(r)}
       IN  IF updating = {} THEN posting # 0 /\ UNCHANGED vars ELSE Abort(updating)
    /\ UNCHANGED <<api, browsers>>

(***************************************************************************)
(* The API                                                                 *)
(***************************************************************************)
\* The teams whose document is one of rows.
Documented(rows) == {t \in Teams : details[t] \in rows}

Miss(C, row) ==
    missed' = [c \in Pages |->
                 IF c \in C /\ page[c].pc # "asked" THEN missed[c] \cup Documented({row})
                 ELSE missed[c]]

Answered(n) == posting' = IF posting = n THEN 0 ELSE posting

\* The request does not reach the API; the consumer catches the error.
NotServed(n) ==
    /\ n \in DOMAIN pushes /\ pushes[n].pc = "posted"
    /\ pushes' = [pushes EXCEPT ![n] = NewPush("over", None)]
    /\ Answered(n)
    /\ Miss(Clients, pushes[n].row)
    /\ UNCHANGED <<vars, connected_clients, socket, inbox, page, shown>>

\* broadcast_score begins to loop over connected_clients.
Serve(n) ==
    /\ n \in DOMAIN pushes /\ pushes[n].pc = "posted"
    /\ pushes' = [pushes EXCEPT ![n].pc = "sending",
                    ![n].owed = {c \in ToSet(connected_clients) : socket[c] = "open"}]
    /\ Miss(Clients \ ToSet(connected_clients), pushes[n].row)
    /\ UNCHANGED <<vars, posting, connected_clients, socket, inbox, page, shown>>

Sending(n) == n \in DOMAIN pushes /\ pushes[n].pc = "sending"

\* mutant: a client that cannot be sent to is removed inside the loop
SendRemoving(n) ==
    /\ Sending(n) /\ pushes[n].next <= Len(connected_clients)
    /\ LET c == connected_clients[pushes[n].next] IN
       \/ /\ socket[c] = "open"
          /\ pushes' = [pushes EXCEPT ![n].next = @ + 1, ![n].owed = @ \ {c}]
          /\ inbox' = [d \in Pages |-> IF d = c THEN Append(inbox[d], pushes[n].row) ELSE inbox[d]]
          /\ UNCHANGED connected_clients
       \/ /\ socket[c] \in {"lost", "raised"}
          /\ pushes' = [pushes EXCEPT ![n].next = @ + 1]
          /\ connected_clients' = Remove(connected_clients, c)
          /\ UNCHANGED inbox
    /\ UNCHANGED <<vars, posting, socket, page, shown, missed>>

\* mutant: a client that is gone is waited for
SendWaits(n) ==
    /\ Sending(n) /\ pushes[n].next <= Len(connected_clients)
    /\ LET c == connected_clients[pushes[n].next] IN
       /\ socket[c] = "open"
       /\ pushes' = [pushes EXCEPT ![n].next = @ + 1, ![n].owed = @ \ {c}]
       /\ inbox' = [d \in Pages |-> IF d = c THEN Append(inbox[d], pushes[n].row) ELSE inbox[d]]
    /\ UNCHANGED <<vars, posting, connected_clients, socket, page, shown, missed>>

\* One turn of the loop, by the index into the list as it is now.  What is sent
\* to a client that is gone raises, or is lost.
Send(n) ==
    /\ Sending(n) /\ pushes[n].next <= Len(connected_clients)
    /\ LET c == connected_clients[pushes[n].next] IN
       \/ /\ socket[c] = "open"
          /\ pushes' = [pushes EXCEPT ![n].next = @ + 1, ![n].owed = @ \ {c}]
          /\ inbox' = [d \in Pages |-> IF d = c THEN Append(inbox[d], pushes[n].row) ELSE inbox[d]]
       \/ /\ socket[c] \in {"lost", "raised"}
          /\ \E dead \in {<<>>, <<c>>} :
                pushes' = [pushes EXCEPT ![n].next = @ + 1, ![n].dead = @ \o dead]
          /\ UNCHANGED inbox
    /\ UNCHANGED <<vars, posting, connected_clients, socket, page, shown, missed>>

\* The entries that stay when C is removed, and the place of the i-th among them.
Kept(C)     == {i \in DOMAIN connected_clients : connected_clients[i] \notin C}
Place(C, i) == Cardinality({k \in Kept(C) : k <= i})

\* The list without C, and the requests whose loop is on its way and does not know.
Without(C) == [j \in 1..Cardinality(Kept(C)) |->
                  connected_clients[CHOOSE i \in Kept(C) : Place(C, i) = j]]
Shifted(C) ==
    [n \in DOMAIN pushes |->
        IF pushes[n].pc = "sending"
          THEN [pushes[n] EXCEPT !.removals = @ + Cardinality(C \cap ToSet(connected_clients))]
          ELSE pushes[n]]

\* The loop is over: the clients that failed are removed up to one that has been
\* removed already, which raises.  The consumer does not care how it is answered.
Finish(n) ==
    LET dead    == pushes[n].dead
        removed == {dead[i] : i \in {k \in DOMAIN dead :
                      \A j \in 1..k : Contains(connected_clients, dead[j])}}
    IN  /\ Sending(n) /\ pushes[n].next > Len(connected_clients)
        /\ connected_clients' = Without(removed)
        /\ pushes' = [Shifted(removed) EXCEPT ![n] = NewPush("over", None)]
        /\ Answered(n)
        /\ Miss(pushes[n].owed, pushes[n].row)
        /\ UNCHANGED <<vars, socket, inbox, page, shown>>

\* The handler of a websocket, and its end when it learns that the client is gone.
Accept(c) ==
    /\ socket[c] = "none"
    /\ socket' = [socket EXCEPT ![c] = "open"]
    /\ connected_clients' = Append(connected_clients, c)
    /\ UNCHANGED <<vars, posting, pushes, inbox, page, shown, missed>>

\* mutant: only broadcast_score removes clients
DisconnectUnnoticed(c) ==
    /\ socket[c] = "lost"
    /\ socket' = [socket EXCEPT ![c] = "closed"]
    /\ UNCHANGED <<vars, posting, api, inbox, page, shown, missed>>

Disconnect(c) ==
    /\ socket[c] = "lost"
    /\ socket' = [socket EXCEPT ![c] = "closed"]
    /\ connected_clients' = Without({c})
    /\ pushes' = Shifted({c})
    /\ UNCHANGED <<vars, posting, inbox, page, shown, missed>>

\* receive_text raises something else, as it does for a frame that is not text: the
\* handler ends and the socket with it, and the client stays in the list until a
\* broadcast fails to reach it.  A page sends no frames.
ReceiveRaises(c) ==
    /\ c \notin Pages /\ socket[c] = "open"
    /\ socket' = [socket EXCEPT ![c] = "raised"]
    /\ pushes' = [n \in DOMAIN pushes |-> [pushes[n] EXCEPT !.owed = @ \ {c}]]
    /\ UNCHANGED <<vars, posting, connected_clients, inbox, page, shown, missed>>

\* get_leaderboard: ZREVRANGE, the best teams first, equal ones in any order ...
LoadRanks(c) ==
    LET ranked == {t \in Teams : leaderboard[t] # None} IN
    /\ page[c].pc = "asked"
    /\ \E n \in 0..Top : \E top \in [1..n -> ranked] :
          /\ \A i, j \in 1..n : i < j =>
                top[i] # top[j] /\ leaderboard[top[i]] >= leaderboard[top[j]]
          /\ \A t \in ranked \ ToSet(top) :
                n = Top /\ \A i \in 1..n : leaderboard[top[i]] >= leaderboard[t]
          /\ page' = [page EXCEPT ![c] = [NewPage("reading") EXCEPT !.todo = top]]
          /\ missed' = [missed EXCEPT ![c] = Teams \ ToSet(top)]
    /\ UNCHANGED <<vars, posting, api, socket, inbox, shown>>

\* ... and one GET after the other; a missing document is left out.
LoadDetail(c) ==
    /\ page[c].pc = "reading" /\ page[c].todo # <<>>
    /\ LET doc == details[Head(page[c].todo)] IN
       page' = [page EXCEPT ![c].todo = Tail(@),
                            ![c].rows = IF doc = None THEN @ ELSE [@ EXCEPT ![doc.run] = doc.score]]
    /\ UNCHANGED <<vars, posting, api, socket, inbox, shown, missed>>

(***************************************************************************)
(* The browser                                                             *)
(***************************************************************************)
Replace(c, rows) ==
    /\ shown' = [shown EXCEPT ![c] = rows]
    /\ missed' = [missed EXCEPT ![c] = @ \cup
                    Documented({[run |-> r, score |-> shown[c][r]] :
                        r \in {q \in Runs : shown[c][q] \notin {None, rows[q]}}})]

\* The answer replaces what is shown, what was pushed before it too.
ShowAnswer(c) ==
    /\ page[c].pc = "reading" /\ page[c].todo = <<>>
    /\ Replace(c, page[c].rows)
    /\ page' = [page EXCEPT ![c] = NewPage("shown")]
    /\ UNCHANGED <<vars, posting, api, socket, inbox>>

\* mutant: a row replaces all others of the page
OnMessageAlone(c) ==
    /\ inbox[c] # <<>>
    /\ LET row == Head(inbox[c]) IN
       shown' = [shown EXCEPT ![c] = [NoRows EXCEPT ![row.run] = row.score]]
    /\ inbox' = [inbox EXCEPT ![c] = Tail(@)]
    /\ UNCHANGED <<vars, posting, api, socket, page, missed>>

\* A pushed row takes the place of another one of its submission.
OnMessage(c) ==
    /\ inbox[c] # <<>>
    /\ Replace(c, LET row == Head(inbox[c]) IN [shown[c] EXCEPT ![row.run] = row.score])
    /\ inbox' = [inbox EXCEPT ![c] = Tail(@)]
    /\ UNCHANGED <<vars, posting, api, socket, page>>

\* A client goes, and a page with all that it shows.
Leave(c) ==
    /\ socket[c] = "open"
    /\ socket' = [socket EXCEPT ![c] = "lost"]
    /\ inbox' = [d \in Pages |-> IF d = c THEN <<>> ELSE inbox[d]]
    /\ page' = [d \in Pages |-> IF d = c THEN NewPage("shown") ELSE page[d]]
    /\ shown' = [d \in Pages |-> IF d = c THEN NoRows ELSE shown[d]]
    /\ missed' = [d \in Pages |-> IF d = c THEN {} ELSE missed[d]]
    /\ pushes' = [n \in DOMAIN pushes |-> [pushes[n] EXCEPT !.owed = @ \ {c}]]
    /\ UNCHANGED <<vars, posting, connected_clients>>

(***************************************************************************)
(* Specification                                                           *)
(***************************************************************************)
Broadcast(n) == NotServed(n) \/ Serve(n) \/ Send(n) \/ Finish(n)
Read(c)      == LoadRanks(c) \/ LoadDetail(c) \/ ShowAnswer(c)

LiveNext ==
    \/ \E r \in Runs : UpdateStep(r) \/ UpdateEnds(r) \/ \E s \in Scores : BeginUpdate(r, s)
    \/ ConsumerDies
    \/ \E n \in 1..MaxPushes : Broadcast(n)
    \/ \E c \in Clients : Accept(c) \/ Leave(c) \/ Disconnect(c) \/ ReceiveRaises(c)
    \/ \E c \in Pages : Read(c) \/ OnMessage(c)

LiveSpec == LiveInit /\ [][LiveNext]_live

(***************************************************************************)
(* Properties                                                              *)
(***************************************************************************)
\* The loop over a list that others change: of the clients that were listed when
\* it began and are still there, at most as many are passed over as were removed.
SkipsNeedRemovals ==
    \A n \in DOMAIN pushes : Sending(n) =>
        LET ahead == ToSet(SubSeq(connected_clients, pushes[n].next, Len(connected_clients)))
        IN  Cardinality(pushes[n].owed \ ahead) <= pushes[n].removals

\* When nothing is on its way a connected page shows, of each team, a score as
\* good as its document: unless the page was not sent that row, or has replaced it
\* by its first answer or by another score of the same run.
PageShowsBest ==
    (\A r \in Runs : ~Updating(r)) /\ (\A n \in DOMAIN pushes : pushes[n].pc = "over") =>
        \A c \in Pages, t \in Teams :
            /\ socket[c] = "open" /\ page[c].pc = "shown" /\ inbox[c] = <<>>
            /\ details[t] # None /\ t \notin missed[c]
            => \E r \in Runs : /\ TeamOf[r] = t /\ shown[c][r] # None
                               /\ shown[c][r] >= details[t].score

\* The consumer's event loop stands still until its request is answered: the API
\* can always go on with it, whoever comes and goes.
BlockedIsServed == posting # 0 => ENABLED Broadcast(posting)
=============================================================================

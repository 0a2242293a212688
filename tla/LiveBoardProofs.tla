--------------------------- MODULE LiveBoardProofs ---------------------------
(***************************************************************************)
(* The readers, the broadcasts and the blocking request of LiveBoard leave *)
(* update_leaderboard as it is: LiveBoard implements SerialSpec, and with  *)
(* it what LeaderboardProofs shows, for any runs, teams, clients, pages.   *)
(***************************************************************************)
EXTENDS LiveBoard, LeaderboardProofs, FiniteSetTheorems, SequenceTheorems

\* What the consumer does is a step of update_leaderboard.
LEMMA ConsumerSteps ==
    ASSUME \/ \E r \in Runs : UpdateStep(r) \/ UpdateEnds(r) \/ \E s \in Scores : BeginUpdate(r, s)
           \/ ConsumerDies
    PROVE  [SerialNext]_vars
<1>1. ASSUME NEW r \in Runs, NEW s \in Scores, BeginUpdate(r, s) PROVE SerialNext
  BY <1>1 DEF BeginUpdate, SerialNext
<1>2. ASSUME NEW r \in Runs, UpdateStep(r) PROVE SerialNext
  BY <1>2 DEF UpdateStep, SerialNext
<1>3. ASSUME NEW r \in Runs, UpdateEnds(r) PROVE SerialNext
  <2>1. {r} \in SUBSET Runs /\ Abort({r})
    BY <1>3 DEF UpdateEnds
  <2> QED
    BY <2>1 DEF SerialNext
<1>4. ASSUME ConsumerDies PROVE [SerialNext]_vars
  <2> DEFINE updating == {r \in Runs : Updating(r)}
  <2>1. updating \in SUBSET Runs
    OBVIOUS
  <2>2. CASE updating = {}
    BY <1>4, <2>2 DEF ConsumerDies
  <2>3. CASE updating # {}
    <3>1. Abort(updating)
      BY <1>4, <2>3 DEF ConsumerDies
    <3> QED
      BY <2>1, <3>1 DEF SerialNext
  <2> QED
    BY <2>2, <2>3
<1> QED
  BY <1>1, <1>2, <1>3, <1>4

\* What the API and the browsers do leaves Redis and the score tasks alone.
LEMMA ReadersOnly ==
    ASSUME \/ \E n \in 1..MaxPushes : Broadcast(n)
           \/ \E c \in Clients : Accept(c) \/ Leave(c) \/ Disconnect(c) \/ ReceiveRaises(c)
           \/ \E c \in Pages : Read(c) \/ OnMessage(c)
    PROVE  UNCHANGED vars
<1>1. ASSUME NEW n, Broadcast(n) PROVE UNCHANGED vars
  BY <1>1 DEF Broadcast, NotServed, Serve, Send, Finish
<1>2. ASSUME NEW c, Accept(c) \/ Leave(c) \/ Disconnect(c) \/ ReceiveRaises(c)
      PROVE  UNCHANGED vars
  BY <1>2 DEF Accept, Leave, Disconnect, ReceiveRaises
<1>3. ASSUME NEW c, Read(c) \/ OnMessage(c) PROVE UNCHANGED vars
  BY <1>3 DEF Read, LoadRanks, LoadDetail, ShowAnswer, OnMessage
<1> QED
  BY <1>1, <1>2, <1>3

\* The whole of LiveBoard, seen at Redis, is update_leaderboard called for one run
\* of a team after the other.
THEOREM LiveImplementsSerial == LiveSpec => SerialSpec
<1>1. LiveInit => Init
  BY DEF LiveInit
<1>2. [LiveNext]_live => [SerialNext]_vars
  <2> SUFFICES ASSUME [LiveNext]_live PROVE [SerialNext]_vars
    OBVIOUS
  <2>1. CASE UNCHANGED live
    BY <2>1 DEF live
  <2>2. CASE LiveNext
    BY <2>2, ConsumerSteps, ReadersOnly DEF LiveNext
  <2> QED
    BY <2>1, <2>2
<1> QED
  BY <1>1, <1>2, PTL DEF LiveSpec, SerialSpec

\* Redis follows the all-time-high policy, whoever reads and whoever dies.
THEOREM LiveIsAllTimeHigh == LiveSpec => ImplementsAllTimeHigh
BY LiveImplementsSerial, SerialImplementsAllTimeHigh, PTL

\* What get_leaderboard finds in a document is never more than the entry it was
\* found by, as long as both are looked at together.
THEOREM LiveDetailNeverAhead == LiveSpec => []DetailNeverAhead
BY LiveImplementsSerial, DetailIsNeverAhead, PTL

(***************************************************************************)
(* The list of clients without some of them                                *)
(***************************************************************************)
\* The places of the entries that stay are counted through.
LEMMA PlacesCount ==
    ASSUME connected_clients \in Seq(Clients), NEW C
    PROVE  /\ IsFiniteSet(Kept(C)) /\ Cardinality(Kept(C)) \in Nat
           /\ \A i \in Kept(C) : Place(C, i) \in 1..Cardinality(Kept(C))
           /\ \A i, j \in Kept(C) : i < j => Place(C, i) < Place(C, j)
           /\ \A j \in 1..Cardinality(Kept(C)) : \E i \in Kept(C) : Place(C, i) = j
<1> DEFINE K == Kept(C)
           n == Cardinality(K)
           f == [i \in K |-> Place(C, i)]
<1>1. Len(connected_clients) \in Nat /\ K \subseteq 1..Len(connected_clients)
  BY DEF Kept
<1>2. IsFiniteSet(K) /\ n \in Nat
  <2>1. IsFiniteSet(1..Len(connected_clients))
    BY <1>1, FS_Interval
  <2> QED
    BY <1>1, <2>1, FS_Subset, FS_CardinalityType
<1>3. ASSUME NEW i \in K PROVE Place(C, i) \in 1..n
  <2>1. {k \in K : k <= i} \in SUBSET K
    OBVIOUS
  <2>2. IsFiniteSet({k \in K : k <= i}) /\ Place(C, i) <= n
    BY <1>2, <2>1, FS_Subset DEF Place
  <2>3. Place(C, i) \in Nat
    BY <2>2, FS_CardinalityType DEF Place
  <2>4. i \in {k \in K : k <= i}
    BY <1>1
  <2>5. Place(C, i) # 0
    BY <2>2, <2>4, FS_EmptySet DEF Place
  <2> QED
    BY <1>2, <2>2, <2>3, <2>5
<1>4. ASSUME NEW i \in K, NEW j \in K, i < j PROVE Place(C, i) < Place(C, j)
  <2> DEFINE S == {k \in K : k <= i}
             T == {k \in K : k <= j}
  <2>1. S \in SUBSET T /\ j \in T /\ j \notin S
    BY <1>1, <1>4
  <2>2. IsFiniteSet(T)
    BY <1>2, FS_Subset
  <2>3. Cardinality(S) <= Cardinality(T) /\ Cardinality(T) # Cardinality(S)
    BY <2>1, <2>2, FS_Subset
  <2>4. Place(C, i) = Cardinality(S) /\ Place(C, j) = Cardinality(T)
    BY DEF Place
  <2>5. Cardinality(S) \in Int /\ Cardinality(T) \in Int
    BY <1>3, <2>4
  <2> HIDE DEF S, T
  <2> QED
    BY <2>3, <2>4, <2>5
<1>5. f \in Injection(K, 1..n)
  <2>1. f \in [K -> 1..n]
    BY <1>2, <1>3
  <2>2. \A i, j \in K : f[i] = f[j] => i = j
    <3> SUFFICES ASSUME NEW i \in K, NEW j \in K, Place(C, i) = Place(C, j) PROVE i = j
      OBVIOUS
    <3>1. ~(i < j) /\ ~(j < i)
      <4>1. Place(C, i) \in 1..n
        BY <1>3
      <4> QED
        BY <1>4, <4>1
    <3> QED
      BY <1>1, <3>1
  <2> QED
    BY <2>1, <2>2 DEF Injection, IsInjective
<1>6. f \in Surjection(K, 1..n)
  <2>1. IsFiniteSet(1..n) /\ Cardinality(1..n) = n
    BY <1>2, FS_Interval
  <2> QED
    BY <1>5, <2>1, FS_Injection
<1>7. \A j \in 1..n : \E i \in K : Place(C, i) = j
  BY <1>6 DEF Surjection
<1> QED
  BY <1>2, <1>3, <1>4, <1>7

\* The list keeps the other entries, each at its new place.
LEMMA WithoutKeeps ==
    ASSUME connected_clients \in Seq(Clients), NEW C
    PROVE  /\ Without(C) \in Seq(Clients) /\ Len(Without(C)) = Cardinality(Kept(C))
           /\ \A i \in Kept(C) : Without(C)[Place(C, i)] = connected_clients[i]
           /\ \A j \in 1..Len(Without(C)) : \E i \in Kept(C) :
                 Place(C, i) = j /\ Without(C)[j] = connected_clients[i]
<1> DEFINE n == Cardinality(Kept(C))
           at(j) == CHOOSE i \in Kept(C) : Place(C, i) = j
<1>1. \A j \in 1..n : at(j) \in Kept(C) /\ Place(C, at(j)) = j
  BY PlacesCount
<1>2. Without(C) = [j \in 1..n |-> connected_clients[at(j)]]
  BY DEF Without
<1>3. n \in Nat /\ \A i \in Kept(C) : connected_clients[i] \in Clients
  <2>1. n \in Nat
    BY PlacesCount
  <2> QED
    BY <2>1 DEF Kept
<1> HIDE DEF n, at
<1>4. Without(C) \in [1..n -> Clients]
  BY <1>1, <1>2, <1>3
<1>5. Without(C) \in Seq(Clients) /\ Len(Without(C)) = n
  BY <1>3, <1>4
<1>6. ASSUME NEW i \in Kept(C) PROVE at(Place(C, i)) = i /\ Place(C, i) \in 1..n
  <2>1. Place(C, i) \in 1..n
    BY PlacesCount DEF n
  <2>2. at(Place(C, i)) \in Kept(C) /\ Place(C, at(Place(C, i))) = Place(C, i)
    BY <1>1, <2>1
  <2>3. ~(i < at(Place(C, i))) /\ ~(at(Place(C, i)) < i)
    BY <2>1, <2>2, PlacesCount
  <2>4. \A k \in Kept(C) : k \in Int
    BY DEF Kept
  <2> QED
    BY <2>1, <2>2, <2>3, <2>4
<1> QED
  BY <1>1, <1>2, <1>5, <1>6 DEF n

LEMMA SetListed ==
    ASSUME NEW S, IsFiniteSet(S)
    PROVE  /\ SetToSeq(S) \in Seq(S)
           /\ \A i, j \in DOMAIN SetToSeq(S) : SetToSeq(S)[i] = SetToSeq(S)[j] => i = j
<1>1. Cardinality(S) \in Nat /\ \E f \in [1..Cardinality(S) -> S] : IsInjective(f)
  BY FS_CardinalityType DEF ExistsBijection, Bijection, Injection
<1>2. SetToSeq(S) \in [1..Cardinality(S) -> S] /\ IsInjective(SetToSeq(S))
  BY <1>1 DEF SetToSeq
<1> QED
  BY <1>1, <1>2 DEF IsInjective

(***************************************************************************)
(* Types                                                                   *)
(***************************************************************************)
\* The API's list: each client once, until its handler knows that it is gone.
ListOK ==
    /\ connected_clients \in Seq(Clients)
    /\ socket \in [Clients -> {"none", "open", "lost", "raised", "closed"}]
    /\ \A c \in Clients : socket[c] \in {"none", "closed"} => ~Contains(connected_clients, c)
    /\ \A i, j \in DOMAIN connected_clients : connected_clients[i] = connected_clients[j] => i = j

\* The requests of the consumer: one that is not over has a row, and one whose loop
\* has not begun starts from the front.
PushOK ==
    /\ posting \in 0..Len(pushes) /\ pushes \in Seq(Push)
    /\ \A n \in DOMAIN pushes :
          /\ pushes[n].pc # "over" => pushes[n].row \in Document
          /\ pushes[n].pc = "posted" => pushes[n].next = 1 /\ pushes[n].removals = 0

PagesOK ==
    /\ inbox \in [Pages -> Seq(Document)]
    /\ page \in [Pages -> Page]
    /\ shown \in [Pages -> Rows]
    /\ missed \in [Pages -> SUBSET Teams]

LiveInv == TypeOK /\ ListOK /\ PushOK /\ PagesOK

\* What is removed from the list leaves each of the others listed once.
LEMMA WithoutListed ==
    ASSUME ListOK, NEW C
    PROVE  /\ \A c \in Clients : Contains(Without(C), c) <=> Contains(connected_clients, c) /\ c \notin C
           /\ \A i, j \in DOMAIN Without(C) : Without(C)[i] = Without(C)[j] => i = j
<1>1. connected_clients \in Seq(Clients) /\ DOMAIN connected_clients = 1..Len(connected_clients)
  BY DEF ListOK
<1>2. \A i \in Kept(C) : i \in 1..Len(connected_clients) /\ connected_clients[i] \notin C
  BY <1>1 DEF Kept
<1>3. ASSUME NEW c \in Clients, Contains(Without(C), c)
      PROVE  Contains(connected_clients, c) /\ c \notin C
  <2>1. PICK j \in 1..Len(Without(C)) : Without(C)[j] = c
    BY <1>3 DEF Contains
  <2>2. PICK i \in Kept(C) : Without(C)[j] = connected_clients[i]
    BY <1>1, WithoutKeeps
  <2> QED
    BY <1>2, <2>1, <2>2 DEF Contains
<1>4. ASSUME NEW c \in Clients, Contains(connected_clients, c), c \notin C
      PROVE  Contains(Without(C), c)
  <2>1. PICK i \in 1..Len(connected_clients) : connected_clients[i] = c
    BY <1>4 DEF Contains
  <2>2. i \in Kept(C)
    BY <1>1, <1>4, <2>1 DEF Kept
  <2>3. Place(C, i) \in 1..Len(Without(C)) /\ Without(C)[Place(C, i)] = c
    BY <1>1, <2>1, <2>2, WithoutKeeps, PlacesCount
  <2> QED
    BY <2>3 DEF Contains
<1>5. ASSUME NEW i \in DOMAIN Without(C), NEW j \in DOMAIN Without(C),
             Without(C)[i] = Without(C)[j]
      PROVE  i = j
  <2>1. Without(C) \in Seq(Clients)
    BY <1>1, WithoutKeeps
  <2>2. i \in 1..Len(Without(C)) /\ j \in 1..Len(Without(C))
    BY <2>1
  <2>3. PICK k \in Kept(C) : Place(C, k) = i /\ Without(C)[i] = connected_clients[k]
    BY <1>1, <2>2, WithoutKeeps
  <2>4. PICK l \in Kept(C) : Place(C, l) = j /\ Without(C)[j] = connected_clients[l]
    BY <1>1, <2>2, WithoutKeeps
  <2>5. k = l
    BY <1>1, <1>2, <1>5, <2>3, <2>4 DEF ListOK
  <2> QED
    BY <2>3, <2>4, <2>5
<1> QED
  BY <1>3, <1>4, <1>5

LEMMA ListStep == LiveInv /\ [LiveNext]_live => ListOK'
<1> SUFFICES ASSUME LiveInv, [LiveNext]_live PROVE ListOK'
  OBVIOUS
<1>1. ASSUME NEW C \in SUBSET Clients, connected_clients' = Without(C),
             socket' \in [Clients -> {"none", "open", "lost", "raised", "closed"}],
             \A c \in Clients : socket'[c] = socket[c] \/ (c \in C /\ socket'[c] = "closed")
      PROVE  ListOK'
  <2>1. ListOK /\ connected_clients \in Seq(Clients)
    BY DEF LiveInv, ListOK
  <2>2. Without(C) \in Seq(Clients)
    BY <2>1, WithoutKeeps
  <2>3. \A c \in Clients : Contains(Without(C), c) <=> Contains(connected_clients, c) /\ c \notin C
    BY <2>1, WithoutListed
  <2>4. \A i, j \in DOMAIN Without(C) : Without(C)[i] = Without(C)[j] => i = j
    BY <2>1, WithoutListed
  <2>5. \A c \in Clients : socket'[c] \in {"none", "closed"} => ~Contains(connected_clients', c)
    BY <1>1, <2>1, <2>3 DEF ListOK
  <2> QED
    BY <1>1, <2>2, <2>4, <2>5 DEF ListOK
<1>2. ASSUME UNCHANGED <<connected_clients, socket>> PROVE ListOK'
  BY <1>2 DEF LiveInv, ListOK
<1>3. ASSUME NEW n, Finish(n) PROVE ListOK'
  <2> DEFINE dead    == pushes[n].dead
             removed == {dead[i] : i \in {k \in DOMAIN dead :
                           \A j \in 1..k : Contains(connected_clients, dead[j])}}
  <2>1. pushes[n] \in Push
    BY <1>3 DEF Finish, Sending, LiveInv, PushOK
  <2>2. dead \in Seq(Clients)
    BY <2>1 DEF Push
  <2>3. removed \in SUBSET Clients
    BY <2>2
  <2>4. connected_clients' = Without(removed) /\ socket' = socket
    BY <1>3 DEF Finish
  <2> HIDE DEF removed
  <2> QED
    BY <1>1, <2>3, <2>4 DEF LiveInv, ListOK
<1>4. ASSUME NEW c \in Clients, Accept(c) PROVE ListOK'
  <2> USE DEF LiveInv, ListOK
  <2>1. /\ connected_clients' = Append(connected_clients, c)
        /\ socket' = [socket EXCEPT ![c] = "open"] /\ ~Contains(connected_clients, c)
    BY <1>4 DEF Accept
  <2>2. /\ connected_clients' \in Seq(Clients)
        /\ DOMAIN connected_clients' = 1..Len(connected_clients) + 1
        /\ Len(connected_clients') = Len(connected_clients) + 1 /\ Len(connected_clients) \in Nat
        /\ \A i \in 1..Len(connected_clients) : connected_clients'[i] = connected_clients[i]
        /\ connected_clients'[Len(connected_clients) + 1] = c
    BY <2>1
  <2>3. \A i \in 1..Len(connected_clients) : connected_clients[i] # c
    BY <2>1 DEF Contains
  <2>4. \A d \in Clients \ {c} : Contains(connected_clients', d) => Contains(connected_clients, d)
    BY <2>2 DEF Contains
  <2>5. \A i, j \in DOMAIN connected_clients' : connected_clients'[i] = connected_clients'[j] => i = j
    BY <2>2, <2>3
  <2>6. \A d \in Clients : socket'[d] \in {"none", "closed"} => ~Contains(connected_clients', d)
    BY <2>1, <2>4
  <2> QED
    BY <2>1, <2>2, <2>5, <2>6
<1>5. ASSUME NEW c \in Clients, Disconnect(c) PROVE ListOK'
  <2>1. socket' = [socket EXCEPT ![c] = "closed"] /\ connected_clients' = Without({c})
    BY <1>5 DEF Disconnect
  <2> QED
    BY <1>1, <2>1 DEF LiveInv, ListOK
<1>6. ASSUME NEW c \in Clients, Leave(c) \/ ReceiveRaises(c) PROVE ListOK'
  BY <1>6 DEF Leave, ReceiveRaises, LiveInv, ListOK
<1>7. ASSUME NEW r, UpdateStep(r) \/ UpdateEnds(r) \/ \E s \in Scores : BeginUpdate(r, s)
      PROVE  UNCHANGED <<connected_clients, socket>>
  BY <1>7 DEF UpdateStep, UpdateEnds, BeginUpdate, api, browsers
<1>8. ASSUME NEW n, NotServed(n) \/ Serve(n) \/ Send(n)
      PROVE  UNCHANGED <<connected_clients, socket>>
  BY <1>8 DEF NotServed, Serve, Send
<1>9. ASSUME NEW c, Read(c) \/ OnMessage(c) PROVE UNCHANGED <<connected_clients, socket>>
  BY <1>9 DEF Read, LoadRanks, LoadDetail, ShowAnswer, OnMessage, api
<1>10. ConsumerDies \/ UNCHANGED live => UNCHANGED <<connected_clients, socket>>
  BY DEF ConsumerDies, api, browsers, live
<1> QED
  BY <1>2, <1>3, <1>4, <1>5, <1>6, <1>7, <1>8, <1>9, <1>10 DEF LiveNext, Broadcast

\* A change of requests that are there.
LEMMA ChangedPushes ==
    ASSUME pushes \in Seq(Push), NEW q, q = [n \in DOMAIN pushes |-> q[n]],
           \A n \in DOMAIN pushes : q[n] \in Push
    PROVE  q \in Seq(Push) /\ Len(q) = Len(pushes) /\ DOMAIN q = DOMAIN pushes
<1>1. DOMAIN pushes = 1..Len(pushes) /\ Len(pushes) \in Nat
  OBVIOUS
<1>2. q \in [1..Len(pushes) -> Push]
  BY <1>1
<1> QED
  BY <1>1, <1>2

\* What each kind of change leaves of a request.
LEMMA FreshPush ==
    /\ \A row \in Document : NewPush("posted", row) \in Push
    /\ NewPush("over", None) \in Push
<1>1. <<>> \in Seq(Clients)
  OBVIOUS
<1> QED
  BY <1>1 DEF NewPush, Push

LEMMA ShiftedPushes ==
    ASSUME PushOK, ListOK, NEW C \in SUBSET Clients
    PROVE  /\ Shifted(C) \in Seq(Push) /\ Len(Shifted(C)) = Len(pushes)
           /\ DOMAIN Shifted(C) = DOMAIN pushes
           /\ \A n \in DOMAIN pushes :
                /\ Shifted(C)[n].pc = pushes[n].pc /\ Shifted(C)[n].row = pushes[n].row
                /\ Shifted(C)[n].next = pushes[n].next
                /\ Shifted(C)[n].dead = pushes[n].dead /\ Shifted(C)[n].owed = pushes[n].owed
                /\ pushes[n].pc = "sending" => Shifted(C)[n].removals = pushes[n].removals +
                      Cardinality(C \cap ToSet(connected_clients))
<1> DEFINE lost == Cardinality(C \cap ToSet(connected_clients))
<1>1. lost \in Nat
  <2>1. C \cap ToSet(connected_clients) \in SUBSET Clients
    OBVIOUS
  <2> QED
    BY <2>1, LiveAssumption, FS_Subset, FS_CardinalityType
<1>2. pushes \in Seq(Push) /\ DOMAIN Shifted(C) = DOMAIN pushes
  BY DEF PushOK, Shifted
<1> HIDE DEF lost
<1>3. ASSUME NEW n \in DOMAIN pushes
      PROVE  /\ Shifted(C)[n] \in Push
             /\ Shifted(C)[n].pc = pushes[n].pc /\ Shifted(C)[n].row = pushes[n].row
             /\ Shifted(C)[n].next = pushes[n].next
             /\ Shifted(C)[n].dead = pushes[n].dead /\ Shifted(C)[n].owed = pushes[n].owed
             /\ pushes[n].pc = "sending" => Shifted(C)[n].removals = pushes[n].removals + lost
  <2>1. pushes[n] \in Push
    BY <1>2
  <2>2. Shifted(C)[n] = IF pushes[n].pc = "sending"
                          THEN [pushes[n] EXCEPT !.removals = @ + lost] ELSE pushes[n]
    BY DEF Shifted, lost
  <2>3. pushes[n].removals + lost \in Nat
    BY <1>1, <2>1 DEF Push
  <2> QED
    BY <2>1, <2>2, <2>3 DEF Push
<1>4. Shifted(C) = [n \in DOMAIN pushes |-> Shifted(C)[n]]
  BY DEF Shifted
<1>5. Shifted(C) \in Seq(Push) /\ Len(Shifted(C)) = Len(pushes)
  BY <1>2, <1>3, <1>4, ChangedPushes
<1> QED
  BY <1>2, <1>3, <1>5 DEF lost

LEMMA PushStep == LiveInv /\ [LiveNext]_live => PushOK'
<1> SUFFICES ASSUME LiveInv, [LiveNext]_live PROVE PushOK'
  OBVIOUS
<1> DEFINE Fit(p) == p \in Push /\ (p.pc # "over" => p.row \in Document)
                                /\ (p.pc = "posted" => p.next = 1 /\ p.removals = 0)
<1>1. /\ PushOK /\ ListOK /\ pushes \in Seq(Push) /\ posting \in 0..Len(pushes)
      /\ Len(pushes) \in Nat /\ DOMAIN pushes = 1..Len(pushes)
      /\ \A n \in DOMAIN pushes : Fit(pushes[n])
  BY DEF LiveInv, PushOK
<1>2. ASSUME pushes' = [n \in DOMAIN pushes |-> pushes'[n]],
             \A n \in DOMAIN pushes : Fit(pushes'[n]), posting' \in {posting, 0}
      PROVE  PushOK'
  <2>1. pushes' \in Seq(Push) /\ Len(pushes') = Len(pushes) /\ DOMAIN pushes' = DOMAIN pushes
    BY <1>1, <1>2, ChangedPushes
  <2>2. posting' \in 0..Len(pushes')
    BY <1>1, <1>2, <2>1
  <2> QED
    BY <1>2, <2>1, <2>2 DEF PushOK
<1>3. ASSUME pushes' = pushes, posting' \in {posting, 0} PROVE PushOK'
  BY <1>1, <1>3 DEF PushOK
<1>4. ASSUME NEW n \in DOMAIN pushes, NEW p, Fit(p), pushes' = [pushes EXCEPT ![n] = p],
             posting' \in {posting, 0}
      PROVE  PushOK'
  <2>1. pushes' = [m \in DOMAIN pushes |-> pushes'[m]]
    BY <1>4
  <2>2. \A m \in DOMAIN pushes : pushes'[m] = IF m = n THEN p ELSE pushes[m]
    BY <1>4
  <2>3. \A m \in DOMAIN pushes : Fit(pushes'[m])
    BY <1>1, <1>4, <2>2
  <2> QED
    BY <1>2, <1>4, <2>1, <2>3
<1>5. ASSUME NEW r \in Runs, UpdateStep(r) PROVE PushOK'
  <2>1. CASE Updating(r)'
    BY <1>3, <1>5, <2>1 DEF UpdateStep
  <2>2. CASE ~Updating(r)'
    <3> DEFINE p == NewPush("posted", [run |-> r, score |-> update[r].score])
    <3>1. posting' = Len(pushes) + 1 /\ pushes' = Append(pushes, p)
      BY <1>5, <2>2 DEF UpdateStep
    <3>2. update[r].score \in Scores
      <4>1. update[r].pc # "idle"
        BY <1>5 DEF UpdateStep, Step, ZScore, ZAdd, SetDetail
      <4> QED
        BY <4>1 DEF LiveInv, TypeOK
    <3>3. [run |-> r, score |-> update[r].score] \in Document
      BY <3>2 DEF Document
    <3>4. Fit(p)
      BY <3>3, FreshPush DEF NewPush
    <3> HIDE DEF p
    <3>5. /\ pushes' \in Seq(Push) /\ Len(pushes') = Len(pushes) + 1
          /\ \A n \in DOMAIN pushes' : pushes'[n] = p \/ (n \in DOMAIN pushes /\ pushes'[n] = pushes[n])
      BY <1>1, <3>1, <3>4
    <3>6. \A n \in DOMAIN pushes' : Fit(pushes'[n])
      BY <1>1, <3>4, <3>5
    <3> HIDE DEF Fit
    <3>7. posting' \in 0..Len(pushes')
      BY <1>1, <3>1, <3>5
    <3> QED
      BY <3>5, <3>6, <3>7 DEF PushOK, Fit
  <2> QED
    BY <2>1, <2>2
<1>6. ASSUME NEW n, NotServed(n) PROVE PushOK'
  <2>1. n \in DOMAIN pushes /\ pushes' = [pushes EXCEPT ![n] = NewPush("over", None)]
        /\ posting' \in {posting, 0}
    BY <1>6 DEF NotServed, Answered
  <2>2. Fit(NewPush("over", None))
    BY FreshPush DEF NewPush
  <2> HIDE DEF Fit
  <2> QED
    BY <1>4, <2>1, <2>2
<1>7. ASSUME NEW n, Serve(n) PROVE PushOK'
  <2> DEFINE owed == {c \in ToSet(connected_clients) : socket[c] = "open"}
             p == [pushes[n] EXCEPT !.pc = "sending", !.owed = owed]
  <2>1. n \in DOMAIN pushes /\ posting' = posting
        /\ pushes' = [pushes EXCEPT ![n].pc = "sending", ![n].owed = owed]
    BY <1>7 DEF Serve
  <2>2. owed \in SUBSET Clients
    BY <1>1 DEF ListOK, ToSet
  <2> HIDE DEF owed
  <2>3. pushes[n].pc = "posted" /\ Fit(pushes[n])
    BY <1>1, <1>7 DEF Serve
  <2>4. p \in Push /\ p.row = pushes[n].row /\ p.pc = "sending"
    BY <2>2, <2>3 DEF Push
  <2>5. Fit(p)
    BY <2>3, <2>4
  <2>6. pushes' = [pushes EXCEPT ![n] = p]
    BY <2>1
  <2> HIDE DEF p, Fit
  <2> QED
    BY <1>4, <2>1, <2>5, <2>6
<1>8. ASSUME NEW n, Send(n) PROVE PushOK'
  <2> DEFINE c == connected_clients[pushes[n].next]
  <2>1. n \in DOMAIN pushes /\ pushes[n].pc = "sending" /\ posting' = posting
        /\ pushes[n].next <= Len(connected_clients)
    BY <1>8 DEF Send, Sending
  <2>2. Fit(pushes[n])
    BY <1>1, <2>1
  <2>3. c \in Clients
    BY <1>1, <2>1, <2>2 DEF ListOK, Push
  <2>4. PICK p : /\ pushes' = [pushes EXCEPT ![n] = p]
                 /\ \/ p = [pushes[n] EXCEPT !.next = @ + 1, !.owed = @ \ {c}]
                    \/ p = [pushes[n] EXCEPT !.next = @ + 1, !.dead = @ \o <<>>]
                    \/ p = [pushes[n] EXCEPT !.next = @ + 1, !.dead = @ \o <<c>>]
    BY <1>8 DEF Send
  <2> HIDE DEF c
  <2>5. pushes[n].next + 1 \in Nat \ {0} /\ pushes[n].owed \ {c} \in SUBSET Clients
        /\ pushes[n].dead \o <<>> \in Seq(Clients) /\ pushes[n].dead \o <<c>> \in Seq(Clients)
    BY <2>2, <2>3 DEF Push
  <2>6. p \in Push /\ p.pc = "sending" /\ p.row = pushes[n].row
    BY <2>1, <2>2, <2>4, <2>5 DEF Push
  <2>7. Fit(p)
    BY <2>1, <2>2, <2>6
  <2> HIDE DEF Fit
  <2> QED
    BY <1>4, <2>1, <2>4, <2>7
<1>9. ASSUME NEW C \in SUBSET Clients PROVE \A m \in DOMAIN pushes : Fit(Shifted(C)[m])
  <2> SUFFICES ASSUME NEW m \in DOMAIN pushes PROVE Fit(Shifted(C)[m])
    OBVIOUS
  <2>1. Fit(pushes[m])
    BY <1>1
  <2>2. Shifted(C)[m] \in Push
    <3>1. Shifted(C) \in Seq(Push) /\ DOMAIN Shifted(C) = DOMAIN pushes
      BY <1>1, ShiftedPushes
    <3> QED
      BY <3>1
  <2>3. Shifted(C)[m].pc = pushes[m].pc /\ Shifted(C)[m].row = pushes[m].row
        /\ Shifted(C)[m].next = pushes[m].next
    BY <1>1, ShiftedPushes
  <2>4. pushes[m].pc = "posted" => Shifted(C)[m] = pushes[m]
    BY DEF Shifted
  <2> QED
    BY <2>1, <2>2, <2>3, <2>4
<1>10. ASSUME NEW n, Finish(n) PROVE PushOK'
  <2> DEFINE dead    == pushes[n].dead
             removed == {dead[i] : i \in {k \in DOMAIN dead :
                           \A j \in 1..k : Contains(connected_clients, dead[j])}}
             p == NewPush("over", None)
  <2>1. n \in DOMAIN pushes /\ posting' \in {posting, 0}
        /\ pushes' = [Shifted(removed) EXCEPT ![n] = p]
    BY <1>10 DEF Finish, Answered, Sending
  <2>2. dead \in Seq(Clients)
    BY <1>1, <2>1 DEF Push
  <2>3. removed \in SUBSET Clients
    BY <2>2
  <2>4. Fit(p)
    BY FreshPush DEF NewPush
  <2> HIDE DEF removed, p
  <2>5. DOMAIN Shifted(removed) = DOMAIN pushes
    BY DEF Shifted
  <2>6. pushes' = [m \in DOMAIN pushes |-> IF m = n THEN p ELSE Shifted(removed)[m]]
    BY <2>1, <2>5
  <2>7. \A m \in DOMAIN pushes : Fit(pushes'[m])
    <3>1. \A m \in DOMAIN pushes : Fit(Shifted(removed)[m])
      BY <1>9, <2>3
    <3> HIDE DEF Fit
    <3> QED
      BY <2>4, <2>6, <3>1
  <2> HIDE DEF Fit
  <2> QED
    BY <1>2, <2>1, <2>6, <2>7
<1>11. ASSUME NEW c \in Clients, Disconnect(c) PROVE PushOK'
  <2>1. pushes' = Shifted({c}) /\ posting' = posting
    BY <1>11 DEF Disconnect
  <2>2. Shifted({c}) = [m \in DOMAIN pushes |-> Shifted({c})[m]]
    BY DEF Shifted
  <2>3. \A m \in DOMAIN pushes : Fit(Shifted({c})[m])
    BY <1>9
  <2> HIDE DEF Fit
  <2> QED
    BY <1>2, <2>1, <2>2, <2>3
<1>12. ASSUME NEW c \in Clients, Leave(c) \/ ReceiveRaises(c) PROVE PushOK'
  <2>1. pushes' = [m \in DOMAIN pushes |-> [pushes[m] EXCEPT !.owed = @ \ {c}]] /\ posting' = posting
    BY <1>12 DEF Leave, ReceiveRaises
  <2>2. ASSUME NEW m \in DOMAIN pushes PROVE Fit(pushes'[m])
    <3>1. Fit(pushes[m]) /\ pushes'[m] = [pushes[m] EXCEPT !.owed = @ \ {c}]
      BY <1>1, <2>1
    <3> QED
      BY <3>1 DEF Push
  <2>3. pushes' = [m \in DOMAIN pushes |-> pushes'[m]]
    BY <2>1
  <2> HIDE DEF Fit
  <2> QED
    BY <1>2, <2>1, <2>2, <2>3
<1>13. ASSUME NEW r, UpdateEnds(r) \/ \E s \in Scores : BeginUpdate(r, s)
       PROVE  pushes' = pushes /\ posting' = posting
  BY <1>13 DEF UpdateEnds, BeginUpdate, api
<1>14. ConsumerDies \/ UNCHANGED live => pushes' = pushes /\ posting' \in {posting, 0}
  BY DEF ConsumerDies, api, live
<1>15. ASSUME NEW c, Accept(c) \/ Read(c) \/ OnMessage(c) PROVE pushes' = pushes /\ posting' = posting
  BY <1>15 DEF Accept, Read, LoadRanks, LoadDetail, ShowAnswer, OnMessage, api
<1> QED
  BY <1>3, <1>5, <1>6, <1>7, <1>8, <1>10, <1>11, <1>12, <1>13, <1>14, <1>15 DEF LiveNext, Broadcast

LEMMA PagesStep == LiveInv /\ [LiveNext]_live => PagesOK'
<1> SUFFICES ASSUME LiveInv, [LiveNext]_live PROVE PagesOK'
  OBVIOUS
<1>1. TypeOK /\ ListOK /\ PushOK /\ PagesOK
  BY DEF LiveInv
<1>2. ASSUME UNCHANGED <<inbox, page, shown>>, missed' \in [Pages -> SUBSET Teams] PROVE PagesOK'
  BY <1>1, <1>2 DEF PagesOK
<1>3. ASSUME NEW C, NEW row, Miss(C, row) PROVE missed' \in [Pages -> SUBSET Teams]
  <2>1. Documented({row}) \in SUBSET Teams
    BY DEF Documented
  <2> QED
    BY <1>1, <1>3, <2>1 DEF Miss, PagesOK
<1>4. ASSUME NEW c \in Pages, NEW rows \in Rows, Replace(c, rows)
      PROVE  shown' \in [Pages -> Rows] /\ missed' \in [Pages -> SUBSET Teams]
  <2> DEFINE seen == {[run |-> r, score |-> shown[c][r]] :
                        r \in {q \in Runs : shown[c][q] \notin {None, rows[q]}}}
  <2>1. Documented(seen) \in SUBSET Teams
    BY DEF Documented
  <2>2. missed' = [missed EXCEPT ![c] = @ \cup Documented(seen)]
    BY <1>4 DEF Replace
  <2>3. shown' = [shown EXCEPT ![c] = rows]
    BY <1>4 DEF Replace
  <2> HIDE DEF seen
  <2>4. missed[c] \cup Documented(seen) \in SUBSET Teams
    BY <1>1, <2>1 DEF PagesOK
  <2> QED
    BY <1>1, <2>2, <2>3, <2>4 DEF PagesOK
<1>5. NoRows \in Rows /\ \A pc \in {"asked", "reading", "shown"} : NewPage(pc) \in Page
  <2>1. NoRows \in Rows
    BY DEF NoRows, Rows
  <2>2. <<>> \in Seq(Teams)
    OBVIOUS
  <2> QED
    BY <2>1, <2>2 DEF NewPage, Page
<1>6. ASSUME NEW doc \in Document, NEW rows \in Rows
      PROVE  [rows EXCEPT ![doc.run] = doc.score] \in Rows
  BY <1>6 DEF Document, Rows
<1>7. ASSUME NEW r, UpdateStep(r) PROVE PagesOK'
  <2>1. missed' \in [Pages -> SUBSET Teams] /\ UNCHANGED <<inbox, page, shown>>
    BY <1>1, <1>7 DEF UpdateStep, PagesOK
  <2> QED
    BY <1>2, <2>1
<1>8. ASSUME NEW n, NotServed(n) \/ Serve(n) \/ Finish(n) PROVE PagesOK'
  <2>1. UNCHANGED <<inbox, page, shown>> /\ \E C, row : Miss(C, row)
    BY <1>8 DEF NotServed, Serve, Finish
  <2> QED
    BY <1>2, <1>3, <2>1
<1>9. ASSUME NEW n, Send(n) PROVE PagesOK'
  <2> DEFINE c == connected_clients[pushes[n].next]
             sent == [d \in Pages |-> IF d = c THEN Append(inbox[d], pushes[n].row) ELSE inbox[d]]
  <2>1. /\ n \in DOMAIN pushes /\ pushes[n].pc = "sending"
        /\ inbox' = sent \/ inbox' = inbox
        /\ UNCHANGED <<page, shown, missed>>
    BY <1>9 DEF Send, Sending
  <2>2. pushes[n].row \in Document
    BY <1>1, <2>1 DEF PushOK
  <2> HIDE DEF c
  <2>3. sent \in [Pages -> Seq(Document)]
    BY <1>1, <2>2 DEF PagesOK
  <2> QED
    BY <1>1, <2>1, <2>3 DEF PagesOK
<1>10. ASSUME NEW c, Leave(c) PROVE PagesOK'
  <2>1. <<>> \in Seq(Document)
    OBVIOUS
  <2>2. inbox' \in [Pages -> Seq(Document)]
    BY <1>1, <1>10, <2>1 DEF Leave, PagesOK
  <2>3. page' \in [Pages -> Page]
    BY <1>1, <1>5, <1>10 DEF Leave, PagesOK
  <2>4. shown' \in [Pages -> Rows]
    BY <1>1, <1>5, <1>10 DEF Leave, PagesOK
  <2>5. missed' \in [Pages -> SUBSET Teams]
    BY <1>1, <1>10 DEF Leave, PagesOK
  <2> QED
    BY <2>2, <2>3, <2>4, <2>5 DEF PagesOK
<1>11. ASSUME NEW c \in Pages, LoadRanks(c) PROVE PagesOK'
  <2>1. PICK n \in 0..Top : \E top \in [1..n -> Teams] :
           /\ page' = [page EXCEPT ![c] = [NewPage("reading") EXCEPT !.todo = top]]
           /\ missed' = [missed EXCEPT ![c] = Teams \ ToSet(top)]
    BY <1>11 DEF LoadRanks
  <2>2. PICK top \in [1..n -> Teams] :
           /\ page' = [page EXCEPT ![c] = [NewPage("reading") EXCEPT !.todo = top]]
           /\ missed' = [missed EXCEPT ![c] = Teams \ ToSet(top)]
    BY <2>1
  <2>3. n \in Nat /\ top \in Seq(Teams)
    BY <2>1, <2>2, LiveAssumption
  <2>4. [NewPage("reading") EXCEPT !.todo = top] \in Page
    BY <1>5, <2>3 DEF NewPage, Page
  <2>5. page' \in [Pages -> Page] /\ missed' \in [Pages -> SUBSET Teams]
    BY <1>1, <2>2, <2>4 DEF PagesOK
  <2>6. UNCHANGED <<inbox, shown>>
    BY <1>11 DEF LoadRanks
  <2> QED
    BY <1>1, <2>5, <2>6 DEF PagesOK
<1>12. ASSUME NEW c \in Pages, LoadDetail(c) PROVE PagesOK'
  <2> DEFINE doc == details[Head(page[c].todo)]
             rows == IF doc = None THEN page[c].rows
                     ELSE [page[c].rows EXCEPT ![doc.run] = doc.score]
             p == [page[c] EXCEPT !.todo = Tail(@), !.rows = rows]
  <2>1. page[c] \in Page /\ page[c].todo # <<>>
    BY <1>1, <1>12 DEF LoadDetail, PagesOK
  <2>2. Head(page[c].todo) \in Teams /\ Tail(page[c].todo) \in Seq(Teams)
    BY <2>1 DEF Page
  <2>3. doc \in Document \cup {None}
    BY <1>1, <2>2 DEF TypeOK
  <2>4. page' = [page EXCEPT ![c] = p]
    BY <1>12 DEF LoadDetail
  <2> HIDE DEF doc
  <2>5. rows \in Rows
    BY <1>6, <2>1, <2>3 DEF Page
  <2> HIDE DEF rows
  <2>6. p \in Page
    BY <2>1, <2>2, <2>5 DEF Page
  <2> HIDE DEF p
  <2>7. page' \in [Pages -> Page] /\ UNCHANGED <<inbox, shown, missed>>
    BY <1>1, <1>12, <2>4, <2>6 DEF LoadDetail, PagesOK
  <2> QED
    BY <1>1, <2>7 DEF PagesOK
<1>13. ASSUME NEW c \in Pages, ShowAnswer(c) PROVE PagesOK'
  <2>1. page[c].rows \in Rows
    BY <1>1 DEF PagesOK, Page
  <2>2. shown' \in [Pages -> Rows] /\ missed' \in [Pages -> SUBSET Teams]
    BY <1>4, <1>13, <2>1 DEF ShowAnswer
  <2>3. page' \in [Pages -> Page] /\ inbox' = inbox
    BY <1>1, <1>5, <1>13 DEF ShowAnswer, PagesOK
  <2> QED
    BY <1>1, <2>2, <2>3 DEF PagesOK
<1>14. ASSUME NEW c \in Pages, OnMessage(c) PROVE PagesOK'
  <2> DEFINE row == Head(inbox[c])
             rows == [shown[c] EXCEPT ![row.run] = row.score]
  <2>1. inbox[c] \in Seq(Document) /\ inbox[c] # <<>> /\ shown[c] \in Rows
    BY <1>1, <1>14 DEF OnMessage, PagesOK
  <2>2. row \in Document /\ Tail(inbox[c]) \in Seq(Document)
    BY <2>1
  <2>3. rows \in Rows
    BY <1>6, <2>1, <2>2
  <2>4. Replace(c, rows) /\ inbox' = [inbox EXCEPT ![c] = Tail(inbox[c])] /\ page' = page
    BY <1>14 DEF OnMessage
  <2> HIDE DEF rows, row
  <2>5. shown' \in [Pages -> Rows] /\ missed' \in [Pages -> SUBSET Teams]
    BY <1>4, <2>3, <2>4
  <2>6. inbox' \in [Pages -> Seq(Document)]
    BY <1>1, <2>2, <2>4 DEF PagesOK
  <2> QED
    BY <1>1, <2>4, <2>5, <2>6 DEF PagesOK
<1>15. ASSUME NEW r, UpdateEnds(r) \/ \E s \in Scores : BeginUpdate(r, s) PROVE UNCHANGED browsers
  BY <1>15 DEF UpdateEnds, BeginUpdate
<1>16. ConsumerDies \/ UNCHANGED live => UNCHANGED browsers
  BY DEF ConsumerDies, live
<1>17. ASSUME NEW c, Accept(c) \/ Disconnect(c) \/ ReceiveRaises(c)
       PROVE  UNCHANGED <<inbox, page, shown, missed>>
  BY <1>17 DEF Accept, Disconnect, ReceiveRaises
<1>18. UNCHANGED browsers \/ UNCHANGED <<inbox, page, shown, missed>> => PagesOK'
  BY <1>1 DEF PagesOK, browsers
<1> QED
  BY <1>7, <1>8, <1>9, <1>10, <1>11, <1>12, <1>13, <1>14, <1>15, <1>16, <1>17, <1>18
  DEF LiveNext, Broadcast, Read

LEMMA LiveInvariant == LiveSpec => []LiveInv
<1>1. LiveInit => LiveInv
  <2> SUFFICES ASSUME LiveInit PROVE LiveInv
    OBVIOUS
  <2>1. TypeOK
    BY DEF LiveInit, Init, TypeOK, Update, Document, NoUpdate
  <2>2. ListOK
    <3> DEFINE S == Clients \ Pages
    <3>1. IsFiniteSet(S)
      BY LiveAssumption, FS_Subset
    <3>2. /\ SetToSeq(S) \in Seq(S)
          /\ \A i, j \in DOMAIN SetToSeq(S) : SetToSeq(S)[i] = SetToSeq(S)[j] => i = j
      BY <3>1, SetListed
    <3>3. /\ connected_clients = SetToSeq(S)
          /\ socket = [c \in Clients |-> IF c \in Pages THEN "none" ELSE "open"]
      BY DEF LiveInit
    <3> HIDE DEF S
    <3>4. connected_clients \in Seq(S) /\ \A c \in Pages : c \notin S
      BY <3>2, <3>3 DEF S
    <3>5. \A c \in Clients : socket[c] \in {"none", "closed"} => ~Contains(connected_clients, c)
      BY <3>3, <3>4 DEF Contains
    <3>6. connected_clients \in Seq(Clients)
      BY <3>4 DEF S
    <3> QED
      BY <3>2, <3>3, <3>5, <3>6 DEF ListOK
  <2>3. PushOK
    BY DEF LiveInit, PushOK
  <2>4. PagesOK
    <3>1. NoRows \in Rows /\ <<>> \in Seq(Teams) /\ <<>> \in Seq(Document)
      BY DEF NoRows, Rows
    <3>2. NewPage("asked") \in Page
      BY <3>1 DEF NewPage, Page
    <3> QED
      BY <3>1, <3>2 DEF LiveInit, PagesOK
  <2> QED
    BY <2>1, <2>2, <2>3, <2>4 DEF LiveInv
<1>2. LiveSpec => []TypeOK
  BY LiveImplementsSerial, SerialIsSpec, TypeCorrect, PTL
<1>3. LiveInv /\ [LiveNext]_live /\ TypeOK' => LiveInv'
  BY ListStep, PushStep, PagesStep DEF LiveInv
<1> QED
  BY <1>1, <1>2, <1>3, PTL DEF LiveSpec

\* The types of what the API and the browsers keep, and the list of the clients:
\* one that has been accepted is listed once, and while it is listed its handler lives.
THEOREM LiveTypes == LiveSpec => []LiveTypeOK
<1>1. LiveInv => LiveTypeOK
  BY DEF LiveInv, ListOK, PushOK, PagesOK, LiveTypeOK
<1> QED
  BY <1>1, LiveInvariant, PTL

(***************************************************************************)
(* What a page shows: the document of a team that the page has not missed  *)
(* is always somewhere between the consumer and the page.                  *)
(***************************************************************************)
DetailOwner == \A t \in Teams : details[t] # None => TeamOf[details[t].run] = t

\* The row d is sent or about to be sent to page c.
OnItsWay(c, d) ==
    \/ \E n \in DOMAIN pushes : pushes[n].pc = "posted" /\ pushes[n].row = d
    \/ \E n \in DOMAIN pushes : Sending(n) /\ pushes[n].row = d /\ c \in pushes[n].owed
    \/ d \in ToSet(inbox[c])

\* The answer that page c waits for has, or will have, the document d of t.
BeingRead(c, t, d) ==
    /\ page[c].pc = "reading"
    /\ t \in ToSet(page[c].todo) \/ page[c].rows[d.run] = d.score

Reaches(c, t, d) == OnItsWay(c, d) \/ BeingRead(c, t, d) \/ shown[c][d.run] = d.score

\* Page c is there, has asked, and has not missed the document of t.
Follows(c, t) ==
    /\ socket[c] \in {"none", "open"} /\ page[c].pc # "asked"
    /\ details[t] # None /\ t \notin missed[c]

PageInv ==
    /\ DetailOwner
    /\ \A c \in Pages, t \in Teams : Follows(c, t) => Reaches(c, t, details[t])

LEMMA Appended ==
    ASSUME NEW S, NEW s \in Seq(S), NEW x \in S
    PROVE  ToSet(Append(s, x)) = ToSet(s) \cup {x}
<1>1. /\ DOMAIN Append(s, x) = 1..Len(s) + 1 /\ DOMAIN s = 1..Len(s) /\ Len(s) \in Nat
      /\ Append(s, x)[Len(s) + 1] = x
      /\ \A i \in 1..Len(s) : Append(s, x)[i] = s[i]
  OBVIOUS
<1> QED
  BY <1>1 DEF ToSet

LEMMA Tailed ==
    ASSUME NEW S, NEW s \in Seq(S), s # <<>>
    PROVE  ToSet(s) = {Head(s)} \cup ToSet(Tail(s))
<1>1. /\ Len(s) \in Nat \ {0} /\ DOMAIN s = 1..Len(s) /\ DOMAIN Tail(s) = 1..Len(s) - 1
      /\ Head(s) = s[1] /\ \A i \in 1..Len(s) - 1 : Tail(s)[i] = s[i + 1]
  OBVIOUS
<1>2. ASSUME NEW i \in 1..Len(s) PROVE s[i] = Head(s) \/ \E j \in DOMAIN Tail(s) : s[i] = Tail(s)[j]
  <2>1. CASE i = 1
    BY <1>1, <2>1
  <2>2. CASE i # 1
    <3>1. i - 1 \in DOMAIN Tail(s) /\ Tail(s)[i - 1] = s[i]
      BY <1>1, <2>2
    <3> QED
      BY <3>1
  <2> QED
    BY <2>1, <2>2
<1>3. \A j \in DOMAIN Tail(s) : j + 1 \in 1..Len(s) /\ Tail(s)[j] = s[j + 1]
  BY <1>1
<1>4. 1 \in DOMAIN s
  BY <1>1
<1> QED
  BY <1>1, <1>2, <1>3, <1>4 DEF ToSet

\* A document is that of a run of its team.
LEMMA OwnerStep == LiveInv /\ DetailOwner /\ [LiveNext]_live => DetailOwner'
<1> SUFFICES ASSUME LiveInv, DetailOwner, [LiveNext]_live PROVE DetailOwner'
  OBVIOUS
<1>1. ASSUME NEW r \in Runs, UpdateStep(r) PROVE DetailOwner'
  BY <1>1, TeamOfAssumption DEF UpdateStep, Step, ZScore, ZAdd, SetDetail, DetailOwner, LiveInv, TypeOK
<1>2. ASSUME NEW r, UpdateEnds(r) \/ \E s \in Scores : BeginUpdate(r, s) PROVE details' = details
  BY <1>2 DEF UpdateEnds, BeginUpdate, Begin, Abort
<1>3. ConsumerDies => details' = details
  BY DEF ConsumerDies, Abort, vars
<1>4. UNCHANGED vars \/ UNCHANGED live => details' = details
  BY DEF vars, live
<1>5. details' = details => DetailOwner'
  BY DEF DetailOwner
<1> QED
  BY <1>1, <1>2, <1>3, <1>4, <1>5, ReadersOnly DEF LiveNext

\* What a page that has asked has missed, it keeps missing; and the row, if C says so.
LEMMA MissKeeps ==
    ASSUME PagesOK, NEW C, NEW row, Miss(C, row), NEW c \in Pages, NEW t \in Teams,
           page[c].pc # "asked", t \notin missed'[c]
    PROVE  t \notin missed[c] /\ (c \in C => row # details[t])
BY DEF Miss, PagesOK, Documented

LEMMA ReplaceKeeps ==
    ASSUME PagesOK, NEW e \in Pages, NEW rows, Replace(e, rows), NEW c \in Pages, NEW t \in Teams,
           t \notin missed'[c], details[t] \in Document
    PROVE  /\ t \notin missed[c]
           /\ c # e => shown'[c] = shown[c]
           /\ c = e => shown'[c] = rows
           /\ c = e /\ shown[c][details[t].run] = details[t].score =>
                 rows[details[t].run] = details[t].score
<1> DEFINE d == details[t]
           gone == {[run |-> r, score |-> shown[e][r]] :
                      r \in {q \in Runs : shown[e][q] \notin {None, rows[q]}}}
<1>1. /\ shown' = [shown EXCEPT ![e] = rows]
      /\ missed' = [missed EXCEPT ![e] = @ \cup Documented(gone)]
  BY DEF Replace
<1>2. d.run \in Runs /\ d.score \in Scores /\ d = [run |-> d.run, score |-> d.score]
  BY DEF Document
<1>3. ASSUME c = e, shown[c][d.run] = d.score, rows[d.run] # d.score PROVE FALSE
  <2>1. d.score # None
    BY <1>2, ScoresAssumption
  <2>2. d.run \in {q \in Runs : shown[e][q] \notin {None, rows[q]}}
    BY <1>2, <1>3, <2>1
  <2>3. d \in gone
    BY <1>2, <1>3, <2>2
  <2>4. t \in Documented(gone)
    BY <2>3 DEF Documented
  <2> QED
    BY <1>1, <1>3, <2>4 DEF PagesOK
<1> HIDE DEF gone
<1>4. t \notin missed[c]
  BY <1>1 DEF PagesOK
<1> QED
  BY <1>1, <1>3, <1>4 DEF PagesOK

\* A step of the API or of a browser.
LEMMA ReachesAfterReaders ==
    ASSUME LiveInv, LiveInv', PageInv, UNCHANGED vars,
           \/ \E n \in 1..MaxPushes : Broadcast(n)
           \/ \E e \in Clients : Accept(e) \/ Leave(e) \/ Disconnect(e) \/ ReceiveRaises(e)
           \/ \E e \in Pages : Read(e) \/ OnMessage(e),
           NEW c \in Pages, NEW t \in Teams, NEW d \in Document, d = details[t], Follows(c, t)'
    PROVE  Reaches(c, t, d)'
<1>1. /\ TypeOK /\ ListOK /\ PushOK /\ PagesOK /\ c \in Clients
      /\ details' = details /\ details[t] \in Document /\ details[t] # None
      /\ pushes \in Seq(Push)
  BY LiveAssumption DEF LiveInv, vars, Follows, PushOK
<1>2. ASSUME t \notin missed[c], socket[c] \in {"none", "open"}, page[c].pc # "asked"
      PROVE  Reaches(c, t, d)
  BY <1>1, <1>2 DEF PageInv, Follows
<1>3. ASSUME OnItsWay(c, d)', UNCHANGED <<page, shown>> PROVE Reaches(c, t, d)'
  BY <1>3 DEF Reaches
<1>4. ASSUME BeingRead(c, t, d) \/ shown[c][d.run] = d.score, UNCHANGED <<page, shown>>
      PROVE  Reaches(c, t, d)'
  BY <1>4 DEF Reaches, BeingRead
<1>5. t \notin missed'[c] /\ socket'[c] \in {"none", "open"} /\ page'[c].pc # "asked"
  BY DEF Follows
<1>6. ASSUME NEW n, NotServed(n) PROVE Reaches(c, t, d)'
  <2>1. /\ n \in DOMAIN pushes /\ pushes' = [pushes EXCEPT ![n] = NewPush("over", None)]
        /\ Miss(Clients, pushes[n].row) /\ UNCHANGED <<socket, inbox, page, shown>>
        /\ pushes[n].pc = "posted"
    BY <1>6 DEF NotServed
  <2>2. t \notin missed[c] /\ pushes[n].row # d
    BY <1>1, <1>5, <2>1, MissKeeps
  <2>3. Reaches(c, t, d)
    BY <1>2, <1>5, <2>1, <2>2
  <2>4. \A m \in DOMAIN pushes : m # n => m \in DOMAIN pushes' /\ pushes'[m] = pushes[m]
    BY <2>1
  <2>5. OnItsWay(c, d) => OnItsWay(c, d)'
    BY <2>1, <2>2, <2>4 DEF OnItsWay, Sending
  <2> QED
    BY <1>3, <1>4, <2>1, <2>3, <2>5 DEF Reaches
<1>7. ASSUME NEW n, Serve(n) PROVE Reaches(c, t, d)'
  <2> DEFINE owed == {e \in ToSet(connected_clients) : socket[e] = "open"}
  <2>1. /\ n \in DOMAIN pushes /\ pushes[n].pc = "posted"
        /\ pushes' = [pushes EXCEPT ![n].pc = "sending", ![n].owed = owed]
        /\ Miss(Clients \ ToSet(connected_clients), pushes[n].row)
        /\ UNCHANGED <<socket, inbox, page, shown>>
    BY <1>7 DEF Serve
  <2> DEFINE others == Clients \ ToSet(connected_clients)
  <2>0. c \notin ToSet(connected_clients) => c \in others
    BY <1>1
  <2> HIDE DEF others
  <2>2. t \notin missed[c] /\ (c \notin ToSet(connected_clients) => pushes[n].row # d)
    <3>1. Miss(others, pushes[n].row) /\ page[c].pc # "asked"
      BY <1>5, <2>1 DEF others
    <3> QED
      BY <1>1, <1>5, <2>0, <3>1, MissKeeps
  <2>3. Reaches(c, t, d)
    BY <1>2, <1>5, <2>1, <2>2
  <2>4. c \in ToSet(connected_clients) => c \in owed
    <3>1. c \in ToSet(connected_clients) => Contains(connected_clients, c)
      BY <1>1 DEF ToSet, Contains, ListOK
    <3> QED
      BY <1>1, <1>5, <2>1, <3>1 DEF ListOK
  <2> HIDE DEF owed
  <2>5. /\ \A m \in DOMAIN pushes : m # n => m \in DOMAIN pushes' /\ pushes'[m] = pushes[m]
        /\ n \in DOMAIN pushes' /\ pushes'[n].pc = "sending" /\ pushes'[n].owed = owed
        /\ pushes'[n].row = pushes[n].row
    <3>1. pushes[n] \in Push
      BY <1>1, <2>1
    <3> QED
      BY <2>1, <3>1 DEF Push
  <2>6. OnItsWay(c, d) => OnItsWay(c, d)'
    BY <2>1, <2>2, <2>4, <2>5 DEF OnItsWay, Sending
  <2> QED
    BY <1>3, <1>4, <2>1, <2>3, <2>6 DEF Reaches
<1>8. ASSUME NEW n, Send(n) PROVE Reaches(c, t, d)'
  <2> DEFINE e == connected_clients[pushes[n].next]
  <2>1. /\ n \in DOMAIN pushes /\ pushes[n].pc = "sending"
        /\ UNCHANGED <<socket, page, shown, missed>>
    BY <1>8 DEF Send, Sending
  <2>2. /\ pushes[n] \in Push /\ pushes[n].row \in Document
        /\ inbox[c] \in Seq(Document)
    BY <1>1, <2>1 DEF PushOK, PagesOK
  <2>3. PICK p : /\ pushes' = [pushes EXCEPT ![n] = p]
                 /\ \/ /\ p = [pushes[n] EXCEPT !.next = @ + 1, !.owed = @ \ {e}]
                       /\ inbox' = [f \in Pages |-> IF f = e THEN Append(inbox[f], pushes[n].row)
                                                    ELSE inbox[f]]
                    \/ /\ inbox' = inbox
                       /\ \/ p = [pushes[n] EXCEPT !.next = @ + 1, !.dead = @ \o <<>>]
                          \/ p = [pushes[n] EXCEPT !.next = @ + 1, !.dead = @ \o <<e>>]
    <3> DEFINE sent == [f \in Pages |-> IF f = e THEN Append(inbox[f], pushes[n].row) ELSE inbox[f]]
    <3>1. \/ /\ pushes' = [pushes EXCEPT ![n] = [pushes[n] EXCEPT !.next = @ + 1, !.owed = @ \ {e}]]
             /\ inbox' = sent
          \/ /\ inbox' = inbox
             /\ \/ pushes' = [pushes EXCEPT ![n] = [pushes[n] EXCEPT !.next = @ + 1, !.dead = @ \o <<>>]]
                \/ pushes' = [pushes EXCEPT ![n] = [pushes[n] EXCEPT !.next = @ + 1, !.dead = @ \o <<e>>]]
      BY <1>8 DEF Send
    <3> HIDE DEF sent, e
    <3> QED
      BY <3>1 DEF sent
  <2> HIDE DEF e
  <2>4. /\ p.pc = "sending" /\ p.row = pushes[n].row
        /\ c \in pushes[n].owed => c \in p.owed \/ (c = e /\ inbox'[c] = Append(inbox[c], pushes[n].row))
    <3>1. p.pc = pushes[n].pc /\ p.row = pushes[n].row
      BY <2>2, <2>3 DEF Push
    <3>2. \/ p.owed = pushes[n].owed
          \/ /\ p.owed = pushes[n].owed \ {e}
             /\ inbox' = [f \in Pages |-> IF f = e THEN Append(inbox[f], pushes[n].row) ELSE inbox[f]]
      BY <2>2, <2>3 DEF Push
    <3> QED
      BY <2>1, <3>1, <3>2
  <2>5. /\ ToSet(inbox[c]) \subseteq ToSet(inbox'[c])
        /\ inbox'[c] = Append(inbox[c], pushes[n].row) => pushes[n].row \in ToSet(inbox'[c])
    <3>1. inbox'[c] \in {inbox[c], Append(inbox[c], pushes[n].row)}
      BY <2>3
    <3>2. ToSet(Append(inbox[c], pushes[n].row)) = ToSet(inbox[c]) \cup {pushes[n].row}
      BY <2>2, Appended
    <3> QED
      BY <3>1, <3>2
  <2>6. /\ \A m \in DOMAIN pushes : m # n => m \in DOMAIN pushes' /\ pushes'[m] = pushes[m]
        /\ n \in DOMAIN pushes' /\ pushes'[n] = p
    BY <2>1, <2>3
  <2>7. OnItsWay(c, d) => OnItsWay(c, d)'
    <3>1. ASSUME NEW m \in DOMAIN pushes, pushes[m].pc = "posted", pushes[m].row = d
          PROVE  OnItsWay(c, d)'
      BY <2>1, <2>6, <3>1 DEF OnItsWay
    <3>2. ASSUME NEW m \in DOMAIN pushes, Sending(m), pushes[m].row = d, c \in pushes[m].owed
          PROVE  OnItsWay(c, d)'
      <4>1. CASE m # n
        BY <2>6, <3>2, <4>1 DEF OnItsWay, Sending
      <4>2. CASE m = n /\ c \in p.owed
        BY <2>4, <2>6, <3>2, <4>2 DEF OnItsWay, Sending
      <4>3. CASE m = n /\ c \notin p.owed
        BY <2>4, <2>5, <3>2, <4>3 DEF OnItsWay
      <4> QED
        BY <4>1, <4>2, <4>3
    <3>3. d \in ToSet(inbox[c]) => OnItsWay(c, d)'
      BY <2>5 DEF OnItsWay
    <3> QED
      BY <3>1, <3>2, <3>3 DEF OnItsWay
  <2>8. Reaches(c, t, d)
    BY <1>2, <1>5, <2>1
  <2> QED
    BY <1>3, <1>4, <2>1, <2>7, <2>8 DEF Reaches
<1>9. ASSUME NEW C \in SUBSET Clients, NEW n,
             \A m \in DOMAIN pushes : m # n => m \in DOMAIN pushes' /\ pushes'[m] = Shifted(C)[m],
             n \in DOMAIN pushes => pushes[n].pc = "sending" /\ (c \in pushes[n].owed => pushes[n].row # d),
             inbox' = inbox
      PROVE  OnItsWay(c, d) => OnItsWay(c, d)'
  <2>1. \A m \in DOMAIN pushes :
          /\ Shifted(C)[m].pc = pushes[m].pc /\ Shifted(C)[m].row = pushes[m].row
          /\ Shifted(C)[m].owed = pushes[m].owed
    BY <1>1, ShiftedPushes
  <2> QED
    BY <1>9, <2>1 DEF OnItsWay, Sending
<1>10. ASSUME NEW n, Finish(n) PROVE Reaches(c, t, d)'
  <2> DEFINE dead    == pushes[n].dead
             removed == {dead[i] : i \in {k \in DOMAIN dead :
                           \A j \in 1..k : Contains(connected_clients, dead[j])}}
  <2>1. /\ n \in DOMAIN pushes /\ pushes[n].pc = "sending"
        /\ pushes' = [Shifted(removed) EXCEPT ![n] = NewPush("over", None)]
        /\ Miss(pushes[n].owed, pushes[n].row) /\ UNCHANGED <<socket, inbox, page, shown>>
    BY <1>10 DEF Finish, Sending
  <2>2. dead \in Seq(Clients)
    <3>1. pushes[n] \in Push
      BY <1>1, <2>1
    <3> QED
      BY <3>1 DEF Push
  <2>3. removed \in SUBSET Clients
    BY <2>2
  <2> HIDE DEF removed
  <2>4. t \notin missed[c] /\ (c \in pushes[n].owed => pushes[n].row # d)
    BY <1>1, <1>5, <2>1, MissKeeps
  <2>5. \A m \in DOMAIN pushes : m # n => m \in DOMAIN pushes' /\ pushes'[m] = Shifted(removed)[m]
    BY <2>1 DEF Shifted
  <2>6. OnItsWay(c, d) => OnItsWay(c, d)'
    BY <1>9, <2>1, <2>3, <2>4, <2>5
  <2>7. Reaches(c, t, d)
    BY <1>2, <1>5, <2>1, <2>4
  <2> QED
    BY <1>3, <1>4, <2>1, <2>6, <2>7 DEF Reaches
<1>11. ASSUME NEW e \in Clients, Disconnect(e) PROVE Reaches(c, t, d)'
  <2>1. /\ socket' = [socket EXCEPT ![e] = "closed"] /\ pushes' = Shifted({e})
        /\ UNCHANGED <<inbox, page, shown, missed>>
    BY <1>11 DEF Disconnect
  <2>2. socket[c] \in {"none", "open"}
    BY <1>1, <1>5, <2>1 DEF ListOK
  <2>3. \A m \in DOMAIN pushes : m \in DOMAIN pushes' /\ pushes'[m] = Shifted({e})[m]
    BY <2>1 DEF Shifted
  <2>4. 0 \notin DOMAIN pushes
    BY <1>1
  <2>5. OnItsWay(c, d) => OnItsWay(c, d)'
    BY <1>9, <2>1, <2>3, <2>4
  <2>6. Reaches(c, t, d)
    BY <1>2, <1>5, <2>1, <2>2
  <2> QED
    BY <1>3, <1>4, <2>1, <2>5, <2>6 DEF Reaches
<1>12. ASSUME NEW e \in Clients, Leave(e) \/ ReceiveRaises(e) PROVE Reaches(c, t, d)'
  <2>1. /\ \E to \in {"lost", "raised"} : socket' = [socket EXCEPT ![e] = to]
        /\ socket[e] = "open"
        /\ pushes' = [n \in DOMAIN pushes |-> [pushes[n] EXCEPT !.owed = @ \ {e}]]
    BY <1>12 DEF Leave, ReceiveRaises
  <2>2. c # e /\ socket'[c] = socket[c]
    BY <1>1, <1>5, <2>1 DEF ListOK
  <2>3. inbox'[c] = inbox[c] /\ page'[c] = page[c] /\ shown'[c] = shown[c] /\ missed'[c] = missed[c]
    BY <1>12, <2>2 DEF Leave, ReceiveRaises
  <2>4. \A m \in DOMAIN pushes : /\ m \in DOMAIN pushes' /\ pushes'[m].pc = pushes[m].pc
                                 /\ pushes'[m].row = pushes[m].row
                                 /\ c \in pushes[m].owed => c \in pushes'[m].owed
    <3> SUFFICES ASSUME NEW m \in DOMAIN pushes
                 PROVE  /\ m \in DOMAIN pushes' /\ pushes'[m].pc = pushes[m].pc
                        /\ pushes'[m].row = pushes[m].row
                        /\ c \in pushes[m].owed => c \in pushes'[m].owed
      OBVIOUS
    <3>1. pushes[m] \in Push
      BY <1>1
    <3> QED
      BY <2>1, <2>2, <3>1 DEF Push
  <2>5. OnItsWay(c, d) => OnItsWay(c, d)'
    BY <2>3, <2>4 DEF OnItsWay, Sending
  <2>6. Reaches(c, t, d)
    BY <1>2, <1>5, <2>2, <2>3
  <2> QED
    BY <2>3, <2>5, <2>6 DEF Reaches, BeingRead
<1>13. ASSUME NEW e \in Clients, Accept(e) PROVE Reaches(c, t, d)'
  <2>1. /\ socket[e] = "none" /\ socket' = [socket EXCEPT ![e] = "open"]
        /\ UNCHANGED <<pushes, inbox, page, shown, missed>>
    BY <1>13 DEF Accept
  <2>2. socket[c] \in {"none", "open"}
    BY <1>1, <1>5, <2>1 DEF ListOK
  <2>3. Reaches(c, t, d)
    BY <1>2, <1>5, <2>1, <2>2
  <2> QED
    BY <2>1, <2>3 DEF Reaches, OnItsWay, BeingRead, Sending
<1>14. ASSUME NEW e \in Pages, LoadRanks(e) PROVE Reaches(c, t, d)'
  <2>1. PICK top : /\ page' = [page EXCEPT ![e] = [NewPage("reading") EXCEPT !.todo = top]]
                   /\ missed' = [missed EXCEPT ![e] = Teams \ ToSet(top)]
    BY <1>14 DEF LoadRanks
  <2>2. UNCHANGED <<pushes, socket, inbox, shown>>
    BY <1>14 DEF LoadRanks, api
  <2>3. CASE c = e
    <3>1. t \in ToSet(top) /\ page'[c].todo = top /\ page'[c].pc = "reading"
      BY <1>1, <1>5, <2>1, <2>3 DEF PagesOK, NewPage
    <3> QED
      BY <3>1 DEF Reaches, BeingRead
  <2>4. CASE c # e
    <3>1. page'[c] = page[c] /\ missed'[c] = missed[c]
      BY <1>1, <2>1, <2>4 DEF PagesOK
    <3>2. Reaches(c, t, d)
      BY <1>2, <1>5, <2>2, <3>1
    <3> QED
      BY <2>2, <3>1, <3>2 DEF Reaches, OnItsWay, BeingRead, Sending
  <2> QED
    BY <2>3, <2>4
<1>15. ASSUME NEW e \in Pages, LoadDetail(e) PROVE Reaches(c, t, d)'
  <2> DEFINE u == Head(page[e].todo)
             doc == details[u]
             rows == IF doc = None THEN page[e].rows
                     ELSE [page[e].rows EXCEPT ![doc.run] = doc.score]
  <2>1. /\ page' = [page EXCEPT ![e] = [page[e] EXCEPT !.todo = Tail(@), !.rows = rows]]
        /\ UNCHANGED <<pushes, socket, inbox, shown, missed>>
        /\ page[e].pc = "reading" /\ page[e].todo # <<>>
    BY <1>15 DEF LoadDetail, api
  <2>2. page[e] \in Page /\ page[e].todo \in Seq(Teams) /\ page[e].rows \in Rows /\ u \in Teams
    BY <1>1, <2>1 DEF PagesOK, Page
  <2>3. page'[e].pc = "reading" /\ page'[e].todo = Tail(page[e].todo) /\ page'[e].rows = rows
    BY <1>1, <2>1, <2>2 DEF PagesOK, Page
  <2>4. \A f \in Pages : f # e => page'[f] = page[f]
    BY <1>1, <2>1 DEF PagesOK
  <2>5. Reaches(c, t, d)
    BY <1>2, <1>5, <2>1, <2>2, <2>4
  <2>6. ASSUME c = e, t \in ToSet(page[c].todo) \/ page[c].rows[d.run] = d.score
        PROVE  t \in ToSet(Tail(page[c].todo)) \/ rows[d.run] = d.score
    <3>1. d.run \in Runs
      BY DEF Document
    <3>2. CASE u = t
      BY <1>1, <2>2, <2>6, <3>1, <3>2 DEF Rows
    <3>3. CASE u # t /\ t \in ToSet(page[c].todo)
      BY <2>1, <2>2, <2>6, <3>3, Tailed
    <3>4. CASE u # t /\ page[c].rows[d.run] = d.score
      <4>1. doc = None \/ doc.run # d.run
        BY <1>1, <2>2, <3>4 DEF PageInv, DetailOwner
      <4> QED
        BY <2>2, <2>6, <3>1, <3>4, <4>1 DEF Rows
    <3> QED
      BY <2>6, <3>2, <3>3, <3>4
  <2> HIDE DEF rows
  <2>7. BeingRead(c, t, d) => BeingRead(c, t, d)'
    <3>1. CASE c = e
      BY <2>3, <2>6, <3>1 DEF BeingRead
    <3>2. CASE c # e
      BY <2>4, <3>2 DEF BeingRead
    <3> QED
      BY <3>1, <3>2
  <2> QED
    BY <2>1, <2>5, <2>7 DEF Reaches, OnItsWay, Sending
<1>16. ASSUME NEW e \in Pages, ShowAnswer(e) PROVE Reaches(c, t, d)'
  <2>1. /\ page[e].pc = "reading" /\ page[e].todo = <<>> /\ Replace(e, page[e].rows)
        /\ page' = [page EXCEPT ![e] = NewPage("shown")] /\ UNCHANGED <<pushes, socket, inbox>>
    BY <1>16 DEF ShowAnswer, api
  <2>2. /\ t \notin missed[c] /\ c # e => shown'[c] = shown[c]
        /\ c = e => shown'[c] = page[e].rows
        /\ c = e /\ shown[c][d.run] = d.score => page[e].rows[d.run] = d.score
    BY <1>1, <1>5, <2>1, ReplaceKeeps
  <2>3. t \notin missed[c]
    BY <1>1, <1>5, <2>1, ReplaceKeeps
  <2>4. c # e => page'[c] = page[c]
    BY <1>1, <2>1 DEF PagesOK
  <2>5. Reaches(c, t, d)
    BY <1>2, <1>5, <2>1, <2>3, <2>4
  <2>6. OnItsWay(c, d) => OnItsWay(c, d)'
    BY <2>1 DEF OnItsWay, Sending
  <2>7. CASE c # e
    BY <2>2, <2>3, <2>4, <2>5, <2>6, <2>7 DEF Reaches, BeingRead
  <2>8. CASE c = e
    <3>1. t \notin ToSet(page[c].todo)
      BY <2>1, <2>8 DEF ToSet
    <3>2. BeingRead(c, t, d) \/ shown[c][d.run] = d.score => shown'[c][d.run] = d.score
      BY <2>2, <2>8, <3>1, <2>3 DEF BeingRead
    <3> QED
      BY <2>5, <2>6, <3>2 DEF Reaches
  <2> QED
    BY <2>7, <2>8
<1>17. ASSUME NEW e \in Pages, OnMessage(e) PROVE Reaches(c, t, d)'
  <2> DEFINE row == Head(inbox[e])
             rows == [shown[e] EXCEPT ![row.run] = row.score]
  <2>1. /\ inbox[e] # <<>> /\ Replace(e, rows)
        /\ inbox' = [inbox EXCEPT ![e] = Tail(@)] /\ UNCHANGED <<pushes, socket, page>>
    BY <1>17 DEF OnMessage, api
  <2>2. inbox[e] \in Seq(Document) /\ shown[e] \in Rows /\ d.run \in Runs
    BY <1>1 DEF PagesOK, Document
  <2>3. row = d => rows[d.run] = d.score
    BY <2>2 DEF Rows
  <2> HIDE DEF rows
  <2>4. /\ t \notin missed[c]
        /\ c # e => shown'[c] = shown[c]
        /\ c = e => shown'[c] = rows
        /\ c = e /\ shown[c][d.run] = d.score => rows[d.run] = d.score
    BY <1>1, <1>5, <2>1, ReplaceKeeps
  <2>5. Reaches(c, t, d)
    BY <1>2, <1>5, <2>1, <2>4
  <2>6. d \in ToSet(inbox[c]) => d \in ToSet(inbox'[c]) \/ (c = e /\ d = row)
    <3>1. CASE c = e
      <4>1. ToSet(inbox[e]) = {row} \cup ToSet(Tail(inbox[e])) /\ inbox'[e] = Tail(inbox[e])
        BY <1>1, <2>1, <2>2, Tailed DEF PagesOK
      <4> QED
        BY <3>1, <4>1
    <3>2. CASE c # e
      BY <2>1, <3>2
    <3> QED
      BY <3>1, <3>2
  <2> HIDE DEF row
  <2>7. OnItsWay(c, d) => OnItsWay(c, d)' \/ (c = e /\ d = row)
    BY <2>1, <2>6 DEF OnItsWay, Sending
  <2>8. c = e /\ d = row => shown'[c][d.run] = d.score
    BY <2>3, <2>4
  <2>9. shown[c][d.run] = d.score => shown'[c][d.run] = d.score
    BY <2>4
  <2> QED
    BY <2>1, <2>5, <2>7, <2>8, <2>9 DEF Reaches, BeingRead
<1> QED
  BY <1>6, <1>7, <1>8, <1>10, <1>11, <1>12, <1>13, <1>14, <1>15, <1>16, <1>17 DEF Broadcast, Read

LEMMA PageStep == LiveInv /\ LiveInv' /\ PageInv /\ [LiveNext]_live => PageInv'
<1> SUFFICES ASSUME LiveInv, LiveInv', PageInv, [LiveNext]_live PROVE PageInv'
  OBVIOUS
<1>1. DetailOwner'
  BY OwnerStep DEF PageInv
<1> SUFFICES ASSUME NEW c \in Pages, NEW t \in Teams, Follows(c, t)'
             PROVE  Reaches(c, t, details[t])'
  BY <1>1 DEF PageInv
<1>2. PICK d \in Document : d = details'[t]
  BY DEF Follows, LiveInv, TypeOK
<1> SUFFICES Reaches(c, t, d)'
  BY <1>2
<1>3. ASSUME UNCHANGED <<details, pushes, socket, inbox, page, shown, missed>>
      PROVE  Reaches(c, t, d)'
  BY <1>2, <1>3 DEF PageInv, Follows, Reaches, OnItsWay, BeingRead, Sending
<1>4. ASSUME NEW r \in Runs, UpdateStep(r) PROVE Reaches(c, t, d)'
  <2>1. /\ pushes \in Seq(Push) /\ missed \in [Pages -> SUBSET Teams]
        /\ details \in [Teams -> Document \cup {None}]
    BY DEF LiveInv, PushOK, PagesOK, TypeOK
  <2>2. UNCHANGED <<socket, inbox, page, shown>>
    BY <1>4 DEF UpdateStep
  <2>3. CASE details'[t] = details[t]
    <3>1. t \notin missed[c]
      BY <1>4, <2>1, <2>3 DEF UpdateStep, Follows
    <3>2. Reaches(c, t, d)
      BY <1>2, <2>2, <2>3, <3>1 DEF PageInv, Follows
    <3>3. pushes' = pushes \/ \E p : pushes' = Append(pushes, p)
      BY <1>4 DEF UpdateStep
    <3>4. \A n \in DOMAIN pushes : n \in DOMAIN pushes' /\ pushes'[n] = pushes[n]
      <4>1. ASSUME NEW p, pushes' = Append(pushes, p)
            PROVE  \A n \in DOMAIN pushes : n \in DOMAIN pushes' /\ pushes'[n] = pushes[n]
        BY <2>1, <4>1
      <4> QED
        BY <3>3, <4>1
    <3> QED
      BY <2>2, <3>2, <3>4 DEF Reaches, OnItsWay, BeingRead, Sending
  <2>4. CASE details'[t] # details[t]
    <3>1. SetDetail(r)
      BY <1>4, <2>4 DEF UpdateStep, Step, ZScore, ZAdd
    <3>2. d = [run |-> r, score |-> update[r].score]
      BY <1>2, <2>1, <2>4, <3>1 DEF SetDetail
    <3>3. ~Updating(r)'
      BY <3>1 DEF SetDetail, Updating, NoUpdate, LiveInv, TypeOK
    <3>4. pushes' = Append(pushes, NewPush("posted", d))
      BY <1>4, <3>2, <3>3 DEF UpdateStep
    <3>5. NewPush("posted", d).pc = "posted" /\ NewPush("posted", d).row = d
      BY DEF NewPush
    <3>6. Len(pushes) + 1 \in DOMAIN pushes' /\ pushes'[Len(pushes) + 1] = NewPush("posted", d)
      BY <2>1, <3>4
    <3> QED
      BY <3>5, <3>6 DEF Reaches, OnItsWay
  <2> QED
    BY <2>3, <2>4
<1>5. ASSUME NEW r, UpdateEnds(r) \/ \E s \in Scores : BeginUpdate(r, s) PROVE Reaches(c, t, d)'
  BY <1>3, <1>5 DEF UpdateEnds, BeginUpdate, Begin, Abort, api, browsers
<1>6. CASE ConsumerDies
  BY <1>3, <1>6 DEF ConsumerDies, Abort, vars, api, browsers
<1>7. CASE UNCHANGED live
  BY <1>3, <1>7 DEF live, vars, api, browsers
<1>8. CASE \/ \E n \in 1..MaxPushes : Broadcast(n)
           \/ \E e \in Clients : Accept(e) \/ Leave(e) \/ Disconnect(e) \/ ReceiveRaises(e)
           \/ \E e \in Pages : Read(e) \/ OnMessage(e)
  <2>1. UNCHANGED vars
    BY <1>8, ReadersOnly
  <2>2. d = details[t]
    BY <1>2, <2>1 DEF vars
  <2> QED
    BY <1>8, <2>1, <2>2, ReachesAfterReaders
<1> QED
  BY <1>4, <1>5, <1>6, <1>7, <1>8 DEF LiveNext

\* When nothing is on its way a connected page shows, of each team whose document it
\* has not missed or replaced, a score as good as that document's.
THEOREM PagesShowBest == LiveSpec => []PageShowsBest
<1>1. LiveInit => PageInv
  BY DEF LiveInit, Init, PageInv, DetailOwner, Follows, NewPage
<1>2. LiveInv /\ PageInv => PageShowsBest
  <2> SUFFICES ASSUME LiveInv, PageInv, \A n \in DOMAIN pushes : pushes[n].pc = "over",
                      NEW c \in Pages, NEW t \in Teams, socket[c] = "open",
                      page[c].pc = "shown", inbox[c] = <<>>, details[t] # None, t \notin missed[c]
               PROVE  \E r \in Runs : /\ TeamOf[r] = t /\ shown[c][r] # None
                                      /\ shown[c][r] >= details[t].score
    BY DEF PageShowsBest
  <2> DEFINE d == details[t]
  <2>1. d \in Document
    BY DEF LiveInv, TypeOK
  <2>2. ~OnItsWay(c, d) /\ ~BeingRead(c, t, d)
    BY DEF OnItsWay, BeingRead, Sending, ToSet
  <2>3. shown[c][d.run] = d.score /\ TeamOf[d.run] = t
    BY <2>2 DEF PageInv, DetailOwner, Follows, Reaches
  <2>4. d.run \in Runs /\ d.score \in Nat /\ d.score # None
    BY <2>1, ScoresAssumption DEF Document
  <2> QED
    BY <2>3, <2>4
<1> QED
  BY <1>1, <1>2, LiveInvariant, PageStep, PTL DEF LiveSpec

(***************************************************************************)
(* The loop of a broadcast over a list that others change.                 *)
(***************************************************************************)
\* What is left of a list from a place on.
From(s, next) == ToSet(SubSeq(s, next, Len(s)))

LEMMA FromIs ==
    ASSUME NEW S, NEW s \in Seq(S), NEW next \in Nat \ {0}
    PROVE  From(s, next) = {s[i] : i \in next..Len(s)}
<1> DEFINE n == Len(s)
           t == SubSeq(s, next, n)
<1>1. next \in Int /\ n \in Int /\ \A i \in next..n : s[i] \in S
  OBVIOUS
<1>2. /\ t \in Seq(S) /\ Len(t) = IF next <= n THEN n - next + 1 ELSE 0
      /\ \A i \in 1..n - next + 1 : t[i] = s[next + i - 1]
  BY <1>1, SubSeqProperties
<1>3. DOMAIN t = 1..n - next + 1
  BY <1>1, <1>2
<1>4. From(s, next) = {t[i] : i \in 1..n - next + 1}
  BY <1>3 DEF From, ToSet
<1> HIDE DEF t, n
<1>5. ASSUME NEW i \in 1..n - next + 1 PROVE next + i - 1 \in next..n /\ t[i] = s[next + i - 1]
  BY <1>1, <1>2
<1>6. ASSUME NEW i \in next..n PROVE i - next + 1 \in 1..n - next + 1 /\ t[i - next + 1] = s[i]
  <2>1. i - next + 1 \in 1..n - next + 1 /\ next + (i - next + 1) - 1 = i
    BY <1>1
  <2> QED
    BY <1>5, <2>1
<1>7. {t[i] : i \in 1..n - next + 1} = {s[i] : i \in next..n}
  BY <1>5, <1>6
<1> QED
  BY <1>4, <1>7 DEF n

\* A removal from the list hides from the loop at most as many clients as it removes.
LEMMA HiddenByRemoval ==
    ASSUME ListOK, NEW C, NEW next \in Nat \ {0}
    PROVE  LET hidden == From(connected_clients, next) \ From(Without(C), next)
           IN  /\ IsFiniteSet(hidden)
               /\ Cardinality(hidden) <= Cardinality(C \cap ToSet(connected_clients))
<1> DEFINE list == connected_clients
           len == Len(list)
           hidden == From(list, next) \ From(Without(C), next)
           R == {i \in 1..len : list[i] \in C}
           D == {i \in next..len : i \in R \/ Place(C, i) < next}
           P == {i \in Kept(C) : Place(C, i) < next}
           gone == C \cap ToSet(list)
<1>1. list \in Seq(Clients) /\ len \in Nat /\ DOMAIN list = 1..len
  BY DEF ListOK
<1>2. Kept(C) = (1..len) \ R
  BY <1>1 DEF Kept
<1>3. From(list, next) = {list[i] : i \in next..len}
  BY <1>1, FromIs
<1>4. ASSUME NEW i \in next..len, list[i] \notin From(Without(C), next) PROVE i \in D
  <2>1. i \in 1..len
    BY <1>1
  <2>2. CASE i \in R
    BY <2>2
  <2>3. CASE i \in Kept(C) /\ ~(Place(C, i) < next)
    <3>1. Without(C) \in Seq(Clients) /\ Len(Without(C)) = Cardinality(Kept(C))
          /\ Without(C)[Place(C, i)] = list[i]
      BY <1>1, <2>3, WithoutKeeps
    <3>2. Place(C, i) \in 1..Cardinality(Kept(C)) /\ Cardinality(Kept(C)) \in Nat
      BY <1>1, <2>3, PlacesCount
    <3>3. Place(C, i) \in next..Len(Without(C))
      BY <2>3, <3>1, <3>2
    <3>4. list[i] \in From(Without(C), next)
      BY <3>1, <3>3, FromIs
    <3> QED
      BY <1>4, <3>4
  <2> QED
    BY <1>2, <2>1, <2>2, <2>3
<1>5. IsFiniteSet(D) /\ Cardinality(D) <= Cardinality(R) /\ Cardinality(D) \in Nat
      /\ IsFiniteSet(R) /\ Cardinality(R) \in Nat
  <2>1. IsFiniteSet(1..len) /\ R \in SUBSET (1..len) /\ D \in SUBSET (1..len)
        /\ Kept(C) \in SUBSET (1..len) /\ P \in SUBSET (1..len)
    BY <1>1, <1>2, FS_Interval
  <2>2. IsFiniteSet(R) /\ IsFiniteSet(D) /\ IsFiniteSet(P) /\ IsFiniteSet(Kept(C))
    BY <2>1, FS_Subset
  <2>3. Cardinality(R) \in Nat /\ Cardinality(D) \in Nat /\ Cardinality(P) \in Nat
    BY <2>2, FS_CardinalityType
  <2>4. CASE next - 1 > len
    <3>1. D = {}
      BY <1>1, <2>4
    <3> QED
      BY <2>2, <2>3, <3>1, FS_EmptySet
  <2>5. CASE next - 1 <= len
    <3> DEFINE front == 1..next - 1
    <3>1. IsFiniteSet(front) /\ Cardinality(front) = next - 1
      BY FS_Interval
    <3>2. Cardinality(P) <= next - 1
      <4> DEFINE f == [i \in P |-> Place(C, i)]
      <4>1. \A i \in P : Place(C, i) \in front
        <5>1. \A i \in P : Place(C, i) \in 1..Cardinality(Kept(C)) /\ Place(C, i) < next
          BY <1>1, PlacesCount
        <5>2. Cardinality(Kept(C)) \in Nat
          BY <1>1, PlacesCount
        <5> QED
          BY <5>1, <5>2
      <4>2. \A i, j \in P : Place(C, i) = Place(C, j) => i = j
        <5> SUFFICES ASSUME NEW i \in P, NEW j \in P, Place(C, i) = Place(C, j) PROVE i = j
          OBVIOUS
        <5>1. ~(i < j) /\ ~(j < i)
          <6>1. i < j => Place(C, i) < Place(C, j)
            BY <1>1, PlacesCount
          <6>2. j < i => Place(C, j) < Place(C, i)
            BY <1>1, PlacesCount
          <6>3. Place(C, i) \in Int
            BY <4>1
          <6> HIDE DEF P
          <6> QED
            BY <6>1, <6>2, <6>3
        <5>2. i \in Int /\ j \in Int
          BY <2>1
        <5> QED
          BY <5>1, <5>2
      <4> HIDE DEF front, P
      <4>3. f \in Injection(P, front)
        BY <4>1, <4>2 DEF Injection, IsInjective
      <4> QED
        BY <3>1, <4>3, FS_Injection
    <3>3. D \cup front \subseteq P \cup R
      <4>1. ASSUME NEW i \in Kept(C), i < next PROVE Place(C, i) < next
        <5>1. {k \in Kept(C) : k <= i} \in SUBSET (1..i) /\ i \in Nat
          BY <2>1
        <5>2. IsFiniteSet(1..i) /\ Cardinality(1..i) = i
          BY <5>1, FS_Interval
        <5>3. Place(C, i) <= i
          BY <5>1, <5>2, FS_Subset DEF Place
        <5>4. Place(C, i) \in Int
          <6>1. Place(C, i) \in 1..Cardinality(Kept(C))
            BY <1>1, PlacesCount
          <6> QED
            BY <6>1
        <5> QED
          BY <4>1, <5>1, <5>3, <5>4
      <4>2. \A i \in front : i \in 1..len /\ i < next
        BY <1>1, <2>5
      <4>3. \A i \in D : i \in 1..len /\ (i \in R \/ Place(C, i) < next)
        BY <2>1
      <4> QED
        BY <1>2, <4>1, <4>2, <4>3
    <3>4. D \cap front = {}
      BY <1>1
    <3> HIDE DEF D, front, P, R
    <3>5. /\ IsFiniteSet(D \cup front)
          /\ Cardinality(D \cup front) = Cardinality(D) + (next - 1) - Cardinality(D \cap front)
      BY <2>2, <3>1, FS_Union
    <3>6. Cardinality(D \cap front) = 0
      BY <3>4, FS_EmptySet
    <3>7. /\ IsFiniteSet(P \cup R)
          /\ Cardinality(P \cup R) = Cardinality(P) + Cardinality(R) - Cardinality(P \cap R)
      BY <2>2, FS_Union
    <3>8. Cardinality(P \cap R) \in Nat
      <4>1. IsFiniteSet(P \cap R)
        BY <2>2, FS_Subset
      <4> QED
        BY <4>1, FS_CardinalityType
    <3>9. Cardinality(D \cup front) <= Cardinality(P \cup R)
      BY <3>3, <3>7, FS_Subset
    <3> QED
      BY <2>2, <2>3, <3>2, <3>5, <3>6, <3>7, <3>8, <3>9
  <2> QED
    BY <1>1, <2>4, <2>5
<1>6. IsFiniteSet(gone) /\ Cardinality(R) <= Cardinality(gone)
  <2> DEFINE f == [i \in R |-> list[i]]
  <2>1. gone \in SUBSET Clients
    BY <1>1 DEF ToSet
  <2>2. IsFiniteSet(gone)
    BY <2>1, LiveAssumption, FS_Subset
  <2>3. \A i \in R : list[i] \in gone
    BY <1>1 DEF ToSet
  <2>4. \A i, j \in R : list[i] = list[j] => i = j
    BY <1>1 DEF ListOK
  <2> HIDE DEF R, gone
  <2>5. f \in Injection(R, gone)
    BY <2>3, <2>4 DEF Injection, IsInjective
  <2> QED
    BY <2>2, <2>5, FS_Injection
<1>7. IsFiniteSet(hidden) /\ Cardinality(hidden) <= Cardinality(D) /\ Cardinality(hidden) \in Nat
  <2> DEFINE image == {list[i] : i \in D}
             f == [i \in D |-> list[i]]
  <2>1. f \in Surjection(D, image)
    BY DEF Surjection
  <2> HIDE DEF f, image
  <2>2. IsFiniteSet(image) /\ Cardinality(image) <= Cardinality(D)
    BY <1>5, <2>1, FS_Surjection
  <2>3. hidden \in SUBSET image
    <3> SUFFICES ASSUME NEW c \in hidden PROVE c \in image
      OBVIOUS
    <3>1. PICK i \in next..len : c = list[i]
      BY <1>3
    <3>2. i \in D
      BY <1>4, <3>1
    <3> HIDE DEF D
    <3> QED
      BY <3>1, <3>2 DEF image
  <2>4. Cardinality(image) \in Nat
    BY <2>2, FS_CardinalityType
  <2>5. IsFiniteSet(hidden) /\ Cardinality(hidden) <= Cardinality(image)
    BY <2>2, <2>3, FS_Subset
  <2>6. Cardinality(hidden) \in Nat
    BY <2>5, FS_CardinalityType
  <2> QED
    BY <1>5, <2>2, <2>4, <2>5, <2>6
<1>8. Cardinality(gone) \in Nat
  BY <1>6, FS_CardinalityType
<1> HIDE DEF D, R, P
<1> QED
  BY <1>5, <1>6, <1>7, <1>8

\* The clients that the loop of request n still owes the row and no longer comes to.
Behind(n) == pushes[n].owed \ From(connected_clients, pushes[n].next)

\* A client that is owed the row is connected; those passed over are paid for by removals.
SkipInv ==
    \A n \in DOMAIN pushes : Sending(n) =>
        /\ \A c \in pushes[n].owed : socket[c] = "open"
        /\ Cardinality(Behind(n)) <= pushes[n].removals

LEMMA BehindFinite ==
    ASSUME PushOK, NEW n \in DOMAIN pushes
    PROVE  pushes[n] \in Push /\ IsFiniteSet(Behind(n)) /\ Cardinality(Behind(n)) \in Nat
<1>1. pushes[n] \in Push
  BY DEF PushOK
<1>2. Behind(n) \in SUBSET Clients
  BY <1>1 DEF Behind, Push
<1> QED
  BY <1>1, <1>2, LiveAssumption, FS_Subset, FS_CardinalityType

\* A step that takes no client from what the loop comes to.
LEMMA BehindShrinks ==
    ASSUME PushOK, SkipInv, NEW n \in DOMAIN pushes, Sending(n),
           Behind(n)' \subseteq Behind(n), pushes'[n].removals = pushes[n].removals
    PROVE  Cardinality(Behind(n)') <= pushes'[n].removals
<1>1. /\ IsFiniteSet(Behind(n)) /\ Cardinality(Behind(n)) \in Nat
      /\ pushes[n].removals \in Nat /\ Cardinality(Behind(n)) <= pushes[n].removals
  BY BehindFinite DEF SkipInv, Push
<1>2. \A T \in SUBSET Behind(n) : Cardinality(T) \in Nat /\ Cardinality(T) <= Cardinality(Behind(n))
  BY <1>1, FS_Subset, FS_CardinalityType
<1>3. Behind(n)' \in SUBSET Behind(n)
  OBVIOUS
<1> DEFINE now == Behind(n)'
<1>4. Cardinality(now) \in Nat /\ Cardinality(now) <= Cardinality(Behind(n))
  BY <1>2, <1>3
<1> HIDE DEF now
<1>5. Cardinality(now) <= pushes[n].removals
  BY <1>1, <1>4
<1> QED
  BY <1>5 DEF now

\* A step that removes the clients in C from the list, seen by a loop on its way.
LEMMA BehindRemoval ==
    ASSUME PushOK, ListOK, SkipInv, NEW C \in SUBSET Clients, connected_clients' = Without(C),
           NEW n \in DOMAIN pushes, Sending(n), pushes'[n] = Shifted(C)[n]
    PROVE  pushes'[n].owed = pushes[n].owed /\ Cardinality(Behind(n)') <= pushes'[n].removals
<1> DEFINE hidden == From(connected_clients, pushes[n].next) \ From(Without(C), pushes[n].next)
           gone == C \cap ToSet(connected_clients)
           now == Behind(n)'
<1>1. /\ pushes'[n].owed = pushes[n].owed /\ pushes'[n].next = pushes[n].next
      /\ pushes'[n].removals = pushes[n].removals + Cardinality(gone)
  BY ShiftedPushes DEF Sending
<1>2. /\ IsFiniteSet(Behind(n)) /\ Cardinality(Behind(n)) \in Nat
      /\ pushes[n].removals \in Nat /\ Cardinality(Behind(n)) <= pushes[n].removals
      /\ pushes[n].next \in Nat \ {0}
  BY BehindFinite DEF SkipInv, Push
<1>3. IsFiniteSet(hidden) /\ Cardinality(hidden) <= Cardinality(gone) /\ Cardinality(hidden) \in Nat
  <2>1. IsFiniteSet(hidden) /\ Cardinality(hidden) <= Cardinality(gone)
    BY <1>2, HiddenByRemoval
  <2> QED
    BY <2>1, FS_CardinalityType
<1>4. Cardinality(gone) \in Nat
  <2>1. gone \in SUBSET Clients
    OBVIOUS
  <2> QED
    BY <2>1, LiveAssumption, FS_Subset, FS_CardinalityType
<1>5. now \in SUBSET (Behind(n) \cup hidden)
  BY <1>1 DEF Behind
<1> HIDE DEF hidden, gone, now
<1>6. /\ IsFiniteSet(Behind(n) \cup hidden)
      /\ Cardinality(Behind(n) \cup hidden) =
            Cardinality(Behind(n)) + Cardinality(hidden) - Cardinality(Behind(n) \cap hidden)
  BY <1>2, <1>3, FS_Union
<1>7. Cardinality(Behind(n) \cap hidden) \in Nat
  BY <1>2, FS_Subset, FS_CardinalityType
<1>8. Cardinality(now) <= Cardinality(Behind(n) \cup hidden) /\ Cardinality(now) \in Nat
  BY <1>5, <1>6, FS_Subset, FS_CardinalityType
<1>9. Cardinality(now) <= pushes'[n].removals
  BY <1>1, <1>2, <1>3, <1>4, <1>6, <1>7, <1>8
<1> QED
  BY <1>1, <1>9 DEF now

LEMMA SkipStep == LiveInv /\ LiveInv' /\ SkipInv /\ [LiveNext]_live => SkipInv'
<1> SUFFICES ASSUME LiveInv, LiveInv', SkipInv, [LiveNext]_live,
                    NEW n \in DOMAIN pushes', Sending(n)'
             PROVE  /\ \A c \in pushes'[n].owed : socket'[c] = "open"
                    /\ Cardinality(Behind(n)') <= pushes'[n].removals
  BY DEF SkipInv
<1> DEFINE Safe == /\ \A c \in pushes'[n].owed : socket'[c] = "open"
                   /\ Cardinality(Behind(n)') <= pushes'[n].removals
<1>1. /\ PushOK /\ PushOK' /\ ListOK /\ ListOK' /\ pushes \in Seq(Push)
      /\ connected_clients \in Seq(Clients) /\ connected_clients' \in Seq(Clients)
  BY DEF LiveInv, PushOK, ListOK
<1>2. ASSUME n \in DOMAIN pushes, pushes'[n] = pushes[n], UNCHANGED <<connected_clients, socket>>
      PROVE  Safe
  <2>1. Sending(n)
    BY <1>2 DEF Sending
  <2>2. Behind(n)' = Behind(n)
    BY <1>2 DEF Behind
  <2> QED
    BY <1>2, <2>1, <2>2 DEF SkipInv
<1>3. ASSUME NEW r \in Runs, UpdateStep(r) PROVE Safe
  <2>1. UNCHANGED <<connected_clients, socket>>
    BY <1>3 DEF UpdateStep
  <2>2. \/ pushes' = pushes
        \/ \E row : pushes' = Append(pushes, NewPush("posted", row))
    BY <1>3 DEF UpdateStep
  <2>3. n \in DOMAIN pushes /\ pushes'[n] = pushes[n]
    <3>1. ASSUME NEW row, pushes' = Append(pushes, NewPush("posted", row))
          PROVE  n \in DOMAIN pushes /\ pushes'[n] = pushes[n]
      <4> DEFINE p == NewPush("posted", row)
      <4>1. p.pc # "sending"
        BY DEF NewPush
      <4> HIDE DEF p
      <4>2. pushes' = Append(pushes, p)
        BY <3>1 DEF p
      <4>3. n \in 1..Len(pushes) + 1 /\ (n = Len(pushes) + 1 => pushes'[n] = p)
        BY <1>1, <4>2
      <4>4. n # Len(pushes) + 1
        BY <4>1, <4>3 DEF Sending
      <4> QED
        BY <1>1, <4>2, <4>3, <4>4
    <3> QED
      BY <2>2, <3>1
  <2> QED
    BY <1>2, <2>1, <2>3
<1>4. ASSUME NEW m, NotServed(m) PROVE Safe
  <2>1. /\ m \in DOMAIN pushes /\ pushes' = [pushes EXCEPT ![m] = NewPush("over", None)]
        /\ UNCHANGED <<connected_clients, socket>>
    BY <1>4 DEF NotServed
  <2>2. n # m
    BY <2>1 DEF Sending, NewPush
  <2> QED
    BY <1>2, <2>1, <2>2
<1>5. ASSUME NEW m, Serve(m) PROVE Safe
  <2> DEFINE owed == {c \in ToSet(connected_clients) : socket[c] = "open"}
  <2>1. /\ m \in DOMAIN pushes /\ UNCHANGED <<connected_clients, socket>>
        /\ pushes' = [pushes EXCEPT ![m].pc = "sending", ![m].owed = owed]
        /\ pushes[m].pc = "posted"
    BY <1>5 DEF Serve
  <2>2. CASE n # m
    BY <1>2, <2>1, <2>2
  <2>3. CASE n = m
    <3>1. pushes[m] \in Push /\ pushes[m].next = 1 /\ pushes[m].removals = 0
      BY <1>1, <2>1, BehindFinite DEF PushOK
    <3> HIDE DEF owed
    <3>2. pushes'[n].owed = owed /\ pushes'[n].next = 1 /\ pushes'[n].removals = 0
      BY <2>1, <2>3, <3>1 DEF Push
    <3>3. From(connected_clients, 1) = ToSet(connected_clients)
      <4>1. From(connected_clients, 1) = {connected_clients[i] : i \in 1..Len(connected_clients)}
        BY <1>1, FromIs
      <4>2. DOMAIN connected_clients = 1..Len(connected_clients)
        BY <1>1
      <4> QED
        BY <4>1, <4>2 DEF ToSet
    <3>4. Behind(n)' = {}
      BY <2>1, <3>2, <3>3 DEF Behind, owed
    <3>5. Cardinality(Behind(n)') = 0
      BY <3>4, FS_EmptySet
    <3>6. \A c \in pushes'[n].owed : socket'[c] = "open"
      BY <2>1, <3>2 DEF owed
    <3>7. Cardinality(Behind(n)') <= pushes'[n].removals
      BY <3>2, <3>5
    <3> QED
      BY <3>6, <3>7
  <2> QED
    BY <2>2, <2>3
<1>6. ASSUME NEW m, Send(m) PROVE Safe
  <2> DEFINE c == connected_clients[pushes[m].next]
  <2>1. /\ m \in DOMAIN pushes /\ Sending(m) /\ pushes[m].next <= Len(connected_clients)
        /\ UNCHANGED <<connected_clients, socket>>
    BY <1>6 DEF Send, Sending
  <2>2. CASE n # m
    <3>1. n \in DOMAIN pushes /\ pushes'[n] = pushes[n]
      BY <1>6, <2>2 DEF Send
    <3> QED
      BY <1>2, <2>1, <3>1
  <2>3. CASE n = m
    <3>1. pushes[n] \in Push /\ pushes[n].next \in Nat \ {0} /\ pushes[n].next <= Len(connected_clients)
      BY <1>1, <2>1, <2>3, BehindFinite DEF Push
    <3>2. PICK p : /\ pushes' = [pushes EXCEPT ![n] = p]
                   /\ \/ p = [pushes[n] EXCEPT !.next = @ + 1, !.owed = @ \ {c}]
                      \/ /\ socket[c] # "open"
                         /\ \/ p = [pushes[n] EXCEPT !.next = @ + 1, !.dead = @ \o <<>>]
                            \/ p = [pushes[n] EXCEPT !.next = @ + 1, !.dead = @ \o <<c>>]
      <4>1. \/ pushes' = [pushes EXCEPT ![n] = [pushes[n] EXCEPT !.next = @ + 1, !.owed = @ \ {c}]]
            \/ /\ socket[c] # "open"
               /\ \/ pushes' = [pushes EXCEPT ![n] = [pushes[n] EXCEPT !.next = @ + 1, !.dead = @ \o <<>>]]
                  \/ pushes' = [pushes EXCEPT ![n] = [pushes[n] EXCEPT !.next = @ + 1, !.dead = @ \o <<c>>]]
        BY <1>6, <2>3 DEF Send
      <4> HIDE DEF c
      <4> QED
        BY <4>1
    <3>3. \A d \in pushes[n].owed : socket[d] = "open"
      BY <2>1, <2>3 DEF SkipInv
    <3>4. c = connected_clients[pushes[n].next]
      BY <2>3
    <3> HIDE DEF c
    <3>5. /\ pushes'[n].next = pushes[n].next + 1 /\ pushes'[n].removals = pushes[n].removals
          /\ pushes'[n].owed = pushes[n].owed \ {c}
      <4>1. pushes'[n] = p
        BY <2>1, <2>3, <3>2
      <4>2. CASE p = [pushes[n] EXCEPT !.next = @ + 1, !.owed = @ \ {c}]
        BY <3>1, <4>1, <4>2 DEF Push
      <4>3. CASE socket[c] # "open" /\ p.owed = pushes[n].owed
                 /\ p.next = pushes[n].next + 1 /\ p.removals = pushes[n].removals
        BY <3>3, <4>1, <4>3
      <4>4. ASSUME NEW dead, socket[c] # "open",
                   p = [pushes[n] EXCEPT !.next = @ + 1, !.dead = @ \o dead]
            PROVE  p.owed = pushes[n].owed
                   /\ p.next = pushes[n].next + 1 /\ p.removals = pushes[n].removals
        BY <3>1, <4>4 DEF Push
      <4> QED
        BY <3>2, <4>2, <4>3, <4>4
    <3>6. Behind(n)' \subseteq Behind(n)
      <4>1. From(connected_clients, pushes[n].next) =
               {connected_clients[i] : i \in pushes[n].next..Len(connected_clients)}
        BY <1>1, <3>1, FromIs
      <4>2. From(connected_clients, pushes[n].next + 1) =
               {connected_clients[i] : i \in pushes[n].next + 1..Len(connected_clients)}
        BY <1>1, <3>1, FromIs
      <4>3. From(connected_clients, pushes[n].next) \subseteq
               From(connected_clients, pushes[n].next + 1) \cup {c}
        <5>1. \A i \in pushes[n].next..Len(connected_clients) :
                 i = pushes[n].next \/ i \in pushes[n].next + 1..Len(connected_clients)
          BY <1>1, <3>1
        <5> QED
          BY <3>4, <4>1, <4>2, <5>1
      <4> QED
        BY <2>1, <3>5, <4>3 DEF Behind
    <3>7. Cardinality(Behind(n)') <= pushes'[n].removals
      BY <1>1, <2>1, <2>3, <3>5, <3>6, BehindShrinks
    <3> QED
      BY <2>1, <3>3, <3>5, <3>7
  <2> QED
    BY <2>2, <2>3
<1>7. ASSUME NEW C \in SUBSET Clients, connected_clients' = Without(C), n \in DOMAIN pushes,
             pushes'[n] = Shifted(C)[n], \A c \in Clients : socket[c] = "open" => socket'[c] = "open"
      PROVE  Safe
  <2>1. Sending(n)
    <3>1. Shifted(C)[n].pc = pushes[n].pc
      BY <1>1, <1>7, ShiftedPushes
    <3> QED
      BY <1>7, <3>1 DEF Sending
  <2>2. pushes'[n].owed = pushes[n].owed /\ Cardinality(Behind(n)') <= pushes'[n].removals
    BY <1>1, <1>7, <2>1, BehindRemoval
  <2>3. \A c \in pushes[n].owed : c \in Clients /\ socket[c] = "open"
    <3>1. pushes[n].owed \in SUBSET Clients
      BY <1>1, <1>7, BehindFinite DEF Push
    <3> QED
      BY <1>7, <2>1, <3>1 DEF SkipInv
  <2> QED
    BY <1>7, <2>2, <2>3
<1>8. ASSUME NEW m, Finish(m) PROVE Safe
  <2> DEFINE dead    == pushes[m].dead
             removed == {dead[i] : i \in {k \in DOMAIN dead :
                           \A j \in 1..k : Contains(connected_clients, dead[j])}}
  <2>1. /\ m \in DOMAIN pushes /\ socket' = socket
        /\ pushes' = [Shifted(removed) EXCEPT ![m] = NewPush("over", None)]
        /\ connected_clients' = Without(removed)
    BY <1>8 DEF Finish, Sending
  <2>2. dead \in Seq(Clients)
    BY <1>1, <2>1, BehindFinite DEF Push
  <2>3. removed \in SUBSET Clients
    BY <2>2
  <2> HIDE DEF removed
  <2>4. DOMAIN Shifted(removed) = DOMAIN pushes
    BY DEF Shifted
  <2>5. n # m /\ n \in DOMAIN pushes
    BY <2>1, <2>4 DEF Sending, NewPush
  <2>6. pushes'[n] = Shifted(removed)[n]
    BY <2>1, <2>4, <2>5
  <2> QED
    BY <1>7, <2>1, <2>3, <2>5, <2>6
<1>9. ASSUME NEW e \in Clients, Disconnect(e) PROVE Safe
  <2>1. /\ socket[e] = "lost" /\ socket' = [socket EXCEPT ![e] = "closed"]
        /\ connected_clients' = Without({e}) /\ pushes' = Shifted({e})
    BY <1>9 DEF Disconnect
  <2>2. n \in DOMAIN pushes
    BY <2>1 DEF Shifted
  <2>3. \A c \in Clients : socket[c] = "open" => socket'[c] = "open"
    BY <1>1, <2>1 DEF ListOK
  <2> QED
    BY <1>7, <2>1, <2>2, <2>3
<1>10. ASSUME NEW e \in Clients, Leave(e) \/ ReceiveRaises(e) PROVE Safe
  <2>1. /\ \E to \in {"lost", "raised"} : socket' = [socket EXCEPT ![e] = to]
        /\ connected_clients' = connected_clients
        /\ pushes' = [k \in DOMAIN pushes |-> [pushes[k] EXCEPT !.owed = @ \ {e}]]
    BY <1>10 DEF Leave, ReceiveRaises
  <2>2. n \in DOMAIN pushes /\ pushes[n] \in Push
    BY <1>1, <2>1, BehindFinite
  <2>3. /\ pushes'[n].pc = pushes[n].pc /\ pushes'[n].next = pushes[n].next
        /\ pushes'[n].removals = pushes[n].removals /\ pushes'[n].owed = pushes[n].owed \ {e}
    BY <2>1, <2>2 DEF Push
  <2>4. Sending(n)
    BY <2>2, <2>3 DEF Sending
  <2>5. Behind(n)' \subseteq Behind(n)
    BY <2>1, <2>3 DEF Behind
  <2>6. \A c \in pushes[n].owed : c \in Clients /\ socket[c] = "open"
    BY <2>2, <2>4 DEF SkipInv, Push
  <2>7. \A c \in pushes'[n].owed : socket'[c] = "open"
    BY <1>1, <2>1, <2>3, <2>6 DEF ListOK
  <2> QED
    BY <1>1, <2>2, <2>3, <2>4, <2>5, <2>7, BehindShrinks
<1>11. ASSUME NEW e \in Clients, Accept(e) PROVE Safe
  <2>1. /\ socket' = [socket EXCEPT ![e] = "open"] /\ pushes' = pushes
        /\ connected_clients' = Append(connected_clients, e)
    BY <1>11 DEF Accept
  <2>2. pushes[n] \in Push /\ Sending(n) /\ n \in DOMAIN pushes
    BY <1>1, <2>1, BehindFinite DEF Sending
  <2> DEFINE next == pushes[n].next
  <2>3. next \in Nat \ {0}
    BY <2>2 DEF Push
  <2> HIDE DEF next
  <2>4. From(connected_clients, next) \subseteq From(connected_clients', next)
    <3>1. From(connected_clients, next) =
             {connected_clients[i] : i \in next..Len(connected_clients)}
      BY <1>1, <2>3, FromIs
    <3>2. From(connected_clients', next) =
             {connected_clients'[i] : i \in next..Len(connected_clients')}
      BY <1>1, <2>3, FromIs
    <3>3. \A i \in next..Len(connected_clients) :
             i \in next..Len(connected_clients') /\ connected_clients'[i] = connected_clients[i]
      BY <1>1, <2>1, <2>3
    <3> QED
      BY <3>1, <3>2, <3>3
  <2>5. Behind(n)' \subseteq Behind(n)
    BY <2>1, <2>4 DEF Behind, next
  <2>6. \A c \in pushes[n].owed : c \in Clients /\ socket[c] = "open"
    BY <2>2 DEF SkipInv, Push
  <2>7. \A c \in pushes'[n].owed : socket'[c] = "open"
    BY <1>1, <2>1, <2>6 DEF ListOK
  <2> QED
    BY <1>1, <2>1, <2>2, <2>5, <2>7, BehindShrinks
<1>12. ASSUME NEW r, UpdateEnds(r) \/ \E s \in Scores : BeginUpdate(r, s)
       PROVE  UNCHANGED <<pushes, connected_clients, socket>>
  BY <1>12 DEF UpdateEnds, BeginUpdate, api, browsers
<1>13. ConsumerDies \/ UNCHANGED live => UNCHANGED <<pushes, connected_clients, socket>>
  BY DEF ConsumerDies, api, browsers, live
<1>14. ASSUME NEW c, Read(c) \/ OnMessage(c) PROVE UNCHANGED <<pushes, connected_clients, socket>>
  BY <1>14 DEF Read, LoadRanks, LoadDetail, ShowAnswer, OnMessage, api
<1>15. UNCHANGED <<pushes, connected_clients, socket>> => Safe
  BY <1>2
<1> HIDE DEF Safe
<1>16. Safe
  BY <1>3, <1>4, <1>5, <1>6, <1>8, <1>9, <1>10, <1>11, <1>12, <1>13, <1>14, <1>15
  DEF LiveNext, Broadcast
<1> QED
  BY <1>16 DEF Safe

\* A loop over the list of the clients passes over at most as many of those that were
\* connected when it began, and still are, as were removed from the list under it.
THEOREM SkipsArePaidFor == LiveSpec => []SkipsNeedRemovals
<1>1. LiveInit => SkipInv
  BY DEF LiveInit, SkipInv
<1>2. SkipInv => SkipsNeedRemovals
  BY DEF SkipInv, SkipsNeedRemovals, Behind, From
<1> QED
  BY <1>1, <1>2, LiveInvariant, SkipStep, PTL DEF LiveSpec

(***************************************************************************)
(* The consumer's event loop stands still until its request is answered.   *)
(***************************************************************************)
\* The guards of Broadcast(n): the request waits to be served, or its loop is over or
\* has come to a client that can be sent to or fails at once.
CanGoOn(n) ==
    \/ pushes[n].pc = "posted"
    \/ Sending(n) /\ pushes[n].next > Len(connected_clients)
    \/ Sending(n) /\ socket[connected_clients[pushes[n].next]] \in {"open", "lost", "raised"}

BlockInv == posting # 0 => pushes[posting].pc # "over"

LEMMA BlockStep == LiveInv /\ BlockInv /\ [LiveNext]_live => BlockInv'
<1> SUFFICES ASSUME LiveInv, BlockInv, [LiveNext]_live, posting' # 0
             PROVE  pushes'[posting'].pc # "over"
  BY DEF BlockInv
<1>1. /\ PushOK /\ ListOK /\ pushes \in Seq(Push) /\ posting \in 0..Len(pushes)
      /\ posting # 0 => posting \in DOMAIN pushes
  BY DEF LiveInv, PushOK
<1>2. ASSUME posting' = posting, posting \in DOMAIN pushes => pushes'[posting].pc = pushes[posting].pc
      PROVE  pushes'[posting'].pc # "over"
  BY <1>1, <1>2 DEF BlockInv
<1>3. ASSUME NEW r \in Runs, UpdateStep(r) PROVE pushes'[posting'].pc # "over"
  <2>1. CASE UNCHANGED <<posting, pushes>>
    BY <1>2, <2>1
  <2>2. ASSUME NEW row, posting' = Len(pushes) + 1,
               pushes' = Append(pushes, NewPush("posted", row))
        PROVE  pushes'[posting'].pc # "over"
    <3>1. pushes'[posting'] = NewPush("posted", row)
      BY <1>1, <2>2
    <3> QED
      BY <3>1 DEF NewPush
  <2> QED
    BY <1>3, <2>1, <2>2 DEF UpdateStep
<1>4. ASSUME NEW n, NotServed(n) PROVE pushes'[posting'].pc # "over"
  BY <1>1, <1>2, <1>4 DEF NotServed, Answered
<1>5. ASSUME NEW n, Serve(n) PROVE pushes'[posting'].pc # "over"
  <2> DEFINE owed == {c \in ToSet(connected_clients) : socket[c] = "open"}
  <2>1. /\ n \in DOMAIN pushes /\ posting' = posting
        /\ pushes' = [pushes EXCEPT ![n].pc = "sending", ![n].owed = owed]
    BY <1>5 DEF Serve
  <2>2. pushes[n] \in Push
    BY <1>1, <2>1, BehindFinite
  <2> HIDE DEF owed
  <2>3. pushes'[n].pc = "sending" /\ \A m \in DOMAIN pushes : m # n => pushes'[m] = pushes[m]
    BY <2>1, <2>2 DEF Push
  <2> QED
    BY <1>1, <2>1, <2>3 DEF BlockInv
<1>6. ASSUME NEW n, Send(n) PROVE pushes'[posting'].pc # "over"
  <2> DEFINE e == connected_clients[pushes[n].next]
  <2>1. n \in DOMAIN pushes /\ posting' = posting
    BY <1>6 DEF Send, Sending
  <2>2. pushes[n] \in Push
    BY <1>1, <2>1, BehindFinite
  <2>3. \/ pushes' = [pushes EXCEPT ![n] = [pushes[n] EXCEPT !.next = @ + 1, !.owed = @ \ {e}]]
        \/ pushes' = [pushes EXCEPT ![n] = [pushes[n] EXCEPT !.next = @ + 1, !.dead = @ \o <<>>]]
        \/ pushes' = [pushes EXCEPT ![n] = [pushes[n] EXCEPT !.next = @ + 1, !.dead = @ \o <<e>>]]
    BY <1>6 DEF Send
  <2> HIDE DEF e
  <2>4. \A m \in DOMAIN pushes : pushes'[m].pc = pushes[m].pc
    BY <2>1, <2>2, <2>3 DEF Push
  <2> QED
    BY <1>2, <2>1, <2>4
<1>7. ASSUME NEW n, Finish(n) PROVE pushes'[posting'].pc # "over"
  <2> DEFINE dead    == pushes[n].dead
             removed == {dead[i] : i \in {k \in DOMAIN dead :
                           \A j \in 1..k : Contains(connected_clients, dead[j])}}
  <2>1. /\ n \in DOMAIN pushes /\ Answered(n)
        /\ pushes' = [Shifted(removed) EXCEPT ![n] = NewPush("over", None)]
    BY <1>7 DEF Finish, Sending
  <2>2. dead \in Seq(Clients)
    BY <1>1, <2>1, BehindFinite DEF Push
  <2>3. removed \in SUBSET Clients
    BY <2>2
  <2> HIDE DEF removed
  <2>4. /\ DOMAIN Shifted(removed) = DOMAIN pushes
        /\ \A m \in DOMAIN pushes : Shifted(removed)[m].pc = pushes[m].pc
    BY <1>1, <2>3, ShiftedPushes
  <2>5. posting' = posting /\ posting # n
    BY <2>1 DEF Answered
  <2> QED
    BY <1>2, <2>1, <2>4, <2>5
<1>8. ASSUME NEW e \in Clients, Disconnect(e) PROVE pushes'[posting'].pc # "over"
  <2>1. pushes' = Shifted({e}) /\ posting' = posting
    BY <1>8 DEF Disconnect
  <2>2. \A m \in DOMAIN pushes : Shifted({e})[m].pc = pushes[m].pc
    BY <1>1, ShiftedPushes
  <2> QED
    BY <1>2, <2>1, <2>2
<1>9. ASSUME NEW e \in Clients, Leave(e) \/ ReceiveRaises(e)
      PROVE  pushes'[posting'].pc # "over"
  <2>1. /\ pushes' = [m \in DOMAIN pushes |-> [pushes[m] EXCEPT !.owed = @ \ {e}]]
        /\ posting' = posting
    BY <1>9 DEF Leave, ReceiveRaises
  <2>2. ASSUME NEW m \in DOMAIN pushes PROVE pushes'[m].pc = pushes[m].pc
    <3>1. pushes[m] \in Push
      BY <1>1, BehindFinite
    <3> QED
      BY <2>1, <3>1 DEF Push
  <2> QED
    BY <1>2, <2>1, <2>2
<1>10. ASSUME NEW r, UpdateEnds(r) \/ \E s \in Scores : BeginUpdate(r, s)
       PROVE  UNCHANGED <<posting, pushes>>
  BY <1>10 DEF UpdateEnds, BeginUpdate, api
<1>11. ConsumerDies => posting' = 0
  BY DEF ConsumerDies
<1>12. ASSUME NEW c, Accept(c) \/ Read(c) \/ OnMessage(c) PROVE UNCHANGED <<posting, pushes>>
  BY <1>12 DEF Accept, Read, LoadRanks, LoadDetail, ShowAnswer, OnMessage, api
<1>13. UNCHANGED live => UNCHANGED <<posting, pushes>>
  BY DEF live, api
<1>14. UNCHANGED <<posting, pushes>> => pushes'[posting'].pc # "over"
  BY <1>2
<1> QED
  BY <1>3, <1>4, <1>5, <1>6, <1>7, <1>8, <1>9, <1>10, <1>11, <1>12, <1>13, <1>14
  DEF LiveNext, Broadcast

\* The request that the consumer is blocked for is never over, and its loop never stands
\* before a client that has been taken off: the guard of one of the API's steps holds.
THEOREM BlockedCanGoOn == LiveSpec => [](posting # 0 => CanGoOn(posting))
<1>1. LiveInit => BlockInv
  BY DEF LiveInit, BlockInv
<1>2. LiveInv /\ BlockInv => (posting # 0 => CanGoOn(posting))
  <2> SUFFICES ASSUME LiveInv, BlockInv, posting # 0 PROVE CanGoOn(posting)
    OBVIOUS
  <2>1. /\ PushOK /\ ListOK /\ posting \in DOMAIN pushes
        /\ connected_clients \in Seq(Clients)
    BY DEF LiveInv, PushOK, ListOK
  <2>2. pushes[posting] \in Push
    BY <2>1, BehindFinite
  <2>3. pushes[posting].pc = "posted" \/ Sending(posting)
    BY <2>1, <2>2 DEF Push, Sending, BlockInv
  <2> DEFINE i == pushes[posting].next
  <2>4. CASE Sending(posting) /\ i <= Len(connected_clients)
    <3>1. i \in 1..Len(connected_clients)
      BY <2>1, <2>2, <2>4 DEF Push
    <3>2. connected_clients[i] \in Clients /\ Contains(connected_clients, connected_clients[i])
      BY <2>1, <3>1 DEF Contains
    <3>3. socket[connected_clients[i]] \in {"open", "lost", "raised"}
      BY <2>1, <3>2 DEF ListOK
    <3> QED
      BY <2>4, <3>3 DEF CanGoOn
  <2>5. i \in Int /\ Len(connected_clients) \in Int
    BY <2>1, <2>2 DEF Push
  <2> QED
    BY <2>3, <2>4, <2>5 DEF CanGoOn
<1> QED
  BY <1>1, <1>2, LiveInvariant, BlockStep, PTL DEF LiveSpec
=============================================================================

--------------------------- MODULE LoadTestProofs ---------------------------
(***************************************************************************)
(* How long a bot can keep a container busy, for every duration, timeout,  *)
(* semaphore of two or more slots, and whatever the order book does; then  *)
(* the order book itself: what its sorting and its loop compute for every  *)
(* list of orders, and what follows for the certification and the answers. *)
(***************************************************************************)
EXTENDS LoadTest, FiniteSetTheorems, WellFoundedInduction, TLAPS

InFlight == [id : Nat, req : Request, left : 0..Timeout]

ClockOK ==
    /\ pc \in {"certify", "select", "acquire", "returned"}
    /\ lastId \in Nat /\ now \in Nat /\ tick \in 0..now
    /\ inflight \subseteq InFlight
    /\ pc = "certify" => now = 0 /\ tick = 0 /\ inflight = {}

SlotsOK == IsFiniteSet(inflight) /\ Cardinality(inflight) <= Slots

\* The time at which o is answered or given up, and whether a slot is free in time.
End(o) == now + o.left
SlotInTime == SlotFree \/ \E o \in inflight : End(o) <= Duration + Timeout

\* A tick that was in time waits in the channel: it was put there while the bot
\* waited for a slot, when all orders had been fired already.
TickInTime == tick # 0 /\ tick <= Duration

BacklogOK ==
    /\ pc = "acquire" => now <= Duration + Timeout /\ SlotInTime
    /\ pc = "acquire" /\ TickInTime => \A o \in inflight : End(o) <= Duration + Timeout
    /\ pc = "select" /\ TickInTime => now <= Duration + Timeout /\ SlotInTime

BotInv == ClockOK /\ SlotsOK /\ BacklogOK /\ LastOrderSoon

\* What the constants are.
LEMMA LoadNat == Timeout \in Nat /\ Timeout >= 1 /\ Duration \in Nat /\ Slots \in Nat /\ Slots >= 2
BY LoadAssumption

\* The end of an order is a time.
LEMMA EndNat == ASSUME ClockOK, NEW o \in inflight
                PROVE  o.left \in 0..Timeout /\ End(o) \in Nat
BY LoadNat DEF ClockOK, InFlight, End

\* Orders that end or are cut off give their slots back.
LEMMA FewerOrders ==
    ASSUME SlotsOK, NEW S \in SUBSET inflight
    PROVE  IsFiniteSet(S) /\ Cardinality(S) <= Cardinality(inflight)
BY FS_Subset DEF SlotsOK

\* Only the clock, the orders on their way and where the bot stands matter.
bot == <<pc, clock, inflight>>

\* A certification, and an order that comes late, leave the bot alone.
LEMMA OthersStep ==
    ASSUME BotInv, UNCHANGED bot, lastId' \in Nat
    PROVE  BotInv'
<1> USE DEF bot, clock
<1>1. ClockOK' /\ SlotsOK'
  BY DEF BotInv, ClockOK, SlotsOK
<1>2. BacklogOK'
  BY DEF BotInv, BacklogOK, SlotInTime, SlotFree, TickInTime, End
<1>3. LastOrderSoon'
  BY DEF BotInv, LastOrderSoon
<1> QED
  BY <1>1, <1>2, <1>3 DEF BotInv

LEMMA StartStep == ASSUME BotInv, Start PROVE BotInv'
<1> USE DEF Start, clock
<1>1. now = 0 /\ tick = 0 /\ inflight = {}
  BY DEF BotInv, ClockOK
<1>2. ClockOK' /\ SlotsOK'
  BY <1>1 DEF BotInv, ClockOK, SlotsOK
<1>3. BacklogOK' /\ LastOrderSoon'
  BY <1>1 DEF BacklogOK, LastOrderSoon, TickInTime
<1> QED
  BY <1>2, <1>3 DEF BotInv

\* A tick that was in time was taken at the latest one timeout after the deadline.
LEMMA TakeTickStep == ASSUME BotInv, TakeTick PROVE BotInv'
<1> USE DEF TakeTick
<1>1. ClockOK' /\ SlotsOK'
  BY DEF BotInv, ClockOK, SlotsOK
<1>2. LastOrderSoon'
  BY DEF BotInv, LastOrderSoon
<1>3. BacklogOK'
  <2>1. CASE tick > Duration
    BY <2>1 DEF BacklogOK
  <2>2. CASE ~(tick > Duration)
    <3>1. TickInTime
      BY <2>2, LoadNat DEF BotInv, ClockOK, TickInTime
    <3>2. now' <= Duration + Timeout /\ SlotInTime'
      BY <3>1 DEF BotInv, BacklogOK, SlotInTime, SlotFree, End
    <3>3. ~TickInTime'
      BY DEF TickInTime
    <3> QED
      BY <3>2, <3>3 DEF BacklogOK
  <2> QED
    BY <2>1, <2>2
<1> QED
  BY <1>1, <1>2, <1>3 DEF BotInv

\* The order that is fired ends in time, and an older one ends earlier: that is
\* where the semaphore must have two slots.
LEMMA FireStep == ASSUME BotInv, NEW req \in Request, Fire(req) PROVE BotInv'
<1> DEFINE new == [id |-> lastId', req |-> req, left |-> Timeout]
<1> USE LoadNat
<1>0. /\ pc = "acquire" /\ SlotFree /\ pc' = "select" /\ lastId' = lastId + 1
      /\ inflight' = inflight \cup {new} /\ now' = now /\ tick' = tick
  BY DEF Fire, clock
<1>1. ClockOK'
  BY <1>0 DEF BotInv, ClockOK, InFlight
<1>2. SlotsOK'
  <2>1. Cardinality(inflight) \in Nat /\ Cardinality(inflight) < Slots
    BY <1>0, FS_CardinalityType DEF BotInv, SlotsOK, SlotFree
  <2>2. IsFiniteSet(inflight') /\ Cardinality(inflight') <= Cardinality(inflight) + 1
    <3>1. IsFiniteSet(inflight)
      BY DEF BotInv, SlotsOK
    <3>2. /\ IsFiniteSet(inflight \cup {new})
          /\ Cardinality(inflight \cup {new}) =
                IF new \in inflight THEN Cardinality(inflight) ELSE Cardinality(inflight) + 1
      BY <3>1, FS_AddElement
    <3> HIDE DEF new
    <3> QED
      BY <1>0, <2>1, <3>2
  <2>3. Cardinality(inflight') \in Nat
    BY <2>2, FS_CardinalityType
  <2> QED
    BY <2>1, <2>2, <2>3 DEF SlotsOK
<1>3. now \in Nat /\ now <= Duration + Timeout
  BY <1>0 DEF BotInv, ClockOK, BacklogOK
<1>4. LastOrderSoon'
  BY <1>0, <1>3 DEF BotInv, LastOrderSoon
<1>5. ASSUME TickInTime' PROVE SlotInTime'
  <2>1. CASE inflight = {}
    <3>1. Cardinality(inflight') = 1
      BY <1>0, <2>1, FS_Singleton
    <3> QED
      BY <3>1 DEF SlotInTime, SlotFree
  <2>2. CASE inflight # {}
    <3>1. PICK o \in inflight : End(o) <= Duration + Timeout
      BY <1>0, <1>5, <2>2 DEF BotInv, BacklogOK, TickInTime
    <3> QED
      BY <1>0, <3>1 DEF SlotInTime, End
  <2> QED
    BY <2>1, <2>2
<1>6. BacklogOK'
  BY <1>0, <1>3, <1>5 DEF BacklogOK
<1> QED
  BY <1>1, <1>2, <1>4, <1>6 DEF BotInv

\* An order that is answered, or given up, frees a slot.
LEMMA EndStep == ASSUME BotInv, NEW o \in inflight, Answered(o) \/ TimedOut(o) PROVE BotInv'
<1>0. inflight' = inflight \ {o} /\ UNCHANGED <<lastId, pc, now, tick>>
  BY DEF Answered, TimedOut, clock
<1>1. ClockOK'
  BY <1>0 DEF BotInv, ClockOK
<1>2. SlotsOK' /\ SlotFree'
  <2>1. IsFiniteSet(inflight') /\ Cardinality(inflight') = Cardinality(inflight) - 1
    BY <1>0, FS_RemoveElement DEF BotInv, SlotsOK
  <2>2. Cardinality(inflight) \in Nat
    BY FS_CardinalityType DEF BotInv, SlotsOK
  <2> QED
    BY <2>1, <2>2, LoadNat DEF BotInv, SlotsOK, SlotFree
<1>3. LastOrderSoon'
  BY <1>0 DEF BotInv, LastOrderSoon
<1>4. BacklogOK'
  BY <1>0, <1>2 DEF BotInv, BacklogOK, SlotInTime, TickInTime, End
<1> QED
  BY <1>1, <1>2, <1>3, <1>4 DEF BotInv

\* The context is cancelled, or the worker's process ends.
LEMMA CutOffStep == ASSUME BotInv, Cancel \/ WorkerEnds PROVE BotInv'
<1>0. inflight' = {} /\ pc' = "returned" /\ UNCHANGED <<lastId, now, tick>>
  BY DEF Cancel, WorkerEnds, clock
<1>1. ClockOK'
  BY <1>0 DEF BotInv, ClockOK
<1>2. SlotsOK'
  BY <1>0, FS_EmptySet, LoadNat DEF SlotsOK
<1>3. BacklogOK' /\ LastOrderSoon'
  BY <1>0 DEF BacklogOK, LastOrderSoon
<1> QED
  BY <1>1, <1>2, <1>3 DEF BotInv

\* When time passes an order that was on its way ends at the same time as before.
LEMMA TimePassesStep == ASSUME BotInv, TimePasses PROVE BotInv'
<1> DEFINE aged(o) == [o EXCEPT !.left = @ - 1]
<1> USE LoadNat
<1>0. /\ pc # "certify" /\ pc' = pc /\ lastId' = lastId
      /\ ~(pc = "select" /\ tick # 0) /\ ~(pc = "acquire" /\ SlotFree)
      /\ \A o \in inflight : o.left > 0
      /\ now' = now + 1
      /\ tick' = IF tick = 0 /\ pc # "returned" THEN now' ELSE tick
      /\ inflight' = {aged(o) : o \in inflight}
  BY DEF TimePasses
<1>1. /\ now \in Nat /\ tick \in 0..now
      /\ \A o \in inflight : o \in InFlight
  BY DEF BotInv, ClockOK
<1>2. \A o \in inflight : /\ aged(o) \in InFlight
                          /\ o.left \in Nat /\ aged(o).left = o.left - 1
                          /\ now' + aged(o).left = End(o)
                          /\ End(o) \in Nat /\ End(o) <= now + Timeout
  BY <1>0, <1>1 DEF InFlight, End
<1> HIDE DEF aged
<1>3. ClockOK'
  <2>1. inflight' \subseteq InFlight
    BY <1>0, <1>2
  <2> QED
    BY <1>0, <1>1, <2>1 DEF BotInv, ClockOK
<1>4. SlotsOK'
  <2> DEFINE f == [o \in inflight |-> aged(o)]
  <2>1. f \in Surjection(inflight, inflight')
    BY <1>0 DEF Surjection
  <2>2. IsFiniteSet(inflight) /\ Cardinality(inflight) <= Slots
    BY DEF BotInv, SlotsOK
  <2>3. IsFiniteSet(inflight') /\ Cardinality(inflight') <= Cardinality(inflight)
    BY <2>1, <2>2, FS_Surjection
  <2>4. Cardinality(inflight') \in Nat /\ Cardinality(inflight) \in Nat
    BY <2>2, <2>3, FS_CardinalityType
  <2> QED
    BY <2>2, <2>3, <2>4 DEF SlotsOK
<1>5. \A o \in inflight' : \E p \in inflight : End(o)' = End(p)
  BY <1>0, <1>2 DEF End
<1>6. LastOrderSoon'
  BY <1>0, <1>2 DEF BotInv, LastOrderSoon, End
<1>7. ASSUME TickInTime', pc # "returned", ~TickInTime
      PROVE  now' <= Duration /\ \A o \in inflight' : o.left <= Timeout /\ o.left \in Nat
  <2>1. tick = 0 /\ now' <= Duration
    BY <1>0, <1>7 DEF TickInTime
  <2>2. \A o \in inflight' : o.left <= Timeout /\ o.left \in Nat
    BY <1>3 DEF ClockOK, InFlight
  <2> QED
    BY <2>1, <2>2
<1>8. CASE pc = "acquire"
  <2>1. PICK o \in inflight : End(o) <= Duration + Timeout
    BY <1>0, <1>8 DEF BotInv, BacklogOK, SlotInTime
  <2>2. now' <= Duration + Timeout
    BY <1>0, <1>1, <1>2, <2>1 DEF End
  <2>3. aged(o) \in inflight' /\ now' + aged(o).left <= Duration + Timeout
    BY <1>0, <1>2, <2>1
  <2>4. SlotInTime'
    BY <2>3 DEF SlotInTime, End
  <2>5. ASSUME TickInTime', NEW q \in inflight' PROVE now' + q.left <= Duration + Timeout
    <3>1. CASE TickInTime
      <4>1. PICK p \in inflight : q = aged(p)
        BY <1>0
      <4> QED
        BY <1>2, <1>8, <3>1, <4>1 DEF BotInv, BacklogOK
    <3>2. CASE ~TickInTime
      <4>1. now' <= Duration /\ q.left <= Timeout /\ q.left \in Nat
        BY <1>7, <1>8, <2>5, <3>2
      <4> QED
        BY <1>0, <1>1, <4>1
    <3> QED
      BY <3>1, <3>2
  <2> QED
    BY <1>0, <1>3, <1>4, <1>6, <1>8, <2>2, <2>4, <2>5 DEF BotInv, BacklogOK, End
<1>9. CASE pc = "select"
  <2>1. ASSUME TickInTime' PROVE now' <= Duration + Timeout /\ SlotInTime'
    <3>1. now' <= Duration /\ \A o \in inflight' : o.left <= Timeout /\ o.left \in Nat
      BY <1>0, <1>7, <1>9, <2>1 DEF TickInTime
    <3>2. SlotInTime'
      <4>1. CASE inflight' = {}
        <5>1. Cardinality(inflight') = 0
          BY <4>1, FS_EmptySet
        <5> QED
          BY <5>1 DEF SlotInTime, SlotFree
      <4>2. CASE inflight' # {}
        <5>1. PICK o \in inflight' : o.left <= Timeout /\ o.left \in Nat
          BY <3>1, <4>2
        <5>2. now' + o.left <= Duration + Timeout
          BY <1>0, <1>1, <3>1, <5>1
        <5> QED
          BY <5>1, <5>2 DEF SlotInTime, End
      <4> QED
        BY <4>1, <4>2
    <3> QED
      BY <1>0, <1>1, <3>1, <3>2
  <2> QED
    BY <1>0, <1>3, <1>4, <1>6, <1>9, <2>1 DEF BotInv, BacklogOK
<1>10. CASE pc = "returned"
  BY <1>0, <1>3, <1>4, <1>6, <1>10 DEF BotInv, BacklogOK
<1> QED
  BY <1>0, <1>8, <1>9, <1>10 DEF BotInv, ClockOK

LEMMA BotInitial == Init => BotInv
<1> SUFFICES ASSUME Init PROVE BotInv
  OBVIOUS
<1> USE LoadNat DEF Init
<1>1. ClockOK
  BY DEF ClockOK
<1>2. SlotsOK
  BY FS_EmptySet DEF SlotsOK
<1>3. BacklogOK /\ LastOrderSoon
  BY DEF BacklogOK, TickInTime, LastOrderSoon
<1> QED
  BY <1>1, <1>2, <1>3 DEF BotInv

LEMMA BotStep == BotInv /\ [Next]_vars => BotInv'
<1> SUFFICES ASSUME BotInv, [Next]_vars PROVE BotInv'
  OBVIOUS
<1>0. lastId \in Nat
  BY DEF BotInv, ClockOK
<1>1. ASSUME Certification PROVE BotInv'
  <2>1. UNCHANGED bot /\ lastId' \in Nat
    BY <1>0, <1>1 DEF Certification, SendBuy, SweepAnswered, SweepUnanswered, bot
  <2> QED
    BY <2>1, OthersStep
<1>2. ASSUME NEW order \in late, LateHandled(order) PROVE BotInv'
  <2>1. UNCHANGED bot /\ lastId' \in Nat
    BY <1>0, <1>2 DEF LateHandled, bot
  <2> QED
    BY <2>1, OthersStep
<1>3. ASSUME Bot PROVE BotInv'
  BY <1>3, StartStep, TakeTickStep, FireStep DEF Bot
<1>4. ASSUME NEW o \in inflight, Answered(o) \/ TimedOut(o) PROVE BotInv'
  BY <1>4, EndStep
<1>5. ASSUME UNCHANGED vars PROVE BotInv'
  BY <1>0, <1>5, OthersStep DEF vars, bot
<1> QED
  BY <1>1, <1>2, <1>3, <1>4, <1>5, CutOffStep, TimePassesStep DEF Next

LEMMA BotInvariant == Spec => []BotInv
BY BotInitial, BotStep, PTL DEF Spec

(***************************************************************************)
(* How long the bot itself can take                                        *)
(***************************************************************************)
\* While a tick that was in time waits, the orders that hold the slots were fired
\* before it; and the bot loops on a tick that was in time only.
SoonOK ==
    /\ pc = "acquire" /\ TickInTime => \A o \in inflight : End(o) < Duration + Timeout
    /\ pc \in {"select", "acquire"} =>
          /\ now <= Duration + Timeout
          /\ tick <= Duration => now < Duration + Timeout

SoonInv == BotInv /\ SoonOK

LEMMA SoonClock == ASSUME SoonInv, TimePasses PROVE SoonOK'
<1> DEFINE aged(o) == [o EXCEPT !.left = @ - 1]
<1> USE LoadNat
<1>0. /\ pc' = pc /\ now' = now + 1
      /\ ~(pc = "select" /\ tick # 0) /\ ~(pc = "acquire" /\ SlotFree)
      /\ \A o \in inflight : o.left > 0
      /\ tick' = IF tick = 0 /\ pc # "returned" THEN now' ELSE tick
      /\ inflight' = {aged(o) : o \in inflight}
  BY DEF TimePasses
<1>1. now \in Nat /\ tick \in 0..now
  BY DEF SoonInv, BotInv, ClockOK
<1>2. \A o \in inflight : /\ o.left \in Nat /\ aged(o).left = o.left - 1
                          /\ now' + aged(o).left = End(o)
                          /\ End(o) \in Nat /\ now' <= End(o) /\ End(o) < now' + Timeout
  BY <1>0, <1>1 DEF SoonInv, BotInv, ClockOK, InFlight, End
<1> HIDE DEF aged
<1>3. CASE tick = 0 /\ pc \in {"select", "acquire"}
  <2>1. now' <= Duration + Timeout /\ tick' = now'
    BY <1>0, <1>1, <1>3 DEF SoonInv, SoonOK
  <2>2. ASSUME TickInTime', NEW q \in inflight' PROVE End(q)' < Duration + Timeout
    <3>1. PICK p \in inflight : q = aged(p)
      BY <1>0
    <3>2. now' <= Duration /\ now' \in Nat
      BY <1>1, <1>0, <2>1, <2>2 DEF TickInTime
    <3> QED
      BY <1>2, <3>1, <3>2 DEF End
  <2> QED
    BY <1>0, <1>1, <2>1, <2>2 DEF SoonOK
<1>4. CASE tick # 0 /\ pc = "acquire"
  <2>1. PICK o \in inflight : End(o) <= Duration + Timeout
    BY <1>0, <1>4 DEF SoonInv, BotInv, BacklogOK, SlotInTime
  <2>2. now' <= Duration + Timeout /\ tick' = tick
    BY <1>0, <1>1, <1>2, <1>4, <2>1
  <2>3. ASSUME tick <= Duration PROVE now' < Duration + Timeout
    <3>1. End(o) < Duration + Timeout
      BY <1>4, <2>3 DEF SoonInv, SoonOK, TickInTime
    <3> QED
      BY <1>0, <1>1, <1>2, <3>1
  <2>4. ASSUME TickInTime', NEW q \in inflight' PROVE End(q)' < Duration + Timeout
    <3>1. PICK p \in inflight : q = aged(p)
      BY <1>0
    <3>2. End(p) < Duration + Timeout
      BY <1>4, <2>2, <2>4 DEF SoonInv, SoonOK, TickInTime
    <3> QED
      BY <1>2, <3>1, <3>2 DEF End
  <2> QED
    BY <1>0, <1>4, <2>2, <2>3, <2>4 DEF SoonOK
<1>5. CASE pc \notin {"select", "acquire"}
  BY <1>0, <1>5 DEF SoonOK
<1> QED
  BY <1>0, <1>3, <1>4, <1>5

LEMMA SoonStep == SoonInv /\ [Next]_vars => SoonInv'
<1> SUFFICES ASSUME SoonInv, [Next]_vars PROVE SoonOK'
  BY BotStep DEF SoonInv
<1> USE LoadNat
<1>0. now \in Nat /\ tick \in 0..now
  BY DEF SoonInv, BotInv, ClockOK
<1>1. CASE inflight' \subseteq inflight /\ UNCHANGED <<pc, now, tick>>
  BY <1>1 DEF SoonInv, SoonOK, TickInTime, End
<1>2. CASE Certification \/ UNCHANGED vars \/ \E order \in late : LateHandled(order)
  BY <1>1, <1>2 DEF Certification, SendBuy, SweepAnswered, SweepUnanswered, LateHandled, vars, clock
<1>3. ASSUME NEW o \in inflight, Answered(o) \/ TimedOut(o) PROVE SoonOK'
  BY <1>1, <1>3 DEF Answered, TimedOut, clock
<1>4. CASE Cancel \/ WorkerEnds
  BY <1>4 DEF Cancel, WorkerEnds, SoonOK
<1>5. CASE Start
  <2>1. pc' = "select" /\ now' = 0 /\ tick' = 0
    BY <1>5 DEF Start, clock, SoonInv, BotInv, ClockOK
  <2> QED
    BY <2>1 DEF SoonOK
<1>6. CASE TakeTick
  <2>1. CASE tick > Duration
    BY <1>6, <2>1 DEF TakeTick, SoonOK
  <2>2. CASE ~(tick > Duration)
    <3>1. /\ pc = "select" /\ pc' = "acquire" /\ now' = now /\ tick' = 0
          /\ now < Duration + Timeout
      BY <1>0, <1>6, <2>2 DEF TakeTick, SoonInv, SoonOK
    <3> QED
      BY <1>0, <3>1 DEF SoonOK, TickInTime
  <2> QED
    BY <2>1, <2>2
<1>7. ASSUME NEW req \in Request, Fire(req) PROVE SoonOK'
  <2>1. pc = "acquire" /\ pc' = "select" /\ now' = now /\ tick' = tick
    BY <1>7 DEF Fire, clock
  <2> QED
    BY <2>1 DEF SoonInv, SoonOK
<1>8. CASE TimePasses
  BY <1>8, SoonClock
<1> QED
  BY <1>1, <1>2, <1>3, <1>4, <1>5, <1>6, <1>7, <1>8 DEF Next, Bot

LEMMA SoonInvariant == Spec => []SoonInv
<1>1. Init => SoonInv
  <2> SUFFICES ASSUME Init PROVE SoonInv
    OBVIOUS
  <2>1. now = 0 /\ tick = 0 /\ inflight = {} /\ pc # "acquire"
    BY DEF Init
  <2> QED
    BY <2>1, LoadNat, BotInitial DEF SoonInv, SoonOK
<1> QED
  BY <1>1, SoonStep, PTL DEF Spec

\* However slow the container is, bot.Run returns at the latest one timeout of its
\* client after its deadline, and no order outlives the deadline by more than two:
\* the time of a tick is compared with the deadline, then the bot waits for a slot.
THEOREM BotEndsSoon == Spec => []EndsSoon
<1>1. SoonInv => EndsSoon
  BY DEF SoonInv, SoonOK, BotInv, EndsSoon, ReturnsSoon
<1> QED
  BY <1>1, SoonInvariant, PTL

(***************************************************************************)
(* Lemmas about the order book                                             *)
(***************************************************************************)
\* A set of numbers that has 0 and with each number the next one has them all.
LEMMA Counting ==
    ASSUME NEW T \in SUBSET Nat, 0 \in T, \A n \in T : n + 1 \in T
    PROVE  T = Nat
<1> SUFFICES ASSUME T # Nat PROVE FALSE
  OBVIOUS
<1>1. \E x \in Nat \ T : \A y \in Nat \ T : x <= y
  <2>1. IsWellFoundedOn(OpToRel(<, Nat), Nat)
    BY NatLessThanWellFounded
  <2>2. PICK x \in Nat \ T : \A y \in Nat \ T : ~(<<y, x>> \in OpToRel(<, Nat))
    BY <2>1, WFMin
  <2>3. \A y \in Nat \ T : ~(y < x)
    BY <2>2 DEF OpToRel
  <2> QED
    BY <2>3
<1>2. PICK x \in Nat \ T : \A y \in Nat \ T : x <= y
  BY <1>1
<1>3. x # 0 /\ x - 1 \in Nat /\ x - 1 \in T
  BY <1>2
<1>4. (x - 1) + 1 \in T
  BY <1>3
<1> QED
  BY <1>2, <1>4

\* The smaller of two numbers.
LEMMA MinOfTwo ==
    ASSUME NEW a \in Int, NEW b \in Int
    PROVE  Min({a, b}) = IF a <= b THEN a ELSE b
BY DEF Min

(***************************************************************************)
(* Quantities                                                              *)
(***************************************************************************)
Units(resting, P) == UNION {{i} \X (1..resting[i].quantity) : i \in P}

LEMMA UnitsOfOne ==
    ASSUME NEW resting, NEW i, resting[i].quantity \in Nat
    PROVE  /\ IsFiniteSet({i} \X (1..resting[i].quantity))
           /\ Cardinality({i} \X (1..resting[i].quantity)) = resting[i].quantity
<1> DEFINE q == resting[i].quantity
<1>1. q \in Nat
  OBVIOUS
<1> HIDE DEF q
<1>2. IsFiniteSet(1..q) /\ Cardinality(1..q) = q
  BY <1>1, FS_Interval
<1>3. IsFiniteSet({i}) /\ Cardinality({i}) = 1
  BY FS_Singleton
<1>4. IsFiniteSet({i} \X (1..q)) /\ Cardinality({i} \X (1..q)) = 1 * q
  BY <1>2, <1>3, FS_Product
<1> QED
  BY <1>1, <1>4 DEF q

LEMMA UnitsFinite ==
    ASSUME NEW resting, NEW P, IsFiniteSet(P), \A i \in P : resting[i].quantity \in Nat
    PROVE  IsFiniteSet(Units(resting, P)) /\ Quantity(resting, P) = Cardinality(Units(resting, P))
           /\ Quantity(resting, P) \in Nat
<1> DEFINE column(i) == {i} \X (1..resting[i].quantity)
           columns == {column(i) : i \in P}
           f == [i \in P |-> column(i)]
<1>1. f \in Surjection(P, columns)
  BY DEF Surjection
<1>2. \A c \in columns : IsFiniteSet(c)
  BY UnitsOfOne
<1> HIDE DEF f
<1>3. IsFiniteSet(columns)
  BY <1>1, FS_Surjection
<1>4. Units(resting, P) = UNION columns
  BY DEF Units
<1> HIDE DEF columns
<1>5. IsFiniteSet(Units(resting, P))
  BY <1>2, <1>3, <1>4, FS_UNION
<1>6. Quantity(resting, P) = Cardinality(Units(resting, P))
  BY DEF Quantity, Units
<1> QED
  BY <1>5, <1>6, FS_CardinalityType

LEMMA NoQuantity == \A resting : Quantity(resting, {}) = 0
<1> SUFFICES ASSUME NEW resting PROVE Quantity(resting, {}) = 0
  OBVIOUS
<1>1. UNION {{i} \X (1..resting[i].quantity) : i \in {}} = {}
  OBVIOUS
<1> QED
  BY <1>1, FS_EmptySet DEF Quantity

LEMMA QuantityAdds ==
    ASSUME NEW resting, NEW P, NEW x, IsFiniteSet(P), \A i \in P : resting[i].quantity \in Nat,
           resting[x].quantity \in Nat, x \notin P
    PROVE  Quantity(resting, P \cup {x}) = Quantity(resting, P) + resting[x].quantity
<1> DEFINE column == {x} \X (1..resting[x].quantity)
           U == Units(resting, P)
<1>1. IsFiniteSet(column) /\ Cardinality(column) = resting[x].quantity
  BY UnitsOfOne
<1>2. IsFiniteSet(U) /\ Quantity(resting, P) = Cardinality(U) /\ Cardinality(U) \in Nat
  BY UnitsFinite
<1>3. Units(resting, P \cup {x}) = U \cup column
  BY DEF Units
<1>4. U \cap column = {}
  BY DEF Units
<1>5. Quantity(resting, P \cup {x}) = Cardinality(Units(resting, P \cup {x}))
  BY DEF Quantity, Units
<1> HIDE DEF U, column
<1>6. Cardinality(U \cup column) = Cardinality(U) + Cardinality(column) - Cardinality(U \cap column)
  BY <1>1, <1>2, FS_Union
<1>7. Cardinality(U \cap column) = 0
  BY <1>4, FS_EmptySet
<1>8. Cardinality(column) \in Nat
  BY <1>1
<1>9. Cardinality(U \cup column) = Cardinality(U) + Cardinality(column)
  BY <1>2, <1>6, <1>7, <1>8
<1> QED
  BY <1>1, <1>2, <1>3, <1>5, <1>9

LEMMA QuantityGrows ==
    ASSUME NEW resting, NEW R, NEW P \in SUBSET R, IsFiniteSet(R),
           \A i \in R : resting[i].quantity \in Nat
    PROVE  Quantity(resting, P) <= Quantity(resting, R)
<1>1. IsFiniteSet(P)
  BY FS_Subset
<1>2. IsFiniteSet(Units(resting, R)) /\ Quantity(resting, R) = Cardinality(Units(resting, R))
  BY UnitsFinite
<1>3. Quantity(resting, P) = Cardinality(Units(resting, P))
  BY <1>1, UnitsFinite
<1>4. Units(resting, P) \in SUBSET Units(resting, R)
  BY DEF Units
<1> QED
  BY <1>2, <1>3, <1>4, FS_Subset

LEMMA QuantitySame ==
    ASSUME NEW resting, NEW other, NEW P, \A i \in P : other[i].quantity = resting[i].quantity
    PROVE  Quantity(other, P) = Quantity(resting, P)
BY DEF Quantity

\* One more order in the list.
LEMMA WholeAppended ==
    ASSUME NEW resting \in Seq(Resting), NEW o \in Resting
    PROVE  Whole(Append(resting, o)) = Whole(resting) + o.quantity /\ Whole(resting) \in Nat
<1> DEFINE n == Len(resting)
           more == Append(resting, o)
<1>1. /\ n \in Nat /\ DOMAIN resting = 1..n /\ DOMAIN more = (1..n) \cup {n + 1}
      /\ \A i \in 1..n : more[i] = resting[i] /\ resting[i] \in Resting
      /\ more[n + 1] = o
  OBVIOUS
<1> HIDE DEF n, more
<1>2. IsFiniteSet(1..n) /\ n + 1 \notin 1..n
  BY <1>1, FS_Interval
<1>3. o.quantity \in Nat /\ \A i \in 1..n : resting[i].quantity \in Nat
  BY <1>1 DEF Resting
<1>4. Quantity(more, 1..n) = Quantity(resting, 1..n)
  BY <1>1, QuantitySame
<1>5. Quantity(more, (1..n) \cup {n + 1}) = Quantity(more, 1..n) + more[n + 1].quantity
  <2>1. \A i \in 1..n : more[i].quantity \in Nat
    BY <1>1, <1>3
  <2>2. more[n + 1].quantity \in Nat
    BY <1>1, <1>3
  <2> DEFINE P == 1..n
             x == n + 1
  <2>3. IsFiniteSet(P) /\ x \notin P /\ \A i \in P : more[i].quantity \in Nat
    BY <1>2, <2>1
  <2> HIDE DEF P, x
  <2>4. Quantity(more, P \cup {x}) = Quantity(more, P) + more[x].quantity
    BY <2>2, <2>3, QuantityAdds DEF x
  <2> QED
    BY <2>4 DEF P, x
<1>6. Quantity(resting, 1..n) \in Nat
  BY <1>2, <1>3, UnitsFinite
<1> QED
  BY <1>1, <1>4, <1>5, <1>6 DEF Whole, more

(***************************************************************************)
(* Sorting                                                                 *)
(***************************************************************************)
\* The k-th place when the orders are sorted.
Nth(side, resting, k) == CHOOSE i \in DOMAIN resting : Rank(side, resting, i) = k - 1

LEMMA BeforeIsOrder ==
    ASSUME NEW side, NEW resting \in Seq(Resting),
           NEW i \in 1..Len(resting), NEW j \in 1..Len(resting), NEW k \in 1..Len(resting)
    PROVE  /\ ~Before(side, resting, i, i)
           /\ i # j => Before(side, resting, i, j) \/ Before(side, resting, j, i)
           /\ Before(side, resting, i, j) /\ Before(side, resting, j, k) => Before(side, resting, i, k)
<1>1. resting[i].price \in Nat /\ resting[j].price \in Nat /\ resting[k].price \in Nat
  <2>1. resting[i] \in Resting /\ resting[j] \in Resting /\ resting[k] \in Resting
    OBVIOUS
  <2> QED
    BY <2>1 DEF Resting
<1>2. i \in Int /\ j \in Int /\ k \in Int
  OBVIOUS
<1> QED
  BY <1>1, <1>2 DEF Before

\* An order comes before another one exactly if its rank is smaller; ranks count
\* through the orders.
LEMMA RanksCount ==
    ASSUME NEW side, NEW resting \in Seq(Resting)
    PROVE  LET n == Len(resting) IN
           /\ n \in Nat /\ DOMAIN resting = 1..n
           /\ \A i \in 1..n : Rank(side, resting, i) \in 0..n - 1
           /\ \A i, j \in 1..n : Before(side, resting, i, j) <=>
                                   Rank(side, resting, i) < Rank(side, resting, j)
           /\ \A k \in 1..n : /\ Nth(side, resting, k) \in 1..n
                              /\ Rank(side, resting, Nth(side, resting, k)) = k - 1
           /\ \A i \in 1..n : Nth(side, resting, Rank(side, resting, i) + 1) = i
<1> DEFINE n == Len(resting)
           rank(i) == Rank(side, resting, i)
           ahead(i) == {j \in 1..n : Before(side, resting, j, i)}
           nth(k) == Nth(side, resting, k)
<1>1. n \in Nat /\ DOMAIN resting = 1..n
  OBVIOUS
<1>2. IsFiniteSet(1..n) /\ Cardinality(1..n) = n
  BY <1>1, FS_Interval
<1>3. \A i \in 1..n : IsFiniteSet(ahead(i)) /\ rank(i) = Cardinality(ahead(i)) /\ rank(i) \in Nat
  <2> SUFFICES ASSUME NEW i \in 1..n
               PROVE  IsFiniteSet(ahead(i)) /\ rank(i) = Cardinality(ahead(i)) /\ rank(i) \in Nat
    OBVIOUS
  <2>1. ahead(i) \in SUBSET (1..n)
    OBVIOUS
  <2>2. IsFiniteSet(ahead(i))
    BY <1>2, <2>1, FS_Subset
  <2>3. rank(i) = Cardinality(ahead(i))
    BY <1>1 DEF Rank
  <2> QED
    BY <2>2, <2>3, FS_CardinalityType
<1>4. ASSUME NEW i \in 1..n PROVE rank(i) \in 0..n - 1
  <2>1. ahead(i) \in SUBSET ((1..n) \ {i})
    BY BeforeIsOrder
  <2>2. IsFiniteSet((1..n) \ {i}) /\ Cardinality((1..n) \ {i}) = n - 1
    BY <1>2, FS_RemoveElement
  <2>3. Cardinality(ahead(i)) <= n - 1
    BY <2>1, <2>2, FS_Subset
  <2> HIDE DEF n, ahead, rank
  <2> QED
    BY <1>1, <1>3, <2>3
<1>5. ASSUME NEW i \in 1..n, NEW j \in 1..n, Before(side, resting, i, j) PROVE rank(i) < rank(j)
  <2>1. ahead(i) \in SUBSET ahead(j)
    BY <1>5, BeforeIsOrder
  <2>2. i \in ahead(j) /\ i \notin ahead(i)
    BY <1>5, BeforeIsOrder
  <2> HIDE DEF n, ahead, rank
  <2>3. Cardinality(ahead(i)) <= Cardinality(ahead(j)) /\ Cardinality(ahead(i)) # Cardinality(ahead(j))
    BY <1>3, <2>1, <2>2, FS_Subset
  <2> QED
    BY <1>3, <2>3
<1>6. \A i, j \in 1..n : Before(side, resting, i, j) <=> rank(i) < rank(j)
  <2> SUFFICES ASSUME NEW i \in 1..n, NEW j \in 1..n, rank(i) < rank(j)
               PROVE  Before(side, resting, i, j)
    BY <1>5
  <2>1. i # j /\ ~(rank(j) < rank(i))
    BY <1>4
  <2>2. ~Before(side, resting, j, i)
    BY <1>5, <2>1
  <2> QED
    BY <2>1, <2>2, BeforeIsOrder
<1>7. \A i, j \in 1..n : rank(i) = rank(j) => i = j
  <2> SUFFICES ASSUME NEW i \in 1..n, NEW j \in 1..n, rank(i) = rank(j), i # j PROVE FALSE
    OBVIOUS
  <2>1. Before(side, resting, i, j) \/ Before(side, resting, j, i)
    BY BeforeIsOrder
  <2>2. rank(i) < rank(j) \/ rank(j) < rank(i)
    BY <1>6, <2>1
  <2>3. rank(i) \in Int
    BY <1>4
  <2> HIDE DEF rank
  <2> QED
    BY <2>2, <2>3
<1>8. \A k \in 1..n : \E i \in 1..n : rank(i) = k - 1
  <2> DEFINE f == [i \in 1..n |-> rank(i) + 1]
  <2>1. \A i \in 1..n : rank(i) + 1 \in 1..n
    <3>1. \A i \in 1..n : rank(i) \in 0..n - 1
      BY <1>4
    <3> HIDE DEF n, rank
    <3> QED
      BY <1>1, <3>1
  <2>2. \A i, j \in 1..n : rank(i) + 1 = rank(j) + 1 => i = j
    <3> SUFFICES ASSUME NEW i \in 1..n, NEW j \in 1..n, rank(i) + 1 = rank(j) + 1 PROVE rank(i) = rank(j)
      BY <1>7
    <3>1. rank(i) \in 0..n - 1 /\ rank(j) \in 0..n - 1
      BY <1>4
    <3> HIDE DEF n, rank
    <3> QED
      BY <3>1
  <2> HIDE DEF rank
  <2>3. f \in Injection(1..n, 1..n)
    BY <2>1, <2>2 DEF Injection, IsInjective
  <2>4. f \in Surjection(1..n, 1..n)
    BY <1>2, <2>3, FS_Injection
  <2>5. \A k \in 1..n : \E i \in 1..n : f[i] = k
    BY <2>4 DEF Surjection
  <2>7. \A i \in 1..n : f[i] = rank(i) + 1
    OBVIOUS
  <2> SUFFICES ASSUME NEW k \in 1..n PROVE \E i \in 1..n : rank(i) = k - 1
    OBVIOUS
  <2>8. PICK i \in 1..n : f[i] = k
    BY <2>5
  <2>9. rank(i) \in Int /\ rank(i) + 1 = k
    <3>1. rank(i) \in 0..n - 1
      BY <1>4
    <3>2. f[i] = rank(i) + 1
      BY <2>7
    <3> HIDE DEF n, f, rank
    <3> QED
      BY <2>8, <3>1, <3>2
  <2> HIDE DEF n, f
  <2> QED
    BY <2>9
<1>9. \A k \in 1..n : nth(k) \in 1..n /\ rank(nth(k)) = k - 1
  BY <1>1, <1>8 DEF Nth
<1>10. ASSUME NEW i \in 1..n PROVE nth(rank(i) + 1) = i
  <2> DEFINE k == rank(i) + 1
  <2>1. rank(i) \in 0..n - 1
    BY <1>4
  <2> HIDE DEF n, rank, nth
  <2>2. k \in 1..n /\ k - 1 = rank(i)
    BY <1>1, <2>1
  <2> HIDE DEF k
  <2>3. nth(k) \in 1..n /\ rank(nth(k)) = rank(i)
    BY <1>9, <2>2
  <2>4. nth(k) = i
    BY <1>7, <2>3
  <2> QED
    BY <2>4 DEF k
<1> QED
  BY <1>1, <1>4, <1>6, <1>9, <1>10

LEMMA SortedIs ==
    ASSUME NEW side, NEW resting \in Seq(Resting)
    PROVE  /\ Sorted(side, resting) \in Seq(Resting) /\ Len(Sorted(side, resting)) = Len(resting)
           /\ \A k \in 1..Len(resting) :
                 Sorted(side, resting)[k] = resting[Nth(side, resting, k)]
<1> DEFINE n == Len(resting)
<1>1. n \in Nat /\ DOMAIN resting = 1..n /\ \A i \in 1..n : resting[i] \in Resting
  OBVIOUS
<1>2. Sorted(side, resting) = [k \in 1..n |-> resting[Nth(side, resting, k)]]
  BY <1>1 DEF Sorted, Nth
<1>3. \A k \in 1..n : Nth(side, resting, k) \in 1..n
  BY RanksCount
<1>4. Sorted(side, resting) \in [1..n -> Resting]
  BY <1>1, <1>2, <1>3
<1> HIDE DEF n
<1>5. Sorted(side, resting) \in Seq(Resting) /\ Len(Sorted(side, resting)) = n
  BY <1>1, <1>4
<1> QED
  BY <1>2, <1>5 DEF n

(***************************************************************************)
(* The matching loop                                                       *)
(***************************************************************************)
Begun(req) == [left |-> req.quantity, ids |-> <<>>, rest |-> <<>>]
IsLoop(f, req, queue, n) ==
    f = [k \in 0..n |-> IF k = 0 THEN Begun(req) ELSE Take(req, f[k - 1], queue[k])]

\* A loop of n turns can always go on to one of n + 1.
LEMMA LoopGoesOn ==
    ASSUME NEW req, NEW queue, NEW n \in Nat, NEW f, IsLoop(f, req, queue, n)
    PROVE  \E g : IsLoop(g, req, queue, n + 1)
<1> DEFINE g == [k \in 0..n + 1 |-> IF k = 0 THEN Begun(req) ELSE Take(req, f[k - 1], queue[k])]
<1>1. \A k \in 0..n : f[k] = IF k = 0 THEN Begun(req) ELSE Take(req, f[k - 1], queue[k])
  <2>1. f = [k \in 0..n |-> IF k = 0 THEN Begun(req) ELSE Take(req, f[k - 1], queue[k])]
    BY DEF IsLoop
  <2> SUFFICES ASSUME NEW k \in 0..n
               PROVE  f[k] = IF k = 0 THEN Begun(req) ELSE Take(req, f[k - 1], queue[k])
    OBVIOUS
  <2>2. [j \in 0..n |-> IF j = 0 THEN Begun(req) ELSE Take(req, f[j - 1], queue[j])][k]
           = IF k = 0 THEN Begun(req) ELSE Take(req, f[k - 1], queue[k])
    OBVIOUS
  <2> QED
    BY <2>1, <2>2
<1>2. \A k \in 0..n + 1 : k # 0 => k - 1 \in 0..n /\ k - 1 \in 0..n + 1
  OBVIOUS
<1>3. \A k \in 0..n : g[k] = f[k]
  BY <1>1
<1>4. \A k \in 0..n + 1 : g[k] = IF k = 0 THEN Begun(req) ELSE Take(req, g[k - 1], queue[k])
  BY <1>2, <1>3
<1>5. g = [k \in 0..n + 1 |-> IF k = 0 THEN Begun(req) ELSE Take(req, g[k - 1], queue[k])]
  BY <1>4
<1> QED
  BY <1>5 DEF IsLoop

\* The function that the loop is does exist, so it is what it is said to be.
LEMMA LoopIs ==
    ASSUME NEW req, NEW queue, Len(queue) \in Nat
    PROVE  LET loop == Loop(req, queue) IN
           /\ loop[0] = Begun(req)
           /\ \A k \in 1..Len(queue) : loop[k] = Take(req, loop[k - 1], queue[k])
<1> DEFINE T == {n \in Nat : \E f : IsLoop(f, req, queue, n)}
           loop == Loop(req, queue)
           N == Len(queue)
           Is(f) == f = [k \in 0..Len(queue) |-> IF k = 0 THEN Begun(req) ELSE Take(req, f[k - 1], queue[k])]
<1>1. 0 \in T
  <2> DEFINE f == [k \in 0..0 |-> Begun(req)]
  <2>1. f = [k \in 0..0 |-> IF k = 0 THEN Begun(req) ELSE Take(req, f[k - 1], queue[k])]
    OBVIOUS
  <2> QED
    BY <2>1 DEF IsLoop
<1>2. \A n \in T : n + 1 \in T
  BY LoopGoesOn
<1>3. T = Nat
  <2> HIDE DEF T
  <2>1. T \in SUBSET Nat
    BY DEF T
  <2> QED
    BY <1>1, <1>2, <2>1, Counting
<1>4. N \in T
  BY <1>3
<1>5. \E f : IsLoop(f, req, queue, N)
  BY <1>4
<1>6. \E f : Is(f)
  BY <1>5 DEF IsLoop
<1>7. loop = CHOOSE f : Is(f)
  BY DEF Loop, Begun
<1> HIDE DEF Is, loop
<1>8. Is(loop)
  BY <1>6, <1>7
<1>9. loop = [k \in 0..N |-> IF k = 0 THEN Begun(req) ELSE Take(req, loop[k - 1], queue[k])]
  BY <1>8 DEF Is
<1> HIDE DEF N
<1>10. N \in Nat
  BY DEF N
<1>11. loop[0] = Begun(req)
  BY <1>9, <1>10
<1>12. \A k \in 1..N : loop[k] = Take(req, loop[k - 1], queue[k])
  <2> SUFFICES ASSUME NEW k \in 1..N PROVE loop[k] = Take(req, loop[k - 1], queue[k])
    OBVIOUS
  <2>1. k \in 0..N /\ k # 0
    BY <1>10
  <2>2. [j \in 0..N |-> IF j = 0 THEN Begun(req) ELSE Take(req, loop[j - 1], queue[j])][k]
           = Take(req, loop[k - 1], queue[k])
    BY <2>1
  <2> QED
    BY <1>9, <2>2
<1> QED
  BY <1>11, <1>12 DEF loop, N

\* The places of the first k orders when they are sorted.
First(side, resting, k) == {i \in DOMAIN resting : Rank(side, resting, i) < k}

LEMMA FirstGrows ==
    ASSUME NEW side, NEW resting \in Seq(Resting)
    PROVE  /\ First(side, resting, 0) = {}
           /\ First(side, resting, Len(resting)) = DOMAIN resting
           /\ \A k \in 0..Len(resting) - 1 :
                 LET i == Nth(side, resting, k + 1) IN
                 /\ i \in DOMAIN resting /\ i \notin First(side, resting, k)
                 /\ First(side, resting, k + 1) = First(side, resting, k) \cup {i}
                 /\ First(side, resting, k) \subseteq DOMAIN resting
                 /\ \A j \in DOMAIN resting :
                       j \in First(side, resting, k) <=> Before(side, resting, j, i)
<1> DEFINE n == Len(resting)
           rank(i) == Rank(side, resting, i)
<1>1. /\ n \in Nat /\ DOMAIN resting = 1..n
      /\ \A i \in 1..n : rank(i) \in 0..n - 1
      /\ \A i, j \in 1..n : Before(side, resting, i, j) <=> rank(i) < rank(j)
      /\ \A k \in 1..n : Nth(side, resting, k) \in 1..n /\ rank(Nth(side, resting, k)) = k - 1
      /\ \A i \in 1..n : Nth(side, resting, rank(i) + 1) = i
  BY RanksCount
<1> HIDE DEF n, rank
<1>2. \A k : First(side, resting, k) = {i \in 1..n : rank(i) < k}
  BY <1>1 DEF First, rank
<1>3. First(side, resting, 0) = {}
  <2>1. \A i \in 1..n : ~(rank(i) < 0)
    BY <1>1
  <2> QED
    BY <1>2, <2>1
<1>4. First(side, resting, n) = 1..n
  <2>1. \A i \in 1..n : rank(i) < n
    BY <1>1
  <2> QED
    BY <1>2, <2>1
<1>5. ASSUME NEW k \in 0..n - 1
      PROVE  LET i == Nth(side, resting, k + 1) IN
             /\ i \in 1..n /\ i \notin First(side, resting, k)
             /\ First(side, resting, k + 1) = First(side, resting, k) \cup {i}
             /\ First(side, resting, k) \subseteq 1..n
             /\ \A j \in 1..n : j \in First(side, resting, k) <=> Before(side, resting, j, i)
  <2> DEFINE i == Nth(side, resting, k + 1)
  <2>1. k + 1 \in 1..n /\ k \in Nat /\ (k + 1) - 1 = k
    BY <1>1
  <2>2. i \in 1..n /\ rank(i) = k
    BY <1>1, <2>1
  <2>3. \A j \in 1..n : rank(j) = k => j = i
    BY <1>1
  <2> HIDE DEF i
  <2>4. \A j \in 1..n : rank(j) < k + 1 <=> rank(j) < k \/ j = i
    <3> SUFFICES ASSUME NEW j \in 1..n PROVE rank(j) < k + 1 <=> rank(j) < k \/ rank(j) = k
      BY <2>2, <2>3
    <3>1. rank(j) \in Nat
      BY <1>1
    <3> QED
      BY <2>1, <3>1
  <2>5. First(side, resting, k + 1) = First(side, resting, k) \cup {i}
    BY <1>2, <2>2, <2>4
  <2>6. \A j \in 1..n : Before(side, resting, j, i) <=> rank(j) < k
    BY <1>1, <2>2
  <2>7. /\ First(side, resting, k) \subseteq 1..n
        /\ \A j \in 1..n : j \in First(side, resting, k) <=> Before(side, resting, j, i)
    BY <1>2, <2>6
  <2>8. i \notin First(side, resting, k)
    BY <1>2, <2>1, <2>2
  <2> QED
    BY <2>2, <2>5, <2>7, <2>8 DEF i
<1> QED
  BY <1>1, <1>3, <1>4, <1>5 DEF n

\* What a program is asked for.
AnyReq == [type : {"limit", "market", "cancel"}, side : {"buy", "sell", "null"},
           price : Nat, quantity : Nat]

Turn(req) == [left : 0..req.quantity, ids : Seq(Nat), rest : Seq(Resting)]

\* Every order of a list has its own id.
Apart(list) == \A i, j \in DOMAIN list : list[i].id = list[j].id => i = j

\* What has become of the order after the first k resting orders.  As long as some of
\* it is left, all good ones among them were taken whole; else those that it reached
\* are enough for it.
SoFar(req, resting, k, turn) ==
    LET first   == First(req.side, resting, k)
        good    == {i \in first : Crosses(req, resting[i])}
        reached == Reached(req, resting) \cap first
    IN  /\ turn \in Turn(req)
        /\ turn.left > 0 => /\ Quantity(resting, good) = req.quantity - turn.left
                            /\ good \subseteq Reached(req, resting)
        /\ turn.left = 0 => Quantity(resting, reached) >= req.quantity
        /\ ToSet(turn.ids) = {resting[i].id : i \in reached}
        /\ InOrder(req.side, resting, reached, turn.ids)
        /\ Whole(turn.rest) + (req.quantity - turn.left) = Quantity(resting, first)
        /\ turn.left > 0 => \A o \in ToSet(turn.rest) : ~Crosses(req, o)
        /\ \A o \in ToSet(turn.rest) :
              \E i \in first : o.id = resting[i].id /\ o.price = resting[i].price
        /\ Apart(resting) => Apart(turn.rest)

\* The two outcomes of a turn.
LEMMA TakeIs ==
    ASSUME NEW req \in AnyReq, NEW turn \in Turn(req), NEW o \in Resting
    PROVE  LET next == Take(req, turn, o)
               fill == IF turn.left <= o.quantity THEN turn.left ELSE o.quantity
               part == [id |-> o.id, price |-> o.price, quantity |-> o.quantity - fill]
           IN
           /\ next \in Turn(req)
           /\ turn.left = 0 \/ ~Crosses(req, o) =>
                 next.left = turn.left /\ next.ids = turn.ids /\ next.rest = Append(turn.rest, o)
           /\ turn.left > 0 /\ Crosses(req, o) =>
                 /\ next.left = turn.left - fill /\ next.ids = Append(turn.ids, o.id)
                 /\ o.quantity = fill => next.rest = turn.rest
                 /\ o.quantity # fill => part \in Resting /\ next.rest = Append(turn.rest, part)
<1> DEFINE fill == IF turn.left <= o.quantity THEN turn.left ELSE o.quantity
           part == [id |-> o.id, price |-> o.price, quantity |-> o.quantity - fill]
           skip == turn.left = 0 \/ ~Crosses(req, o)
<1>1. /\ req.quantity \in Nat /\ turn.left \in 0..req.quantity /\ turn.ids \in Seq(Nat)
      /\ turn.rest \in Seq(Resting)
      /\ turn = [left |-> turn.left, ids |-> turn.ids, rest |-> turn.rest]
      /\ o.id \in Nat /\ o.price \in Nat /\ o.quantity \in Nat \ {0}
      /\ o = [id |-> o.id, price |-> o.price, quantity |-> o.quantity]
  BY DEF AnyReq, Turn, Resting
<1>2. Min({turn.left, o.quantity}) = fill
  BY <1>1, MinOfTwo
<1>3. fill \in Nat /\ fill <= turn.left /\ fill <= o.quantity
  BY <1>1
<1>4. [o EXCEPT !.quantity = @ - fill] = part
  BY <1>1
<1>5. o.quantity > fill <=> o.quantity # fill
  BY <1>1, <1>3
<1>6. o.quantity # fill => part \in Resting
  <2> SUFFICES ASSUME o.quantity # fill PROVE part \in Resting
    OBVIOUS
  <2>1. o.quantity - fill \in Nat \ {0}
    BY <1>1, <1>3
  <2> HIDE DEF fill
  <2> QED
    BY <1>1, <2>1 DEF Resting
<1> HIDE DEF fill, part
<1>7. CASE skip
  <2>1. Take(req, turn, o) = [turn EXCEPT !.rest = Append(@, o)]
    BY <1>7 DEF Take
  <2>2. [turn EXCEPT !.rest = Append(@, o)] =
           [left |-> turn.left, ids |-> turn.ids, rest |-> Append(turn.rest, o)]
    <3> DEFINE x == Append(turn.rest, o)
    <3> HIDE DEF x
    <3>1. [turn EXCEPT !.rest = x] = [left |-> turn.left, ids |-> turn.ids, rest |-> x]
      BY DEF Turn
    <3> QED
      BY <3>1 DEF x
  <2>3. Append(turn.rest, o) \in Seq(Resting)
    BY <1>1
  <2>4. Take(req, turn, o) \in Turn(req)
    BY <1>1, <2>1, <2>2, <2>3 DEF Turn
  <2>5. /\ Take(req, turn, o).left = turn.left
        /\ Take(req, turn, o).ids = turn.ids
        /\ Take(req, turn, o).rest = Append(turn.rest, o)
    BY <2>1, <2>2
  <2>6. ~(turn.left > 0 /\ Crosses(req, o))
    BY <1>1, <1>7
  <2> QED
    BY <2>4, <2>5, <2>6
<1>8. CASE ~skip
  <2> DEFINE rest == IF o.quantity # fill THEN Append(turn.rest, part) ELSE turn.rest
  <2>1. Take(req, turn, o) = [left |-> turn.left - fill, ids |-> Append(turn.ids, o.id), rest |-> rest]
    BY <1>2, <1>4, <1>5, <1>8 DEF Take
  <2>2. rest \in Seq(Resting)
    BY <1>1, <1>6
  <2>3. turn.left - fill \in 0..req.quantity
    BY <1>1, <1>3
  <2>4. Append(turn.ids, o.id) \in Seq(Nat)
    BY <1>1
  <2>5. Take(req, turn, o) \in Turn(req)
    BY <2>1, <2>2, <2>3, <2>4 DEF Turn
  <2>6. turn.left > 0 /\ Crosses(req, o)
    BY <1>1, <1>8
  <2>7. /\ Take(req, turn, o).left = turn.left - fill
        /\ Take(req, turn, o).ids = Append(turn.ids, o.id)
        /\ Take(req, turn, o).rest = rest
    BY <2>1
  <2> QED
    BY <1>6, <2>5, <2>6, <2>7 DEF fill, part
<1> QED
  BY <1>7, <1>8

LEMMA ToSetAppended ==
    ASSUME NEW S, NEW s \in Seq(S), NEW e
    PROVE  ToSet(Append(s, e)) = ToSet(s) \cup {e}
<1> DEFINE n == Len(s)
           more == Append(s, e)
<1>1. /\ n \in Nat /\ DOMAIN s = 1..n /\ DOMAIN more = 1..n + 1
      /\ \A i \in 1..n : more[i] = s[i]
      /\ more[n + 1] = e
  OBVIOUS
<1> HIDE DEF n, more
<1>2. 1..n + 1 = (1..n) \cup {n + 1}
  BY <1>1
<1>3. ToSet(more) = {more[i] : i \in (1..n) \cup {n + 1}}
  BY <1>1, <1>2 DEF ToSet
<1>4. ToSet(s) = {s[i] : i \in 1..n}
  BY <1>1 DEF ToSet
<1>5. ToSet(more) = ToSet(s) \cup {e}
  BY <1>1, <1>3, <1>4
<1> QED
  BY <1>5 DEF more

LEMMA ApartAppended ==
    ASSUME NEW S, NEW s \in Seq(S), Apart(s), NEW e, \A p \in ToSet(s) : p.id # e.id
    PROVE  Apart(Append(s, e))
<1> DEFINE n == Len(s)
           more == Append(s, e)
<1>1. /\ n \in Nat /\ DOMAIN s = 1..n /\ DOMAIN more = 1..n + 1
      /\ \A i \in 1..n : more[i] = s[i]
      /\ more[n + 1] = e
  OBVIOUS
<1>2. \A i \in 1..n : s[i].id # e.id
  BY DEF ToSet
<1> HIDE DEF n, more
<1>3. \A i \in 1..n + 1 : i \in 1..n \/ i = n + 1
  BY <1>1
<1>4. Apart(more)
  BY <1>1, <1>2, <1>3 DEF Apart
<1> QED
  BY <1>4 DEF more

\* An order that comes after all the named ones is named next.
LEMMA NextInOrder ==
    ASSUME NEW side, NEW resting, NEW P, NEW ids \in Seq(Nat), NEW i,
           ToSet(ids) = {resting[j].id : j \in P}, InOrder(side, resting, P, ids),
           \A j \in P : Before(side, resting, j, i)
    PROVE  InOrder(side, resting, P \cup {i}, Append(ids, resting[i].id))
<1> DEFINE n == Len(ids)
           more == Append(ids, resting[i].id)
<1>1. /\ n \in Nat /\ DOMAIN ids = 1..n /\ DOMAIN more = 1..n + 1
      /\ \A k \in 1..n : more[k] = ids[k]
      /\ more[n + 1] = resting[i].id
  OBVIOUS
<1>2. \A k \in 1..n : \E j \in P : ids[k] = resting[j].id
  <2> SUFFICES ASSUME NEW k \in 1..n PROVE \E j \in P : ids[k] = resting[j].id
    OBVIOUS
  <2>1. ids[k] \in ToSet(ids)
    BY <1>1 DEF ToSet
  <2> QED
    BY <2>1
<1>3. \A k, l \in 1..n : k < l =>
         \E j, m \in P : /\ ids[k] = resting[j].id /\ ids[l] = resting[m].id
                         /\ Before(side, resting, j, m)
  BY <1>1 DEF InOrder
<1> HIDE DEF n, more
<1> SUFFICES ASSUME NEW k \in 1..n + 1, NEW l \in 1..n + 1, k < l
             PROVE  \E j, m \in P \cup {i} : /\ more[k] = resting[j].id /\ more[l] = resting[m].id
                                            /\ Before(side, resting, j, m)
  BY <1>1 DEF InOrder, more
<1>4. k \in 1..n /\ (l \in 1..n \/ l = n + 1)
  BY <1>1
<1>5. CASE l \in 1..n
  <2>1. PICK j \in P, m \in P : /\ ids[k] = resting[j].id /\ ids[l] = resting[m].id
                                /\ Before(side, resting, j, m)
    BY <1>3, <1>4, <1>5
  <2> QED
    BY <1>1, <1>4, <1>5, <2>1
<1>6. CASE l = n + 1
  <2>1. PICK j \in P : ids[k] = resting[j].id
    BY <1>2, <1>4
  <2> QED
    BY <1>1, <1>4, <1>6, <2>1
<1> QED
  BY <1>4, <1>5, <1>6

\* Places have finitely many orders with quantities.
LEMMA PlacesFinite ==
    ASSUME NEW resting \in Seq(Resting), NEW P \in SUBSET DOMAIN resting
    PROVE  /\ IsFiniteSet(P) /\ IsFiniteSet(DOMAIN resting)
           /\ \A i \in DOMAIN resting : resting[i] \in Resting /\ resting[i].quantity \in Nat
           /\ Quantity(resting, P) \in Nat
           /\ Quantity(resting, P) <= Whole(resting)
<1>1. DOMAIN resting = 1..Len(resting) /\ Len(resting) \in Nat
      /\ \A i \in 1..Len(resting) : resting[i] \in Resting
  OBVIOUS
<1>2. IsFiniteSet(DOMAIN resting)
  BY <1>1, FS_Interval
<1>3. \A i \in DOMAIN resting : resting[i] \in Resting /\ resting[i].quantity \in Nat
  BY <1>1 DEF Resting
<1>4. IsFiniteSet(P)
  BY <1>2, FS_Subset
<1>5. Quantity(resting, P) \in Nat
  BY <1>3, <1>4, UnitsFinite
<1> QED
  BY <1>2, <1>3, <1>4, <1>5, QuantityGrows DEF Whole

LEMMA TurnStep ==
    ASSUME NEW req \in AnyReq, NEW resting \in Seq(Resting), NEW k \in 0..Len(resting) - 1,
           NEW turn, SoFar(req, resting, k, turn)
    PROVE  SoFar(req, resting, k + 1, Take(req, turn, resting[Nth(req.side, resting, k + 1)]))
<1> DEFINE i == Nth(req.side, resting, k + 1)
           o == resting[i]
           q == o.quantity
           first == First(req.side, resting, k)
           fresh == First(req.side, resting, k + 1)
           good == {j \in first : Crosses(req, resting[j])}
           better == {j \in fresh : Crosses(req, resting[j])}
           all == Reached(req, resting)
           reached == all \cap first
           next == Take(req, turn, o)
           fill == IF turn.left <= q THEN turn.left ELSE q
           part == [id |-> o.id, price |-> o.price, quantity |-> q - fill]
           Q == req.quantity
<1>1. /\ i \in DOMAIN resting /\ i \notin first /\ fresh = first \cup {i}
      /\ first = {j \in DOMAIN resting : Before(req.side, resting, j, i)}
  <2>1. /\ i \in DOMAIN resting /\ i \notin first /\ fresh = first \cup {i}
        /\ first \subseteq DOMAIN resting
        /\ \A j \in DOMAIN resting : j \in first <=> Before(req.side, resting, j, i)
    BY FirstGrows
  <2> HIDE DEF first, fresh, i
  <2> QED
    BY <2>1
<1>2. /\ turn \in Turn(req)
      /\ turn.left > 0 => Quantity(resting, good) = Q - turn.left /\ good \subseteq all
      /\ turn.left = 0 => Quantity(resting, reached) >= Q
      /\ ToSet(turn.ids) = {resting[j].id : j \in reached}
      /\ InOrder(req.side, resting, reached, turn.ids)
      /\ Whole(turn.rest) + (Q - turn.left) = Quantity(resting, first)
      /\ turn.left > 0 => \A p \in ToSet(turn.rest) : ~Crosses(req, p)
      /\ \A p \in ToSet(turn.rest) :
            \E j \in first : p.id = resting[j].id /\ p.price = resting[j].price
      /\ Apart(resting) => Apart(turn.rest)
  BY DEF SoFar
<1>3. /\ first \in SUBSET DOMAIN resting /\ good \in SUBSET first /\ reached \in SUBSET first
      /\ good \in SUBSET DOMAIN resting /\ reached \in SUBSET DOMAIN resting
  BY <1>1
<1>4. /\ IsFiniteSet(first) /\ IsFiniteSet(good) /\ IsFiniteSet(reached)
      /\ Quantity(resting, first) \in Nat /\ Quantity(resting, good) \in Nat
      /\ Quantity(resting, reached) \in Nat
      /\ \A j \in DOMAIN resting : resting[j] \in Resting /\ resting[j].quantity \in Nat
  <2> HIDE DEF first, good, reached
  <2> QED
    BY <1>3, PlacesFinite
<1>5. o \in Resting /\ q \in Nat /\ o.id \in Nat /\ o.price \in Nat
  BY <1>1, <1>4 DEF Resting
<1>6. Q \in Nat /\ turn.left \in 0..Q /\ turn.rest \in Seq(Resting) /\ turn.ids \in Seq(Nat)
  BY <1>2 DEF AnyReq, Turn
<1>7. i \in all <=> Crosses(req, o) /\ turn.left > 0
  <2>1. i \in all <=>
           Crosses(req, o) /\ Quantity(resting,
              {j \in {l \in DOMAIN resting : Crosses(req, resting[l])} : Before(req.side, resting, j, i)}) < Q
    BY <1>1 DEF Reached
  <2>2. {j \in {l \in DOMAIN resting : Crosses(req, resting[l])} : Before(req.side, resting, j, i)} = good
    BY <1>1
  <2>3. i \in all <=> Crosses(req, o) /\ Quantity(resting, good) < Q
    BY <2>1, <2>2
  <2>4. turn.left > 0 => Quantity(resting, good) < Q
    <3> HIDE DEF good, Q
    <3> QED
      BY <1>2, <1>4, <1>6
  <2>5. turn.left = 0 => Quantity(resting, good) >= Q
    <3>1. reached \in SUBSET good
      BY DEF Reached
    <3>2. \A j \in good : resting[j].quantity \in Nat
      BY <1>3, <1>4
    <3> HIDE DEF good, reached, Q
    <3>3. Quantity(resting, reached) <= Quantity(resting, good)
      BY <1>4, <3>1, <3>2, QuantityGrows
    <3> QED
      BY <1>2, <1>4, <1>6, <3>3
  <2>6. turn.left > 0 \/ turn.left = 0
    <3> HIDE DEF Q
    <3> QED
      BY <1>6
  <2>7. Quantity(resting, good) \in Int /\ Q \in Int
    BY <1>4, <1>6
  <2>8. turn.left = 0 => ~(Quantity(resting, good) < Q)
    <3> HIDE DEF good, Q
    <3> QED
      BY <2>5, <2>7
  <2>9. turn.left = 0 => ~(turn.left > 0)
    OBVIOUS
  <2> HIDE DEF all, good, o, Q
  <2> QED
    BY <2>3, <2>4, <2>6, <2>8, <2>9
<1>8. Quantity(resting, fresh) = Quantity(resting, first) + q
  <2>1. \A j \in first : resting[j].quantity \in Nat
    BY <1>3, <1>4
  <2> HIDE DEF first, fresh, i
  <2> QED
    BY <1>1, <1>4, <1>5, <2>1, QuantityAdds DEF o, q
<1>9. /\ next \in Turn(req)
      /\ turn.left = 0 \/ ~Crosses(req, o) =>
            next.left = turn.left /\ next.ids = turn.ids /\ next.rest = Append(turn.rest, o)
      /\ turn.left > 0 /\ Crosses(req, o) =>
            /\ next.left = turn.left - fill /\ next.ids = Append(turn.ids, o.id)
            /\ q = fill => next.rest = turn.rest
            /\ q # fill => part \in Resting /\ next.rest = Append(turn.rest, part)
  <2> HIDE DEF o
  <2> QED
    BY <1>2, <1>5, TakeIs
<1>10. fill \in Nat /\ fill <= turn.left /\ fill <= q
  <2> HIDE DEF q, Q
  <2> QED
    BY <1>5, <1>6
<1>11. Whole(turn.rest) \in Nat
  BY <1>5, <1>6, WholeAppended
<1>12. Apart(resting) => \A p \in ToSet(turn.rest) : p.id # o.id
  <2> SUFFICES ASSUME Apart(resting), NEW p \in ToSet(turn.rest), p.id = o.id PROVE FALSE
    OBVIOUS
  <2>1. PICK j \in first : p.id = resting[j].id
    BY <1>2
  <2>2. j \in DOMAIN resting /\ j # i
    BY <1>1, <1>3, <2>1
  <2> HIDE DEF i, first
  <2> QED
    BY <1>1, <2>1, <2>2 DEF Apart
<1>13. CASE turn.left = 0 \/ ~Crosses(req, o)
  <2>1. all \cap fresh = reached
    <3>1. i \notin all
      BY <1>7, <1>13
    <3> HIDE DEF all, fresh, first, i
    <3> QED
      BY <1>1, <3>1
  <2>2. turn.left > 0 => better = good
    <3> SUFFICES ASSUME turn.left > 0 PROVE better = good
      OBVIOUS
    <3>1. ~Crosses(req, resting[i])
      BY <1>13
    <3> QED
      BY <1>1, <3>1
  <2>3. next.left = turn.left /\ next.ids = turn.ids /\ next.rest = Append(turn.rest, o)
    BY <1>9, <1>13
  <2>4. Whole(next.rest) = Whole(turn.rest) + q
    BY <1>5, <1>6, <2>3, WholeAppended
  <2>5. Whole(next.rest) + (Q - next.left) = Quantity(resting, fresh)
    <3> DEFINE W == Whole(turn.rest)
               F == Quantity(resting, first)
    <3>1. W + (Q - turn.left) = F /\ W \in Nat /\ F \in Nat
      BY <1>2, <1>4, <1>11
    <3>2. Whole(next.rest) = W + q /\ next.left = turn.left /\ Quantity(resting, fresh) = F + q
      BY <1>8, <2>3, <2>4
    <3> HIDE DEF W, F, Q, q, next, fresh
    <3> QED
      BY <1>5, <1>6, <3>1, <3>2
  <2>6. ToSet(next.rest) = ToSet(turn.rest) \cup {o}
    BY <1>6, <2>3, ToSetAppended
  <2>7. next.left > 0 => \A p \in ToSet(next.rest) : ~Crosses(req, p)
    BY <1>2, <1>13, <2>3, <2>6
  <2>8. \A p \in ToSet(next.rest) :
           \E j \in fresh : p.id = resting[j].id /\ p.price = resting[j].price
    <3> HIDE DEF next, first, fresh, i
    <3> QED
      BY <1>1, <1>2, <2>6
  <2>9. ToSet(next.ids) = {resting[j].id : j \in all \cap fresh}
    BY <1>2, <2>1, <2>3
  <2>10. next.left > 0 => Quantity(resting, better) = Q - next.left /\ better \subseteq all
    BY <1>2, <2>2, <2>3
  <2>11. next.left = 0 => Quantity(resting, all \cap fresh) >= Q
    BY <1>2, <2>1, <2>3
  <2>12. Apart(resting) => Apart(next.rest)
    <3> HIDE DEF o, next
    <3> QED
      BY <1>2, <1>6, <1>12, <2>3, ApartAppended
  <2>13. InOrder(req.side, resting, all \cap fresh, next.ids)
    BY <1>2, <2>1, <2>3
  <2> QED
    BY <1>9, <2>5, <2>7, <2>8, <2>9, <2>10, <2>11, <2>12, <2>13 DEF SoFar
<1>14. CASE turn.left > 0 /\ Crosses(req, o)
  <2>1. i \in all
    BY <1>7, <1>14
  <2>2. better = good \cup {i}
    BY <1>1, <1>14
  <2>3. all \cap fresh = reached \cup {i}
    <3> HIDE DEF all, fresh, first, i
    <3> QED
      BY <1>1, <2>1
  <2>4. good = reached
    <3>1. good \subseteq all
      BY <1>2, <1>14
    <3>2. reached \subseteq good
      BY DEF Reached
    <3> QED
      BY <3>1, <3>2
  <2>5. Quantity(resting, good \cup {i}) = Q - turn.left + q
    <3>1. \A j \in good : resting[j].quantity \in Nat
      BY <1>3, <1>4
    <3>2. i \notin good
      BY <1>1
    <3>3. Quantity(resting, good) = Q - turn.left
      BY <1>2, <1>14
    <3> HIDE DEF good, i
    <3> QED
      BY <1>4, <1>5, <3>1, <3>2, <3>3, QuantityAdds DEF o, q
  <2>6. /\ next.left = turn.left - fill /\ next.ids = Append(turn.ids, o.id)
        /\ q = fill => next.rest = turn.rest
        /\ q # fill => part \in Resting /\ next.rest = Append(turn.rest, part)
    BY <1>9, <1>14
  <2>7. next.left > 0 => Quantity(resting, better) = Q - next.left /\ better \subseteq all
    <3>1. better \subseteq all
      BY <2>1, <2>2, <2>3, <2>4
    <3>2. next.left > 0 => Q - turn.left + q = Q - next.left
      <4> HIDE DEF q, Q, next
      <4> QED
        BY <1>5, <1>6, <2>6
    <3> QED
      BY <2>2, <2>5, <3>1, <3>2
  <2>8. next.left = 0 => Quantity(resting, all \cap fresh) >= Q
    <3>1. Quantity(resting, all \cap fresh) = Q - turn.left + q
      BY <2>3, <2>4, <2>5
    <3>2. next.left = 0 => Q - turn.left + q >= Q
      <4> HIDE DEF q, Q, next
      <4> QED
        BY <1>5, <1>6, <2>6
    <3> QED
      BY <3>1, <3>2
  <2>9. ToSet(next.ids) = {resting[j].id : j \in all \cap fresh}
    <3>1. ToSet(next.ids) = ToSet(turn.ids) \cup {o.id}
      BY <1>6, <2>6, ToSetAppended
    <3>2. {resting[j].id : j \in reached \cup {i}} = {resting[j].id : j \in reached} \cup {resting[i].id}
      <4> HIDE DEF reached, i
      <4> QED
        OBVIOUS
    <3> QED
      BY <1>2, <2>3, <3>1, <3>2
  <2>10. Whole(next.rest) = Whole(turn.rest) + (q - fill)
    <3>1. CASE q = fill
      <4>1. next.rest = turn.rest /\ q - fill = 0
        <5> HIDE DEF fill, q, next
        <5> QED
          BY <1>5, <2>6, <3>1
      <4> HIDE DEF next, q, fill
      <4> QED
        BY <1>11, <4>1
    <3>2. CASE q # fill
      <4>1. part \in Resting /\ next.rest = Append(turn.rest, part)
        BY <2>6, <3>2
      <4>2. part.quantity = q - fill
        OBVIOUS
      <4> HIDE DEF next, part
      <4> QED
        BY <1>6, <4>1, <4>2, WholeAppended
    <3> QED
      BY <3>1, <3>2
  <2>11. Whole(next.rest) + (Q - next.left) = Quantity(resting, fresh)
    <3> DEFINE W == Whole(turn.rest)
               F == Quantity(resting, first)
    <3>1. W + (Q - turn.left) = F /\ W \in Nat /\ F \in Nat
      BY <1>2, <1>4, <1>11
    <3>2. Whole(next.rest) = W + (q - fill) /\ next.left = turn.left - fill
          /\ Quantity(resting, fresh) = F + q
      BY <1>8, <2>6, <2>10
    <3> HIDE DEF W, F, Q, q, next, fresh, fill
    <3> QED
      BY <1>5, <1>6, <1>10, <3>1, <3>2
  <2>12. next.left > 0 => ToSet(next.rest) = ToSet(turn.rest)
    <3> SUFFICES ASSUME next.left > 0 PROVE q = fill
      BY <2>6
    <3> HIDE DEF q, Q, next
    <3> QED
      BY <1>5, <1>6, <2>6
  <2>13. next.left > 0 => \A p \in ToSet(next.rest) : ~Crosses(req, p)
    BY <1>2, <1>14, <2>12
  <2>14. ToSet(next.rest) = ToSet(turn.rest) \/ ToSet(next.rest) = ToSet(turn.rest) \cup {part}
    <3> HIDE DEF part
    <3> QED
      BY <1>6, <2>6, ToSetAppended
  <2>15. \A p \in ToSet(next.rest) :
            \E j \in fresh : p.id = resting[j].id /\ p.price = resting[j].price
    <3>1. part.id = resting[i].id /\ part.price = resting[i].price
      OBVIOUS
    <3> HIDE DEF next, first, fresh, i, part
    <3> QED
      BY <1>1, <1>2, <2>14, <3>1
  <2>16. Apart(resting) => Apart(next.rest)
    <3>1. part.id = o.id
      OBVIOUS
    <3> HIDE DEF o, next, part
    <3>2. Apart(resting) => Apart(Append(turn.rest, part))
      BY <1>2, <1>6, <1>12, <3>1, ApartAppended
    <3> QED
      BY <1>2, <2>6, <3>2
  <2>17. InOrder(req.side, resting, all \cap fresh, next.ids)
    <3>1. \A j \in reached : Before(req.side, resting, j, i)
      BY <1>1, <1>3
    <3> HIDE DEF i, reached, all, fresh
    <3>2. InOrder(req.side, resting, reached \cup {i}, Append(turn.ids, resting[i].id))
      BY <1>2, <1>6, <3>1, NextInOrder
    <3> QED
      BY <2>3, <2>6, <3>2
  <2> QED
    BY <1>9, <2>7, <2>8, <2>9, <2>11, <2>13, <2>15, <2>16, <2>17 DEF SoFar
<1>15. turn.left = 0 \/ turn.left > 0
  BY <1>6
<1> QED
  BY <1>13, <1>14, <1>15

LEMMA MatchIs ==
    ASSUME NEW req \in AnyReq, NEW resting \in Seq(Resting)
    PROVE  SoFar(req, resting, Len(resting), Match(req, resting))
<1> DEFINE queue == Sorted(req.side, resting)
           loop == Loop(req, queue)
           n == Len(resting)
           T == {k \in Nat : k <= n => SoFar(req, resting, k, loop[k])}
<1>1. n \in Nat /\ Len(queue) = n
      /\ \A k \in 1..n : queue[k] = resting[Nth(req.side, resting, k)]
  BY SortedIs
<1>2. loop[0] = Begun(req) /\ \A k \in 1..n : loop[k] = Take(req, loop[k - 1], queue[k])
  <2> HIDE DEF queue, n
  <2> QED
    BY <1>1, LoopIs
<1>3. Match(req, resting) = loop[n]
  BY DEF Match
<1>4. SoFar(req, resting, 0, Begun(req))
  <2> DEFINE none == Begun(req)
  <2>1. First(req.side, resting, 0) = {}
    BY FirstGrows
  <2>2. none.left = req.quantity /\ none.ids = <<>> /\ none.rest = <<>> /\ req.quantity \in Nat
        /\ none \in Turn(req)
    BY DEF Begun, AnyReq, Turn
  <2>3. ToSet(<<>>) = {} /\ Apart(<<>>)
    BY DEF ToSet, Apart
  <2>4. Whole(<<>>) = 0
    BY NoQuantity DEF Whole
  <2>5. {i \in {} : Crosses(req, resting[i])} = {} /\ Reached(req, resting) \cap {} = {}
        /\ {resting[i].id : i \in {}} = {}
    OBVIOUS
  <2>6. Quantity(resting, {}) = 0
    BY NoQuantity
  <2>7. req.quantity - none.left = 0 /\ (none.left = 0 => 0 >= req.quantity)
    BY <2>2
  <2> DEFINE first == First(req.side, resting, 0)
             good == {i \in first : Crosses(req, resting[i])}
             reached == Reached(req, resting) \cap first
  <2>8. first = {} /\ good = {} /\ reached = {} /\ {resting[i].id : i \in reached} = {}
    BY <2>1, <2>5
  <2>9. SoFar(req, resting, 0, none) <=>
           /\ none \in Turn(req)
           /\ none.left > 0 => /\ Quantity(resting, good) = req.quantity - none.left
                               /\ good \subseteq Reached(req, resting)
           /\ none.left = 0 => Quantity(resting, reached) >= req.quantity
           /\ ToSet(none.ids) = {resting[i].id : i \in reached}
           /\ InOrder(req.side, resting, reached, none.ids)
           /\ Whole(none.rest) + (req.quantity - none.left) = Quantity(resting, first)
           /\ none.left > 0 => \A o \in ToSet(none.rest) : ~Crosses(req, o)
           /\ \A o \in ToSet(none.rest) :
                 \E i \in first : o.id = resting[i].id /\ o.price = resting[i].price
           /\ Apart(resting) => Apart(none.rest)
    BY DEF SoFar
  <2> HIDE DEF none, first, good, reached
  <2>11. Quantity(resting, good) = 0 /\ Quantity(resting, reached) = 0 /\ Quantity(resting, first) = 0
    BY <2>6, <2>8
  <2>12. ToSet(none.ids) = {resting[i].id : i \in reached} /\ ToSet(none.rest) = {}
    BY <2>2, <2>3, <2>8
  <2>13. Apart(none.rest) /\ Whole(none.rest) = 0
    BY <2>2, <2>3, <2>4
  <2>14. good \subseteq Reached(req, resting)
    BY <2>8
  <2>15. InOrder(req.side, resting, reached, none.ids)
    BY <2>2 DEF InOrder
  <2> QED
    BY <2>2, <2>7, <2>9, <2>11, <2>12, <2>13, <2>14, <2>15 DEF none
<1> HIDE DEF queue, loop, n
<1>5. 0 \in T
  BY <1>2, <1>4
<1>6. \A k \in T : k + 1 \in T
  <2> SUFFICES ASSUME NEW k \in Nat, k + 1 <= n, SoFar(req, resting, k, loop[k])
               PROVE  SoFar(req, resting, k + 1, loop[k + 1])
    BY <1>1
  <2>1. k \in 0..n - 1 /\ k + 1 \in 1..n /\ (k + 1) - 1 = k
    BY <1>1
  <2>2. SoFar(req, resting, k + 1, Take(req, loop[k], resting[Nth(req.side, resting, k + 1)]))
    BY <2>1, TurnStep DEF n
  <2>3. loop[k + 1] = Take(req, loop[k], resting[Nth(req.side, resting, k + 1)])
    <3> DEFINE l == k + 1
    <3>1. loop[l] = Take(req, loop[l - 1], queue[l]) /\ queue[l] = resting[Nth(req.side, resting, l)]
      BY <1>1, <1>2, <2>1
    <3> QED
      BY <2>1, <3>1
  <2> QED
    BY <2>2, <2>3
<1>7. T = Nat
  <2>1. T \in SUBSET Nat
    OBVIOUS
  <2> HIDE DEF T
  <2> QED
    BY <1>5, <1>6, <2>1, Counting
<1>8. SoFar(req, resting, n, loop[n])
  BY <1>1, <1>7
<1> QED
  BY <1>3, <1>8 DEF n

(***************************************************************************)
(* One order                                                               *)
(***************************************************************************)
\* What the matching does to the other side of the book.
LEMMA OtherSide ==
    ASSUME NEW req \in AnyReq, NEW other \in Seq(Resting)
    PROVE  LET match   == Match(req, other)
               reached == Reached(req, other)
               filled  == req.quantity - match.left
           IN
           /\ match.left \in 0..req.quantity /\ match.ids \in Seq(Nat) /\ match.rest \in Seq(Resting)
           /\ \A o \in ToSet(match.rest) : \E p \in ToSet(other) : o.id = p.id /\ o.price = p.price
           /\ match.left > 0 => \A o \in ToSet(match.rest) : ~Crosses(req, o)
           /\ Apart(other) => Apart(match.rest)
           /\ ToSet(match.ids) = {other[i].id : i \in reached}
           /\ InOrder(req.side, other, reached, match.ids)
           /\ filled = Min({req.quantity, Quantity(other, reached)})
           /\ Whole(match.rest) + filled = Whole(other)
<1> DEFINE match == Match(req, other)
           first == First(req.side, other, Len(other))
           good == {i \in first : Crosses(req, other[i])}
           all == Reached(req, other)
           filled == req.quantity - match.left
<1>1. SoFar(req, other, Len(other), match)
  BY MatchIs
<1>2. first = DOMAIN other
  BY FirstGrows
<1>3. /\ match \in Turn(req)
      /\ match.left > 0 => Quantity(other, good) = filled /\ good \subseteq all
      /\ match.left = 0 => Quantity(other, all \cap first) >= req.quantity
      /\ ToSet(match.ids) = {other[i].id : i \in all \cap first}
      /\ InOrder(req.side, other, all \cap first, match.ids)
      /\ Whole(match.rest) + filled = Quantity(other, first)
      /\ match.left > 0 => \A o \in ToSet(match.rest) : ~Crosses(req, o)
      /\ \A o \in ToSet(match.rest) : \E i \in first : o.id = other[i].id /\ o.price = other[i].price
      /\ Apart(other) => Apart(match.rest)
  BY <1>1 DEF SoFar
<1>4. all \subseteq good /\ all \in SUBSET DOMAIN other
  BY <1>2 DEF Reached
<1> HIDE DEF match, all, first, good
<1>5. all \cap first = all
  BY <1>2, <1>4
<1>6. /\ match.left \in 0..req.quantity /\ match.ids \in Seq(Nat) /\ match.rest \in Seq(Resting)
      /\ req.quantity \in Nat
  BY <1>3 DEF AnyReq, Turn
<1>7. \A o \in ToSet(match.rest) : \E p \in ToSet(other) : o.id = p.id /\ o.price = p.price
  <2> SUFFICES ASSUME NEW o \in ToSet(match.rest)
               PROVE  \E p \in ToSet(other) : o.id = p.id /\ o.price = p.price
    OBVIOUS
  <2>1. PICK i \in DOMAIN other : o.id = other[i].id /\ o.price = other[i].price
    BY <1>2, <1>3
  <2>2. other[i] \in ToSet(other)
    BY DEF ToSet
  <2> QED
    BY <2>1, <2>2
<1>8. filled = Min({req.quantity, Quantity(other, all)})
  <2> DEFINE R == Quantity(other, all)
  <2>1. R \in Nat
    BY <1>4, PlacesFinite
  <2>2. match.left > 0 => R = filled
    <3>1. match.left > 0 => all = good
      BY <1>3, <1>4
    <3> QED
      BY <1>3, <3>1
  <2>3. match.left = 0 => R >= req.quantity
    BY <1>3, <1>5
  <2> HIDE DEF R
  <2>4. Min({req.quantity, R}) = IF req.quantity <= R THEN req.quantity ELSE R
    BY <1>6, <2>1, MinOfTwo
  <2>5. filled = IF req.quantity <= R THEN req.quantity ELSE R
    <3> DEFINE left == match.left
               Q == req.quantity
    <3>1. left \in 0..Q /\ Q \in Nat /\ (left > 0 => R = Q - left) /\ (left = 0 => R >= Q)
      BY <1>6, <2>2, <2>3
    <3> HIDE DEF left, Q
    <3>2. Q - left = IF Q <= R THEN Q ELSE R
      BY <2>1, <3>1
    <3> QED
      BY <3>2 DEF left, Q
  <2> QED
    BY <2>4, <2>5 DEF R
<1>9. Whole(match.rest) + filled = Whole(other)
  BY <1>2, <1>3 DEF Whole
<1>10. ToSet(match.ids) = {other[i].id : i \in all} /\ InOrder(req.side, other, all, match.ids)
  BY <1>3, <1>5
<1> QED
  BY <1>3, <1>6, <1>7, <1>8, <1>9, <1>10 DEF match, all

\* What an order does to its own side.
Left(req, id, left) ==
    IF req.type = "limit" /\ left > 0
      THEN <<[id |-> id, price |-> req.price, quantity |-> left]>> ELSE <<>>

LEMMA OwnSide ==
    ASSUME NEW req \in AnyReq, NEW own \in Seq(Resting), NEW id \in Nat, NEW left \in 0..req.quantity
    PROVE  LET after == own \o Left(req, id, left) IN
           /\ after \in Seq(Resting)
           /\ ToSet(own) \subseteq ToSet(after)
           /\ \A o \in ToSet(after) :
                 o \in ToSet(own) \/ (o.id = id /\ o.price = req.price /\ req.type = "limit" /\ left > 0)
           /\ Apart(own) /\ (\A o \in ToSet(own) : o.id # id) => Apart(after)
           /\ Whole(after) = Whole(own) + IF req.type = "limit" THEN left ELSE 0
           /\ Whole(own) \in Nat
<1> DEFINE new == [id |-> id, price |-> req.price, quantity |-> left]
<1>0. req.quantity \in Nat /\ req.price \in Nat /\ left \in Nat /\ new.quantity = left
  BY DEF AnyReq
<1>1. Whole(own) \in Nat
  <2>1. DOMAIN own \in SUBSET DOMAIN own
    OBVIOUS
  <2> QED
    BY <2>1, PlacesFinite DEF Whole
<1>2. CASE req.type = "limit" /\ left > 0
  <2>1. new \in Resting /\ new.id = id /\ new.price = req.price
    BY <1>0, <1>2 DEF Resting
  <2>2. own \o Left(req, id, left) = Append(own, new)
    <3>1. Left(req, id, left) = <<new>>
      BY <1>2 DEF Left
    <3> HIDE DEF new
    <3> QED
      BY <2>1, <3>1
  <2> HIDE DEF new
  <2>3. ToSet(Append(own, new)) = ToSet(own) \cup {new} /\ Append(own, new) \in Seq(Resting)
    BY <2>1, ToSetAppended
  <2>4. Apart(own) /\ (\A o \in ToSet(own) : o.id # id) => Apart(Append(own, new))
    BY <2>1, ApartAppended
  <2>5. Whole(Append(own, new)) = Whole(own) + left
    BY <1>0, <2>1, WholeAppended
  <2> QED
    BY <1>1, <1>2, <2>1, <2>2, <2>3, <2>4, <2>5
<1>3. CASE ~(req.type = "limit" /\ left > 0)
  <2>1. own \o Left(req, id, left) = own
    BY <1>3 DEF Left
  <2>2. (IF req.type = "limit" THEN left ELSE 0) = 0
    BY <1>0, <1>3
  <2> QED
    BY <1>1, <2>1, <2>2
<1> QED
  BY <1>2, <1>3

Book == [bids : Seq(Resting), asks : Seq(Resting)]

\* A book that an order can be given to: its orders can be told apart, and none of
\* them could be matched with another one.
Uncrossed(b) == \A x \in ToSet(b.bids), y \in ToSet(b.asks) : x.price < y.price
BookOK(b) ==
    /\ b \in Book /\ Uncrossed(b)
    /\ Apart(b.bids) /\ Apart(b.asks)
    /\ \A x \in ToSet(b.bids), y \in ToSet(b.asks) : x.id # y.id

Ids(b) == {o.id : o \in ToSet(b.bids) \cup ToSet(b.asks)}

\* The answer is what the order is owed, and no unit is lost.
Rightly(req, b, done) ==
    LET other == IF req.side = "buy" THEN b.asks ELSE b.bids IN
    /\ ToSet(done.answer.ids) = {other[i].id : i \in Reached(req, other)}
    /\ InOrder(req.side, other, Reached(req, other), done.answer.ids)
    /\ done.answer.filled = Min({req.quantity, Quantity(other, Reached(req, other))})
    /\ Whole(done.book.bids) + Whole(done.book.asks) + 2 * done.answer.filled =
          Whole(b.bids) + Whole(b.asks)
            + IF req.type = "limit" THEN req.quantity ELSE done.answer.filled

\* The whole handler.
LEMMA Processed ==
    ASSUME NEW req \in AnyReq, NEW b, BookOK(b), NEW id \in Nat, id \notin Ids(b)
    PROVE  LET done == ProcessOrder(b, req, id) IN
           /\ BookOK(done.book) /\ Ids(done.book) \subseteq Ids(b) \cup {id}
           /\ Judge(done.answer, req.quantity)
           /\ req.type # "cancel" => Rightly(req, b, done)
<1> DEFINE done == ProcessOrder(b, req, id)
           buy == req.side = "buy"
           other == IF buy THEN b.asks ELSE b.bids
           own == IF buy THEN b.bids ELSE b.asks
           match == Match(req, other)
           rest == match.rest
           left == match.left
           after == own \o Left(req, id, left)
           filled == req.quantity - left
           reached == Reached(req, other)
           status == IF filled = 0 THEN (IF req.type = "market" THEN "rejected" ELSE "ack")
                                   ELSE (IF left = 0 THEN "filled" ELSE "partial_fill")
<1>1. /\ b \in Book /\ b.bids \in Seq(Resting) /\ b.asks \in Seq(Resting)
      /\ Apart(b.bids) /\ Apart(b.asks)
      /\ \A x \in ToSet(b.bids), y \in ToSet(b.asks) : x.id # y.id /\ x.price < y.price
  BY DEF BookOK, Uncrossed, Book
<1>2. \A x \in ToSet(b.bids) \cup ToSet(b.asks) : x.id # id
  BY DEF Ids
<1>3. CASE req.type = "cancel"
  <2>1. done = [book |-> b, answer |-> Answer("ack", 0, <<>>)]
    BY <1>3 DEF ProcessOrder
  <2>2. done.book = b /\ done.answer.status = "ack" /\ done.answer.filled = 0
    BY <2>1 DEF Answer
  <2> QED
    BY <1>3, <2>2 DEF Judge
<1>4. CASE req.type # "cancel"
  <2>1. done = [book |-> IF buy THEN [bids |-> after, asks |-> rest] ELSE [bids |-> rest, asks |-> after],
                answer |-> Answer(status, filled, match.ids)]
    BY <1>4 DEF ProcessOrder, Left
  <2>2. /\ done.book = IF buy THEN [bids |-> after, asks |-> rest] ELSE [bids |-> rest, asks |-> after]
        /\ done.answer.status = status /\ done.answer.filled = filled
        /\ done.answer.ids = match.ids
    BY <2>1 DEF Answer
  <2>3. other \in Seq(Resting) /\ own \in Seq(Resting) /\ Apart(other) /\ Apart(own)
    BY <1>1
  <2>4. /\ left \in 0..req.quantity /\ match.ids \in Seq(Nat) /\ rest \in Seq(Resting)
        /\ \A o \in ToSet(rest) : \E p \in ToSet(other) : o.id = p.id /\ o.price = p.price
        /\ left > 0 => \A o \in ToSet(rest) : ~Crosses(req, o)
        /\ Apart(rest)
        /\ ToSet(match.ids) = {other[i].id : i \in reached}
        /\ InOrder(req.side, other, reached, match.ids)
        /\ filled = Min({req.quantity, Quantity(other, reached)})
        /\ Whole(rest) + filled = Whole(other)
    <3> HIDE DEF other
    <3> QED
      BY <2>3, OtherSide
  <2>5. req.quantity \in Nat /\ req.price \in Nat /\ left \in Nat /\ filled \in 0..req.quantity
        /\ (filled # 0 => filled \in 1..req.quantity)
    <3>1. req.quantity \in Nat /\ req.price \in Nat
      BY DEF AnyReq
    <3> HIDE DEF left
    <3> QED
      BY <2>4, <3>1
  <2>6. /\ after \in Seq(Resting)
        /\ \A o \in ToSet(after) :
              o \in ToSet(own) \/ (o.id = id /\ o.price = req.price /\ req.type = "limit" /\ left > 0)
        /\ Apart(after)
        /\ Whole(after) = Whole(own) + IF req.type = "limit" THEN left ELSE 0
        /\ Whole(own) \in Nat
    <3>1. \A o \in ToSet(own) : o.id # id
      BY <1>2
    <3> HIDE DEF left, own
    <3> QED
      BY <2>3, <2>4, <3>1, OwnSide
  <2>7. Judge(done.answer, req.quantity)
    <3> HIDE DEF filled, left, done
    <3> QED
      BY <2>2, <2>5 DEF Judge
  <2>8. Whole(other) \in Nat /\ Whole(rest) \in Nat
    <3>1. \A s \in Seq(Resting) : Whole(s) \in Nat
      <4> SUFFICES ASSUME NEW s \in Seq(Resting) PROVE Whole(s) \in Nat
        OBVIOUS
      <4>1. DOMAIN s \in SUBSET DOMAIN s
        OBVIOUS
      <4> QED
        BY <4>1, PlacesFinite DEF Whole
    <3> HIDE DEF other, rest
    <3> QED
      BY <2>3, <2>4, <3>1
  <2>9. Whole(rest) + Whole(after) + 2 * filled =
           Whole(other) + Whole(own) + IF req.type = "limit" THEN req.quantity ELSE filled
    <3> DEFINE WR == Whole(rest)
               WA == Whole(after)
               WO == Whole(other)
               WN == Whole(own)
               Q == req.quantity
    <3>1. /\ WR + (Q - left) = WO /\ WA = WN + IF req.type = "limit" THEN left ELSE 0
          /\ WR \in Nat /\ WO \in Nat /\ WN \in Nat /\ Q \in Nat /\ left \in Nat
      BY <2>4, <2>5, <2>6, <2>8
    <3> HIDE DEF WR, WA, WO, WN, Q, left
    <3>2. WR + WA + 2 * (Q - left) = WO + WN + IF req.type = "limit" THEN Q ELSE (Q - left)
      <4>1. CASE req.type = "limit"
        BY <3>1, <4>1
      <4>2. CASE req.type # "limit"
        BY <3>1, <4>2
      <4> QED
        BY <4>1, <4>2
    <3> QED
      BY <3>2 DEF WR, WA, WO, WN, Q
  <2>10. /\ \A x \in ToSet(after), y \in ToSet(rest) : x.id # y.id
         /\ \A o \in ToSet(after) \cup ToSet(rest) :
               o.id = id \/ \E p \in ToSet(b.bids) \cup ToSet(b.asks) : o.id = p.id
    <3>1. \A x \in ToSet(own), y \in ToSet(other) : x.id # y.id
      BY <1>1
    <3>2. \A x \in ToSet(own) \cup ToSet(other) : x.id # id
      BY <1>2
    <3>3. ToSet(own) \cup ToSet(other) = ToSet(b.bids) \cup ToSet(b.asks)
      OBVIOUS
    <3> HIDE DEF own, other, after, rest, left
    <3> QED
      BY <2>4, <2>6, <3>1, <3>2, <3>3
  <2>11. CASE buy
    <3>1. other = b.asks /\ own = b.bids
      BY <2>11
    <3>2. done.book = [bids |-> after, asks |-> rest]
      BY <2>2, <2>11
    <3>3. \A x \in ToSet(after), y \in ToSet(rest) : x.price < y.price
      <4> SUFFICES ASSUME NEW x \in ToSet(after), NEW y \in ToSet(rest) PROVE x.price < y.price
        OBVIOUS
      <4>1. CASE x \in ToSet(own)
        <5>1. PICK p \in ToSet(b.asks) : y.price = p.price
          BY <2>4, <3>1
        <5> QED
          BY <1>1, <3>1, <4>1, <5>1
      <4>2. CASE x \notin ToSet(own)
        <5>1. x.price = req.price /\ req.type = "limit" /\ left > 0
          BY <2>6, <4>2
        <5>2. ~Crosses(req, y)
          BY <2>4, <5>1
        <5>3. ~(y.price <= req.price)
          BY <2>11, <5>1, <5>2 DEF Crosses
        <5>4. y.price \in Nat
          <6>1. y \in Resting
            BY <2>4 DEF ToSet
          <6> QED
            BY <6>1 DEF Resting
        <5> QED
          BY <2>5, <5>1, <5>3, <5>4
      <4> QED
        BY <4>1, <4>2
    <3>4. done.book.bids = after /\ done.book.asks = rest /\ done.book \in Book
      <4> HIDE DEF after, rest, done
      <4> QED
        BY <2>4, <2>6, <3>2 DEF Book
    <3>5. BookOK(done.book)
      <4> HIDE DEF after, rest, done
      <4> QED
        BY <2>4, <2>6, <2>10, <3>3, <3>4 DEF BookOK, Uncrossed
    <3>6. Ids(done.book) \subseteq Ids(b) \cup {id}
      <4> HIDE DEF after, rest, done
      <4> QED
        BY <2>10, <3>4 DEF Ids
    <3>7. Whole(done.book.bids) + Whole(done.book.asks) + 2 * done.answer.filled =
             Whole(b.bids) + Whole(b.asks)
               + IF req.type = "limit" THEN req.quantity ELSE done.answer.filled
      <4>1. Whole(after) \in Int /\ Whole(own) \in Int
        BY <2>5, <2>6
      <4> HIDE DEF after, rest, done, filled, other, own
      <4> QED
        BY <2>2, <2>5, <2>8, <2>9, <3>1, <3>4, <4>1
    <3>8. Rightly(req, b, done)
      <4> HIDE DEF done, match, filled
      <4> QED
        BY <2>2, <2>4, <3>7 DEF Rightly
    <3> QED
      BY <2>7, <3>5, <3>6, <3>8
  <2>12. CASE ~buy
    <3>1. other = b.bids /\ own = b.asks
      BY <2>12
    <3>2. done.book = [bids |-> rest, asks |-> after]
      BY <2>2, <2>12
    <3>3. \A x \in ToSet(rest), y \in ToSet(after) : x.price < y.price
      <4> SUFFICES ASSUME NEW x \in ToSet(rest), NEW y \in ToSet(after) PROVE x.price < y.price
        OBVIOUS
      <4>1. CASE y \in ToSet(own)
        <5>1. PICK p \in ToSet(b.bids) : x.price = p.price
          BY <2>4, <3>1
        <5> QED
          BY <1>1, <3>1, <4>1, <5>1
      <4>2. CASE y \notin ToSet(own)
        <5>1. y.price = req.price /\ req.type = "limit" /\ left > 0
          BY <2>6, <4>2
        <5>2. ~Crosses(req, x)
          BY <2>4, <5>1
        <5>3. ~(x.price >= req.price)
          BY <2>12, <5>1, <5>2 DEF Crosses
        <5>4. x.price \in Nat
          <6>1. x \in Resting
            BY <2>4 DEF ToSet
          <6> QED
            BY <6>1 DEF Resting
        <5> QED
          BY <2>5, <5>1, <5>3, <5>4
      <4> QED
        BY <4>1, <4>2
    <3>4. done.book.bids = rest /\ done.book.asks = after /\ done.book \in Book
      <4> HIDE DEF after, rest, done
      <4> QED
        BY <2>4, <2>6, <3>2 DEF Book
    <3>5. BookOK(done.book)
      <4>1. \A x \in ToSet(rest), y \in ToSet(after) : x.id # y.id
        <5> HIDE DEF after, rest
        <5> QED
          BY <2>10
      <4> HIDE DEF after, rest, done
      <4> QED
        BY <2>4, <2>6, <3>3, <3>4, <4>1 DEF BookOK, Uncrossed
    <3>6. Ids(done.book) \subseteq Ids(b) \cup {id}
      <4> HIDE DEF after, rest, done
      <4> QED
        BY <2>10, <3>4 DEF Ids
    <3>7. Whole(done.book.bids) + Whole(done.book.asks) + 2 * done.answer.filled =
             Whole(b.bids) + Whole(b.asks)
               + IF req.type = "limit" THEN req.quantity ELSE done.answer.filled
      <4>1. Whole(after) \in Int /\ Whole(own) \in Int
        BY <2>5, <2>6
      <4> HIDE DEF after, rest, done, filled, other, own
      <4> QED
        BY <2>2, <2>5, <2>8, <2>9, <3>1, <3>4, <4>1
    <3>8. Rightly(req, b, done)
      <4> HIDE DEF done, match, filled
      <4> QED
        BY <2>2, <2>4, <3>7 DEF Rightly
    <3> QED
      BY <2>7, <3>5, <3>6, <3>8
  <2> QED
    BY <2>11, <2>12
<1> QED
  BY <1>3, <1>4

(***************************************************************************)
(* The orders on their way                                                 *)
(***************************************************************************)
\* An order is in the book b, or waits for the container (late), or for its answer
\* (flying), and the last n ids were given to such orders.
OrdersOK(b, waiting, flying, n) ==
    /\ n \in Nat /\ BookOK(b)
    /\ waiting \subseteq Sent
    /\ \A i \in Ids(b) : i \in 0..n
    /\ \A o \in waiting \cup flying : o.id \in 1..n /\ o.id \notin Ids(b)
    /\ \A o, p \in waiting : o.id = p.id => o = p
    /\ \A o, p \in flying : o.id = p.id => o = p
    /\ \A o \in waiting, p \in flying : o.id # p.id

CertOK ==
    /\ cert \in [pass : 1..CertPasses + 1, expected : Seq(Nat), passed : 0..CertPasses,
                 attempted : BOOLEAN]
    /\ cert.passed <= cert.pass - 1

LoadInv ==
    /\ BotInv
    /\ worker \in BOOLEAN /\ disturbed \in 0..MaxDisturbed
    /\ CertOK
    /\ OrdersOK(book, late, inflight, lastId)

LEMMA Requests == Request \cup {CertBuy, CertSweep} \subseteq AnyReq
<1>1. Prices \subseteq Nat /\ Quantities \subseteq Nat /\ CertPrice \in Nat /\ CertOrders \in Nat
  BY LoadAssumption
<1>2. CertBuy \in AnyReq /\ CertSweep \in AnyReq
  BY <1>1 DEF CertBuy, CertSweep, AnyReq
<1>3. ASSUME NEW r \in Request PROVE r \in AnyReq
  <2>1. CASE r \in [type : {"limit"}, side : {"buy", "sell"}, price : Prices, quantity : Quantities]
    BY <1>1, <2>1 DEF AnyReq
  <2>2. CASE r \in [type : {"market"}, side : {"buy", "sell"}, price : {0}, quantity : Quantities]
    <3>1. /\ r = [type |-> r.type, side |-> r.side, price |-> r.price, quantity |-> r.quantity]
          /\ r.type = "market" /\ r.side \in {"buy", "sell"} /\ r.price = 0 /\ r.quantity \in Nat
      BY <1>1, <2>2
    <3> QED
      BY <3>1 DEF AnyReq
  <2>3. CASE r \in [type : {"cancel"}, side : {"null"}, price : {0}, quantity : {0}]
    BY <2>3 DEF AnyReq
  <2> QED
    BY <2>1, <2>2, <2>3 DEF Request
<1> QED
  BY <1>2, <1>3

\* An order that was waiting, in one way or another, is handled.
LEMMA LateOrder ==
    ASSUME NEW b, NEW waiting, NEW flying, NEW n, OrdersOK(b, waiting, flying, n), NEW o \in waiting
    PROVE  OrdersOK(ProcessOrder(b, o.req, o.id).book, waiting \ {o}, flying, n)
<1> DEFINE after == ProcessOrder(b, o.req, o.id).book
<1>1. o.req \in AnyReq /\ o.id \in Nat /\ o.id \notin Ids(b) /\ o.id \in 1..n /\ n \in Nat /\ BookOK(b)
  BY Requests DEF OrdersOK, Sent
<1>2. BookOK(after) /\ Ids(after) \subseteq Ids(b) \cup {o.id}
  BY <1>1, Processed
<1> HIDE DEF after
<1>3. \A i \in Ids(after) : i \in 0..n
  BY <1>1, <1>2 DEF OrdersOK
<1>4. \A p \in (waiting \ {o}) \cup flying : p.id # o.id
  BY DEF OrdersOK
<1>5. OrdersOK(after, waiting \ {o}, flying, n)
  BY <1>1, <1>2, <1>3, <1>4 DEF OrdersOK
<1> QED
  BY <1>5 DEF after

LEMMA FlyingOrder ==
    ASSUME NEW b, NEW waiting, NEW flying, NEW n, OrdersOK(b, waiting, flying, n), NEW o \in flying,
           o.req \in AnyReq
    PROVE  OrdersOK(ProcessOrder(b, o.req, o.id).book, waiting, flying \ {o}, n)
<1> DEFINE after == ProcessOrder(b, o.req, o.id).book
<1>1. o.id \in Nat /\ o.id \notin Ids(b) /\ o.id \in 1..n /\ n \in Nat /\ BookOK(b)
  BY DEF OrdersOK
<1>2. BookOK(after) /\ Ids(after) \subseteq Ids(b) \cup {o.id}
  BY <1>1, Processed
<1> HIDE DEF after
<1>3. \A i \in Ids(after) : i \in 0..n
  BY <1>1, <1>2 DEF OrdersOK
<1>4. \A p \in waiting \cup (flying \ {o}) : p.id # o.id
  BY DEF OrdersOK
<1>5. OrdersOK(after, waiting, flying \ {o}, n)
  BY <1>1, <1>2, <1>3, <1>4 DEF OrdersOK
<1> QED
  BY <1>5 DEF after

\* A new order is handled at once, or it is not heard of again.
LEMMA NewOrderHandled ==
    ASSUME NEW b, NEW waiting, NEW flying, NEW n, OrdersOK(b, waiting, flying, n), NEW req \in AnyReq
    PROVE  /\ OrdersOK(b, waiting, flying, n + 1)
           /\ OrdersOK(ProcessOrder(b, req, n + 1).book, waiting, flying, n + 1)
<1> DEFINE id == n + 1
           after == ProcessOrder(b, req, id).book
<1>1. n \in Nat /\ id \in Nat /\ id \notin 0..n /\ BookOK(b)
      /\ (\A i \in 0..n : i \in 0..id) /\ (\A i \in 1..n : i \in 1..id) /\ id \in 0..id
  BY DEF OrdersOK
<1> HIDE DEF id
<1>2. id \notin Ids(b)
  BY <1>1 DEF OrdersOK
<1>3. BookOK(after) /\ Ids(after) \subseteq Ids(b) \cup {id}
  BY <1>1, <1>2, Processed
<1> HIDE DEF after
<1>4. \A i \in Ids(after) : i \in 0..id
  BY <1>1, <1>3 DEF OrdersOK
<1>5. \A o \in waiting \cup flying : o.id \in 1..id /\ o.id # id /\ o.id \notin Ids(b)
  BY <1>1 DEF OrdersOK
<1>6. \A o \in waiting \cup flying : o.id \notin Ids(after)
  BY <1>3, <1>5
<1>7. OrdersOK(b, waiting, flying, id)
  BY <1>1, <1>5 DEF OrdersOK
<1>8. OrdersOK(after, waiting, flying, id)
  BY <1>1, <1>3, <1>4, <1>5, <1>6 DEF OrdersOK
<1> QED
  BY <1>7, <1>8 DEF after, id

LEMMA NewOrderLate ==
    ASSUME NEW b, NEW waiting, NEW flying, NEW n, OrdersOK(b, waiting, flying, n),
           NEW order \in Sent, order.id = n + 1
    PROVE  OrdersOK(b, waiting \cup {order}, flying, n + 1)
<1> DEFINE id == n + 1
<1>1. id \in 1..id /\ \A i \in 1..n : i # id
  BY DEF OrdersOK
<1>2. OrdersOK(b, waiting, flying, id)
  BY NewOrderHandled, Requests DEF CertBuy
<1>3. \A i \in Ids(b) : i # id
  BY DEF OrdersOK
<1> HIDE DEF id
<1>4. order.id = id
  BY DEF id
<1>5. \A o \in waiting \cup flying : o.id # id
  BY <1>1 DEF OrdersOK
<1>6. OrdersOK(b, waiting \cup {order}, flying, id)
  BY <1>1, <1>2, <1>3, <1>4, <1>5 DEF OrdersOK
<1> QED
  BY <1>6 DEF id

LEMMA NewOrderFlying ==
    ASSUME NEW b, NEW waiting, NEW flying, NEW n, OrdersOK(b, waiting, flying, n),
           NEW order, order.id = n + 1
    PROVE  OrdersOK(b, waiting, flying \cup {order}, n + 1)
<1> DEFINE id == n + 1
<1>1. id \in 1..id /\ \A i \in 1..n : i # id
  BY DEF OrdersOK
<1>2. OrdersOK(b, waiting, flying, id)
  BY NewOrderHandled, Requests DEF CertBuy
<1>3. \A i \in Ids(b) : i # id
  BY DEF OrdersOK
<1> HIDE DEF id
<1>4. order.id = id
  BY DEF id
<1>5. \A o \in waiting \cup flying : o.id # id
  BY <1>1 DEF OrdersOK
<1>6. OrdersOK(b, waiting, flying \cup {order}, id)
  BY <1>1, <1>2, <1>3, <1>4, <1>5 DEF OrdersOK
<1> QED
  BY <1>6 DEF id

\* Orders that nobody hears of any more.
LEMMA FewerFlying ==
    ASSUME NEW b, NEW waiting, NEW flying, NEW n, OrdersOK(b, waiting, flying, n),
           NEW fewer \in SUBSET flying
    PROVE  OrdersOK(b, waiting, fewer, n)
BY DEF OrdersOK

LEMMA LoadInitial == Init => LoadInv
<1> SUFFICES ASSUME Init PROVE LoadInv
  OBVIOUS
<1>1. BotInv
  BY BotInitial
<1>2. worker \in BOOLEAN /\ disturbed \in 0..MaxDisturbed
  <2>1. MaxDisturbed \in Nat
    BY LoadAssumption
  <2>2. disturbed \in {0} \/ disturbed \in 0..Min({1, MaxDisturbed})
    BY DEF Init
  <2>3. Min({1, MaxDisturbed}) = IF 1 <= MaxDisturbed THEN 1 ELSE MaxDisturbed
    BY <2>1, MinOfTwo
  <2>4. disturbed \in 0..MaxDisturbed
    BY <2>1, <2>2, <2>3
  <2> QED
    BY <2>4 DEF Init
<1>3. CertOK
  <2>1. CertPasses \in Nat /\ CertPasses >= 1
    BY LoadAssumption
  <2> QED
    BY <2>1 DEF Init, CertOK, NoCert
<1>4. OrdersOK(book, late, inflight, lastId)
  <2>1. ToSet(<<>>) = {} /\ Apart(<<>>) /\ <<>> \in Seq(Resting)
    BY DEF ToSet, Apart
  <2>2. BookOK(EmptyBook) /\ Ids(EmptyBook) = {}
    BY <2>1 DEF BookOK, Book, Uncrossed, Ids, EmptyBook
  <2>3. BookOK(UsedBook) /\ Ids(UsedBook) = {0}
    <3> DEFINE o == [id |-> 0, price |-> CHOOSE p \in Prices : TRUE,
                     quantity |-> CHOOSE q \in Quantities : TRUE]
    <3>1. o \in Resting /\ o.id = 0
      <4> DEFINE p == CHOOSE x \in Prices : TRUE
                 q == CHOOSE x \in Quantities : TRUE
      <4>1. p \in Prices /\ q \in Quantities
        BY LoadAssumption
      <4>2. o = [id |-> 0, price |-> p, quantity |-> q]
        OBVIOUS
      <4> HIDE DEF p, q, o
      <4>3. p \in Nat /\ q \in Nat \ {0}
        BY <4>1, LoadAssumption
      <4> QED
        BY <4>2, <4>3 DEF Resting
    <3>2. UsedBook = [bids |-> <<>>, asks |-> <<o>>]
      <4> DEFINE s == <<o>>
      <4>1. UsedBook = [EmptyBook EXCEPT !.asks = s]
        BY DEF UsedBook
      <4> HIDE DEF s
      <4>2. UsedBook = [bids |-> <<>>, asks |-> s]
        BY <4>1 DEF EmptyBook
      <4> QED
        BY <4>2 DEF s
    <3> HIDE DEF o
    <3>3. ToSet(<<o>>) = {o} /\ Apart(<<o>>) /\ <<o>> \in Seq(Resting)
      BY <3>1 DEF ToSet, Apart
    <3>4. UsedBook.bids = <<>> /\ UsedBook.asks = <<o>> /\ UsedBook \in Book
      BY <2>1, <3>2, <3>3 DEF Book
    <3>5. Ids(UsedBook) = {0}
      BY <2>1, <3>1, <3>3, <3>4 DEF Ids
    <3> QED
      BY <2>1, <3>3, <3>4, <3>5 DEF BookOK, Uncrossed
  <2>4. lastId = 0 /\ late = {} /\ inflight = {} /\ (book = EmptyBook \/ book = UsedBook)
    BY DEF Init
  <2> QED
    BY <2>2, <2>3, <2>4 DEF OrdersOK
<1> QED
  BY <1>1, <1>2, <1>3, <1>4 DEF LoadInv

\* An order of the certification that is not answered.
LEMMA UnansweredOrders ==
    ASSUME OrdersOK(book, late, inflight, lastId), NEW req \in {CertBuy, CertSweep},
           Unanswered(NewOrder(req)), lastId' = lastId + 1, UNCHANGED inflight
    PROVE  OrdersOK(book, late, inflight, lastId)'
<1> DEFINE order == NewOrder(req)
<1>1. req \in AnyReq
  BY Requests
<1>2. order.id = lastId + 1 /\ order.req = req
  BY DEF NewOrder
<1>3. order \in Sent
  BY DEF NewOrder, Sent, OrdersOK
<1> HIDE DEF order
<1>4. \/ late' = late \cup {order} /\ book' = book
      \/ book' = book /\ late' = late
      \/ book' = ProcessOrder(book, req, lastId + 1).book /\ late' = late
  BY <1>2 DEF Unanswered, order
<1>5. OrdersOK(book, late \cup {order}, inflight, lastId + 1)
  BY <1>2, <1>3, NewOrderLate
<1>6. /\ OrdersOK(book, late, inflight, lastId + 1)
      /\ OrdersOK(ProcessOrder(book, req, lastId + 1).book, late, inflight, lastId + 1)
  BY <1>1, NewOrderHandled
<1>7. OrdersOK(book', late', inflight', lastId')
  BY <1>4, <1>5, <1>6
<1> QED
  BY <1>7

LEMMA CertificationStep ==
    ASSUME LoadInv, Certification
    PROVE  /\ disturbed' \in 0..MaxDisturbed /\ worker' \in BOOLEAN
           /\ CertOK' /\ OrdersOK(book, late, inflight, lastId)'
<1>1. /\ worker \in BOOLEAN /\ disturbed \in 0..MaxDisturbed /\ CertOK
      /\ OrdersOK(book, late, inflight, lastId) /\ lastId \in Nat /\ MaxDisturbed \in Nat
      /\ CertPasses \in Nat /\ Certifying
  BY LoadAssumption DEF LoadInv, OrdersOK, Certification, SendBuy, SweepAnswered, SweepUnanswered
<1>2. ASSUME NEW req, Unanswered(NewOrder(req)) PROVE disturbed' \in 0..MaxDisturbed
  BY <1>1, <1>2 DEF Unanswered
<1>3. cert.pass \in 1..CertPasses /\ cert.passed \in 0..CertPasses /\ cert.passed <= cert.pass - 1
      /\ cert.expected \in Seq(Nat) /\ cert.attempted \in BOOLEAN
      /\ cert.pass + 1 \in 1..CertPasses + 1 /\ cert.passed + 1 \in 0..CertPasses
      /\ cert.passed + 1 <= (cert.pass + 1) - 1 /\ cert.passed <= (cert.pass + 1) - 1
      /\ cert.passed + 0 = cert.passed /\ <<>> \in Seq(Nat)
  BY <1>1 DEF CertOK, Certifying
<1>4. CASE SendBuy
  <2>1. CertOK'
    <3>1. Append(cert.expected, lastId') \in Seq(Nat)
      BY <1>1, <1>3, <1>4 DEF SendBuy
    <3> DEFINE e == Append(cert.expected, lastId')
    <3>2. cert' = [cert EXCEPT !.expected = e]
      BY <1>4 DEF SendBuy
    <3> HIDE DEF e
    <3>3. cert'.pass = cert.pass /\ cert'.passed = cert.passed
      BY <1>1, <3>2 DEF CertOK
    <3>4. cert' \in [pass : 1..CertPasses + 1, expected : Seq(Nat), passed : 0..CertPasses,
                     attempted : BOOLEAN]
      BY <1>1, <3>1, <3>2 DEF CertOK, e
    <3> QED
      BY <1>1, <3>3, <3>4 DEF CertOK
  <2>2. CertBuy \in AnyReq
    BY Requests
  <2>3. OrdersOK(book', late', inflight', lastId')
    <3>1. CASE book' = ProcessOrder(book, CertBuy, lastId').book /\ UNCHANGED <<late, disturbed>>
      <4>1. lastId' = lastId + 1 /\ inflight' = inflight /\ late' = late
        BY <1>4, <3>1 DEF SendBuy
      <4>2. book' = ProcessOrder(book, CertBuy, lastId + 1).book
        BY <3>1, <4>1
      <4> QED
        BY <1>1, <2>2, <4>1, <4>2, NewOrderHandled
    <3>2. CASE Unanswered(NewOrder(CertBuy))
      BY <1>1, <1>4, <3>2, UnansweredOrders DEF SendBuy
    <3> QED
      BY <1>4, <3>1, <3>2 DEF SendBuy
  <2>4. disturbed' \in 0..MaxDisturbed /\ worker' \in BOOLEAN
    BY <1>1, <1>2, <1>4 DEF SendBuy
  <2> QED
    BY <2>1, <2>3, <2>4
<1>5. CASE SweepAnswered
  <2> DEFINE answer == ProcessOrder(book, CertSweep, lastId + 1).answer
             hit == answer.ids = cert.expected
             named == answer.ids # <<>>
  <2>0. /\ lastId' = lastId + 1 /\ inflight' = inflight /\ late' = late /\ worker' = worker
        /\ disturbed' = disturbed
        /\ book' = ProcessOrder(book, CertSweep, lastId + 1).book
        /\ cert' = [NextPass EXCEPT !.attempted = @ \/ named, !.passed = @ + IF hit THEN 1 ELSE 0]
    BY <1>5 DEF SweepAnswered
  <2>1. CertOK'
    <3>1. NextPass = [pass |-> cert.pass + 1, expected |-> <<>>, passed |-> cert.passed,
                      attempted |-> cert.attempted]
      <4> DEFINE e == <<>>
                 p == cert.pass + 1
      <4>1. NextPass = [cert EXCEPT !.pass = p, !.expected = e]
        BY DEF NextPass
      <4> HIDE DEF e, p
      <4>2. NextPass = [pass |-> p, expected |-> e, passed |-> cert.passed, attempted |-> cert.attempted]
        BY <1>1, <4>1 DEF CertOK
      <4> QED
        BY <4>2 DEF e, p
    <3> DEFINE passed == cert.passed + IF hit THEN 1 ELSE 0
    <3>2. cert' = [pass |-> cert.pass + 1, expected |-> <<>>, passed |-> passed,
                   attempted |-> cert.attempted \/ named]
      BY <2>0, <3>1
    <3>3. passed \in 0..CertPasses /\ passed <= (cert.pass + 1) - 1
      <4>1. CASE hit
        BY <1>3, <4>1
      <4>2. CASE ~hit
        BY <1>3, <4>2
      <4> QED
        BY <4>1, <4>2
    <3> HIDE DEF passed, named
    <3> QED
      BY <1>3, <3>2, <3>3 DEF CertOK
  <2>2. OrdersOK(book', late', inflight', lastId')
    <3>1. CertSweep \in AnyReq
      BY Requests
    <3> QED
      BY <1>1, <2>0, <3>1, NewOrderHandled
  <2> QED
    BY <1>1, <2>0, <2>1, <2>2
<1>6. CASE SweepUnanswered
  <2>1. CertOK'
    <3>1. cert' = [pass |-> cert.pass + 1, expected |-> <<>>, passed |-> cert.passed,
                   attempted |-> cert.attempted]
      BY <1>1, <1>6 DEF SweepUnanswered, NextPass, CertOK
    <3> QED
      BY <1>3, <3>1 DEF CertOK
  <2>2. OrdersOK(book, late, inflight, lastId)'
    BY <1>1, <1>6, UnansweredOrders DEF SweepUnanswered
  <2> QED
    BY <1>1, <1>2, <1>6, <2>1, <2>2 DEF SweepUnanswered
<1> QED
  BY <1>4, <1>5, <1>6 DEF Certification

LEMMA BotOrders ==
    ASSUME LoadInv, Bot \/ Cancel \/ WorkerEnds \/ TimePasses
                      \/ (\E order \in late : LateHandled(order))
                      \/ (\E o \in inflight : Answered(o) \/ TimedOut(o))
    PROVE  OrdersOK(book, late, inflight, lastId)'
<1>1. OrdersOK(book, late, inflight, lastId) /\ lastId \in Nat /\ inflight \subseteq InFlight
  BY DEF LoadInv, OrdersOK, BotInv, ClockOK
<1>2. CASE Start \/ TakeTick
  BY <1>1, <1>2 DEF Start, TakeTick
<1>3. ASSUME NEW req \in Request, Fire(req) PROVE OrdersOK(book, late, inflight, lastId)'
  <2> DEFINE order == [id |-> lastId + 1, req |-> req, left |-> Timeout]
  <2>1. order.id = lastId + 1
    OBVIOUS
  <2>2. book' = book /\ late' = late /\ lastId' = lastId + 1 /\ inflight' = inflight \cup {order}
    BY <1>3 DEF Fire
  <2> HIDE DEF order
  <2>3. OrdersOK(book', late', inflight', lastId')
    BY <1>1, <2>1, <2>2, NewOrderFlying
  <2> QED
    BY <2>3
<1>4. CASE Cancel \/ WorkerEnds
  <2>1. book' = book /\ late' = late /\ lastId' = lastId /\ inflight' = {} /\ {} \in SUBSET inflight
    BY <1>4 DEF Cancel, WorkerEnds
  <2>2. OrdersOK(book', late', inflight', lastId')
    BY <1>1, <2>1, FewerFlying
  <2> QED
    BY <2>2
<1>5. CASE TimePasses
  <2> DEFINE aged(o) == [o EXCEPT !.left = @ - 1]
  <2>1. book' = book /\ late' = late /\ lastId' = lastId /\ inflight' = {aged(o) : o \in inflight}
    BY <1>5 DEF TimePasses
  <2>2. \A o \in inflight : aged(o).id = o.id
    BY <1>1 DEF InFlight
  <2> HIDE DEF aged
  <2>3. \A p \in inflight' : \E o \in inflight : p = aged(o) /\ p.id = o.id
    BY <2>1, <2>2
  <2>4. OrdersOK(book, late, inflight', lastId)
    BY <1>1, <2>3 DEF OrdersOK
  <2> QED
    BY <2>1, <2>4
<1>6. ASSUME NEW order \in late, LateHandled(order) PROVE OrdersOK(book, late, inflight, lastId)'
  <2>1. book' = ProcessOrder(book, order.req, order.id).book /\ late' = late \ {order}
        /\ inflight' = inflight /\ lastId' = lastId
    BY <1>6 DEF LateHandled
  <2>2. OrdersOK(book', late', inflight', lastId')
    BY <1>1, <2>1, LateOrder
  <2> QED
    BY <2>2
<1>7. ASSUME NEW o \in inflight, Answered(o) \/ TimedOut(o) PROVE OrdersOK(book, late, inflight, lastId)'
  <2>1. /\ book' = book \/ book' = ProcessOrder(book, o.req, o.id).book
        /\ late' = late /\ inflight' = inflight \ {o} /\ lastId' = lastId
    BY <1>7 DEF Answered, TimedOut
  <2>2. o.req \in AnyReq
    BY <1>1, Requests DEF InFlight
  <2>3. OrdersOK(ProcessOrder(book, o.req, o.id).book, late, inflight \ {o}, lastId)
    BY <1>1, <2>2, FlyingOrder
  <2>4. OrdersOK(book, late, inflight \ {o}, lastId)
    <3>1. inflight \ {o} \in SUBSET inflight
      OBVIOUS
    <3> QED
      BY <1>1, <3>1, FewerFlying
  <2>5. OrdersOK(book', late', inflight', lastId')
    BY <2>1, <2>3, <2>4
  <2> QED
    BY <2>5
<1> QED
  BY <1>2, <1>3, <1>4, <1>5, <1>6, <1>7 DEF Bot

LEMMA LoadInvariant == Spec => []LoadInv
<1>1. LoadInv /\ [Next]_vars => LoadInv'
  <2> SUFFICES ASSUME LoadInv, [Next]_vars PROVE LoadInv'
    OBVIOUS
  <2>1. BotInv'
    BY BotStep DEF LoadInv
  <2>2. CASE Certification
    BY <2>1, <2>2, CertificationStep DEF LoadInv
  <2> DEFINE Other == Bot \/ Cancel \/ WorkerEnds \/ TimePasses
                        \/ (\E order \in late : LateHandled(order))
                        \/ (\E o \in inflight : Answered(o) \/ TimedOut(o))
  <2>3. CASE Other
    <3>1. OrdersOK(book, late, inflight, lastId)'
      BY <2>3, BotOrders
    <3>2. disturbed' = disturbed /\ worker' = worker /\ (cert' = cert \/ cert' = NoCert)
      BY <2>3 DEF Bot, Start, TakeTick, Fire, Cancel, WorkerEnds, TimePasses, LateHandled, Answered,
                  TimedOut, certifying
    <3>3. CertOK'
      <4>1. CertPasses \in Nat /\ CertPasses >= 1
        BY LoadAssumption
      <4>2. CASE cert' = cert
        BY <4>2 DEF LoadInv, CertOK
      <4>3. CASE cert' = NoCert
        BY <4>1, <4>3 DEF CertOK, NoCert
      <4> QED
        BY <3>2, <4>2, <4>3
    <3> QED
      BY <2>1, <3>1, <3>2, <3>3 DEF LoadInv
  <2>4. CASE UNCHANGED vars
    BY <2>1, <2>4 DEF LoadInv, vars, certifying, CertOK, clock
  <2>5. Certification \/ Other \/ UNCHANGED vars
    BY DEF Next
  <2> QED
    BY <2>2, <2>3, <2>4, <2>5
<1> QED
  BY <1>1, LoadInitial, PTL DEF Spec

(***************************************************************************)
(* What the load test says of the order book                               *)
(***************************************************************************)
\* TypeOK holds in every run: above all an order is in one place only, in the book, on
\* its way from fireOrder, or given up by runCertification and still to arrive.
THEOREM LoadTypes == Spec => []TypeOK
<1>1. LoadInv => TypeOK
  <2> SUFFICES ASSUME LoadInv PROVE TypeOK
    OBVIOUS
  <2>1. /\ ClockOK /\ CertOK /\ worker \in BOOLEAN /\ disturbed \in 0..MaxDisturbed
        /\ OrdersOK(book, late, inflight, lastId)
    BY DEF LoadInv, BotInv
  <2>2. book.bids \in Seq(Resting) /\ book.asks \in Seq(Resting) /\ BookOK(book) /\ late \subseteq Sent
    BY <2>1 DEF OrdersOK, BookOK, Book
  <2>3. inflight \subseteq [id : Nat, req : Request, left : 0..Timeout]
    BY <2>1 DEF ClockOK, InFlight
  <2> DEFINE resting == ToSet(book.bids) \cup ToSet(book.asks)
  <2>4. \A o, p \in resting : o.id = p.id => o = p
    <3>1. \A o, p \in ToSet(book.bids) : o.id = p.id => o = p
      BY <2>2 DEF BookOK, Apart, ToSet
    <3>2. \A o, p \in ToSet(book.asks) : o.id = p.id => o = p
      BY <2>2 DEF BookOK, Apart, ToSet
    <3> QED
      BY <2>2, <3>1, <3>2 DEF BookOK
  <2>5. \A o \in resting, p \in late \cup inflight : o.id # p.id
    BY <2>1 DEF OrdersOK, Ids
  <2>6. \A o, p \in late \cup inflight : o.id = p.id => o = p
    BY <2>1 DEF OrdersOK
  <2> HIDE DEF resting
  <2>7. \A o, p \in resting \cup late \cup inflight : o.id = p.id => o = p
    BY <2>4, <2>5, <2>6
  <2> QED
    BY <2>1, <2>2, <2>3, <2>7 DEF TypeOK, ClockOK, CertOK, resting
<1> QED
  BY <1>1, LoadInvariant, PTL

\* The id of the next order is new to the book.
LEMMA NextIdFresh ==
    ASSUME LoadInv
    PROVE  BookOK(book) /\ lastId + 1 \in Nat /\ lastId + 1 \notin Ids(book)
<1>1. OrdersOK(book, late, inflight, lastId)
  BY DEF LoadInv
<1>2. lastId \in Nat /\ \A i \in 0..lastId : i # lastId + 1
  BY <1>1 DEF OrdersOK
<1> QED
  BY <1>1, <1>2 DEF OrdersOK

\* HonestIsCorrect holds for all prices and quantities and in every state the book
\* can be in: fireOrder judges every answer of ProcessOrder correct.
THEOREM HonestBook == Spec => []HonestIsCorrect
<1>1. LoadInv => HonestIsCorrect
  <2> SUFFICES ASSUME LoadInv, NEW req \in Request
               PROVE  Judge(ProcessOrder(book, req, lastId + 1).answer, req.quantity)
    BY DEF HonestIsCorrect
  <2>1. req \in AnyReq
    BY Requests
  <2> QED
    BY <2>1, NextIdFresh, Processed
<1> QED
  BY <1>1, LoadInvariant, PTL

\* MatchesByPriority holds for all prices and quantities and in every state the book
\* can be in: the sorting and the loop of ProcessOrder give an order exactly the
\* resting orders that it reaches by price and time, the best one first, move every unit and lose none,
\* and leave no two orders that could be matched.
THEOREM PriorityKept == Spec => []MatchesByPriority
<1>1. LoadInv => MatchesByPriority
  <2> SUFFICES ASSUME LoadInv, NEW req \in Request \cup {CertBuy, CertSweep}, req.type # "cancel"
               PROVE  LET done    == ProcessOrder(book, req, lastId + 1)
                          other   == Side(req, FALSE)
                          reached == Reached(req, other)
                      IN  /\ ToSet(done.answer.ids) = {other[i].id : i \in reached}
                          /\ InOrder(req.side, other, reached, done.answer.ids)
                          /\ done.answer.filled = Min({req.quantity, Quantity(other, reached)})
                          /\ Whole(done.book.bids) + Whole(done.book.asks) + 2 * done.answer.filled =
                                Whole(book.bids) + Whole(book.asks)
                                  + IF req.type = "limit" THEN req.quantity ELSE done.answer.filled
                          /\ \A b \in ToSet(done.book.bids), a \in ToSet(done.book.asks) :
                                b.price < a.price
    BY DEF MatchesByPriority
  <2>1. req \in AnyReq
    BY Requests
  <2> DEFINE done == ProcessOrder(book, req, lastId + 1)
             other == IF req.side = "buy" THEN book.asks ELSE book.bids
  <2>2. Side(req, FALSE) = other
    BY DEF Side
  <2>3. /\ BookOK(done.book)
        /\ ToSet(done.answer.ids) = {other[i].id : i \in Reached(req, other)}
        /\ InOrder(req.side, other, Reached(req, other), done.answer.ids)
        /\ done.answer.filled = Min({req.quantity, Quantity(other, Reached(req, other))})
        /\ Whole(done.book.bids) + Whole(done.book.asks) + 2 * done.answer.filled =
              Whole(book.bids) + Whole(book.asks)
                + IF req.type = "limit" THEN req.quantity ELSE done.answer.filled
    <3>1. BookOK(done.book) /\ Rightly(req, book, done)
      BY <2>1, NextIdFresh, Processed
    <3> HIDE DEF done
    <3> QED
      BY <3>1 DEF Rightly
  <2>4. \A b \in ToSet(done.book.bids), a \in ToSet(done.book.asks) : b.price < a.price
    BY <2>3 DEF BookOK, Uncrossed
  <2> HIDE DEF done, other
  <2> QED
    BY <2>2, <2>3, <2>4 DEF done
<1> QED
  BY <1>1, LoadInvariant, PTL

(***************************************************************************)
(* The certification of an undisturbed container                           *)
(***************************************************************************)
\* The book that holds the buys of a pass.
CertBids(e) == [i \in 1..Len(e) |-> [id |-> e[i], price |-> CertPrice, quantity |-> 1]]
CertBook(e) == [bids |-> CertBids(e), asks |-> <<>>]

LEMMA CertBidsType ==
    ASSUME NEW e \in Seq(Nat)
    PROVE  CertBids(e) \in Seq(Resting) /\ Len(CertBids(e)) = Len(e) /\ DOMAIN CertBids(e) = 1..Len(e)
<1> DEFINE n == Len(e)
<1>1. n \in Nat /\ \A i \in 1..n : e[i] \in Nat
  OBVIOUS
<1>2. CertPrice \in Nat
  BY LoadAssumption
<1> HIDE DEF n
<1>3. \A i \in 1..n : [id |-> e[i], price |-> CertPrice, quantity |-> 1] \in Resting
  BY <1>1, <1>2 DEF Resting
<1>4. [i \in 1..n |-> [id |-> e[i], price |-> CertPrice, quantity |-> 1]] \in [1..n -> Resting]
  BY <1>3
<1>5. CertBids(e) \in [1..n -> Resting]
  BY <1>4 DEF CertBids, n
<1>6. CertBids(e) \in Seq(Resting) /\ Len(CertBids(e)) = n /\ DOMAIN CertBids(e) = 1..n
  BY <1>1, <1>5
<1> QED
  BY <1>6 DEF n

\* A buy joins the others.
LEMMA CertBuyJoins ==
    ASSUME NEW e \in Seq(Nat), NEW id \in Nat
    PROVE  ProcessOrder(CertBook(e), CertBuy, id).book = CertBook(Append(e, id))
<1> DEFINE b == CertBook(e)
           new == [id |-> id, price |-> CertPrice, quantity |-> 1]
           more == Append(e, id)
<1>1. Match(CertBuy, <<>>) = Begun(CertBuy)
  <2>1. <<>> \in Seq(Resting) /\ Len(<<>>) = 0
    OBVIOUS
  <2> DEFINE queue == Sorted(CertBuy.side, <<>>)
  <2>2. Len(queue) = 0
    BY <2>1, SortedIs
  <2> HIDE DEF queue
  <2>3. Loop(CertBuy, queue)[0] = Begun(CertBuy)
    BY <2>2, LoopIs
  <2> QED
    BY <2>1, <2>3 DEF Match, queue
<1>2. CertBuy.side = "buy" /\ CertBuy.type = "limit" /\ CertBuy.price = CertPrice
      /\ CertBuy.quantity = 1
  BY DEF CertBuy
<1>3. b.bids = CertBids(e) /\ b.asks = <<>>
  BY DEF CertBook
<1>4. Begun(CertBuy).left = 1 /\ Begun(CertBuy).rest = <<>>
  BY <1>2 DEF Begun
<1> HIDE DEF b
<1>5. ProcessOrder(b, CertBuy, id).book = [bids |-> b.bids \o <<new>>, asks |-> <<>>]
  <2> DEFINE m == Match(CertBuy, b.asks)
  <2>1. ProcessOrder(b, CertBuy, id).book =
           [bids |-> b.bids \o Left(CertBuy, id, m.left), asks |-> m.rest]
    BY <1>2 DEF ProcessOrder, Left
  <2>2. m.left = 1 /\ m.rest = <<>>
    BY <1>1, <1>3, <1>4
  <2> HIDE DEF m
  <2>3. Left(CertBuy, id, m.left) = <<new>>
    BY <1>2, <2>2 DEF Left
  <2> QED
    BY <2>1, <2>2, <2>3
<1>6. CertBids(e) \o <<new>> = CertBids(more)
  <2>1. CertBids(e) \in Seq(Resting) /\ Len(CertBids(e)) = Len(e)
    BY CertBidsType
  <2>2. more \in Seq(Nat) /\ Len(more) = Len(e) + 1 /\ Len(e) \in Nat
    OBVIOUS
  <2>3. CertBids(more) \in Seq(Resting) /\ Len(CertBids(more)) = Len(e) + 1
    BY <2>2, CertBidsType
  <2>4. new \in Resting
    BY LoadAssumption DEF Resting
  <2>5. \A i \in 1..Len(e) + 1 : more[i] = IF i <= Len(e) THEN e[i] ELSE id
    OBVIOUS
  <2> DEFINE s == CertBids(e)
             t == CertBids(more)
             n == Len(e)
  <2>6. \A i \in 1..n : s[i] = [id |-> e[i], price |-> CertPrice, quantity |-> 1]
    BY DEF CertBids
  <2>7. \A i \in 1..n + 1 : t[i] = [id |-> more[i], price |-> CertPrice, quantity |-> 1]
    BY <2>2 DEF CertBids
  <2>8. \A i \in 1..n + 1 : t[i] = IF i <= n THEN s[i] ELSE new
    <3> SUFFICES ASSUME NEW i \in 1..n + 1 PROVE t[i] = IF i <= n THEN s[i] ELSE new
      OBVIOUS
    <3>1. n \in Nat
      BY <2>2
    <3> HIDE DEF s, t, more, n
    <3>2. CASE i <= n
      <4>1. i \in 1..n /\ more[i] = e[i]
        BY <2>5, <3>1, <3>2 DEF n
      <4> QED
        BY <2>6, <2>7, <3>2, <4>1
    <3>3. CASE ~(i <= n)
      <4>1. more[i] = id
        BY <2>5, <3>3 DEF n
      <4> QED
        BY <2>7, <3>3, <4>1
    <3> QED
      BY <3>2, <3>3
  <2> HIDE DEF s, t, n, new, more
  <2>9. s \in Seq(Resting) /\ t \in Seq(Resting) /\ Len(s) = n /\ Len(t) = n + 1 /\ n \in Nat
    BY <2>1, <2>2, <2>3 DEF s, t, n
  <2>10. s \o <<new>> \in Seq(Resting) /\ Len(s \o <<new>>) = n + 1
    BY <2>4, <2>9
  <2>11. \A i \in 1..n + 1 : (s \o <<new>>)[i] = t[i]
    BY <2>4, <2>8, <2>9
  <2>12. s \o <<new>> = t
    BY <2>9, <2>10, <2>11
  <2> QED
    BY <2>12 DEF s, t
<1> QED
  BY <1>3, <1>5, <1>6 DEF CertBook, b

\* The buys have one price: sorting leaves them as they are.
LEMMA CertSorted ==
    ASSUME NEW e \in Seq(Nat), NEW side
    PROVE  \A k \in 1..Len(e) : Nth(side, CertBids(e), k) = k
<1> DEFINE s == CertBids(e)
           n == Len(e)
<1>1. s \in Seq(Resting) /\ Len(s) = n /\ DOMAIN s = 1..n /\ n \in Nat
  BY CertBidsType
<1>2. \A i \in 1..n : s[i].price = CertPrice
  BY DEF CertBids
<1> HIDE DEF s, n
<1> SUFFICES ASSUME NEW k \in 1..n PROVE Nth(side, s, k) = k
  BY DEF s, n
<1>3. \A j \in 1..n : Before(side, s, j, k) <=> j < k
  <2>1. CertPrice \in Int
    BY LoadAssumption
  <2> QED
    BY <1>2, <2>1 DEF Before
<1>4. {j \in DOMAIN s : Before(side, s, j, k)} = 1..k - 1
  <2>1. k \in Nat /\ k <= n
    BY <1>1
  <2>2. \A j : j \in 1..n /\ j < k <=> j \in 1..k - 1
    BY <1>1, <2>1
  <2>3. \A j : j \in {i \in DOMAIN s : Before(side, s, i, k)} <=> j \in 1..n /\ j < k
    BY <1>1, <1>3
  <2> QED
    BY <2>2, <2>3
<1>5. Cardinality(1..k - 1) = k - 1
  <2>1. k - 1 \in Nat
    BY <1>1
  <2> DEFINE m == k - 1
  <2> HIDE DEF m
  <2>2. Cardinality(1..m) = IF 1 > m THEN 0 ELSE m - 1 + 1
    BY <2>1, FS_Interval DEF m
  <2>3. Cardinality(1..m) = m
    BY <2>1, <2>2 DEF m
  <2> QED
    BY <2>3 DEF m
<1>6. Rank(side, s, k) = k - 1
  BY <1>4, <1>5 DEF Rank
<1>7. Nth(side, s, Rank(side, s, k) + 1) = k
  BY <1>1, RanksCount
<1>8. (k - 1) + 1 = k
  BY <1>1
<1> QED
  BY <1>6, <1>7, <1>8

\* The sweep takes them one by one and nothing is left.
LEMMA CertSweepTakes ==
    ASSUME NEW e \in Seq(Nat), Len(e) = CertOrders, NEW id \in Nat
    PROVE  /\ ProcessOrder(CertBook(e), CertSweep, id).book = CertBook(<<>>)
           /\ ProcessOrder(CertBook(e), CertSweep, id).answer.ids = e
<1> DEFINE s == CertBids(e)
           b == CertBook(e)
           n == CertOrders
           queue == Sorted(CertSweep.side, s)
           loop == Loop(CertSweep, queue)
           after(k) == [left |-> n - k, ids |-> [i \in 1..k |-> e[i]], rest |-> <<>>]
           Follows(k) == k <= n => loop[k] = after(k)
           T == {k \in Nat : Follows(k)}
<1>0. n \in Nat /\ \A i \in 1..n : e[i] \in Nat
  BY LoadAssumption
<1>1. s \in Seq(Resting) /\ Len(s) = n
  BY CertBidsType
<1>2. Len(queue) = n /\ \A k \in 1..n : queue[k] = s[Nth(CertSweep.side, s, k)]
  <2> HIDE DEF s, n
  <2> QED
    BY <1>1, SortedIs
<1>3. \A k \in 1..n : queue[k] = [id |-> e[k], price |-> CertPrice, quantity |-> 1]
  <2>1. \A k \in 1..n : Nth(CertSweep.side, s, k) = k
    BY CertSorted
  <2>2. \A k \in 1..n : s[k] = [id |-> e[k], price |-> CertPrice, quantity |-> 1]
    BY DEF CertBids
  <2> HIDE DEF s, queue
  <2> QED
    BY <1>2, <2>1, <2>2
<1>4. /\ CertSweep.type = "market" /\ CertSweep.side = "sell" /\ CertSweep.quantity = n
      /\ b.bids = s /\ b.asks = <<>>
  BY DEF CertSweep, CertBook
<1> HIDE DEF s, queue
<1>5. loop[0] = Begun(CertSweep) /\ \A k \in 1..n : loop[k] = Take(CertSweep, loop[k - 1], queue[k])
  <2> HIDE DEF n
  <2> QED
    BY <1>0, <1>2, LoopIs
<1> HIDE DEF loop
<1>6. Follows(0)
  <2>1. Begun(CertSweep) = [left |-> n, ids |-> <<>>, rest |-> <<>>]
    BY <1>4 DEF Begun
  <2>2. [i \in 1..0 |-> e[i]] = <<>> /\ n - 0 = n
    BY <1>0
  <2>3. loop[0] = after(0)
    BY <1>5, <2>1, <2>2
  <2> QED
    BY <2>3
<1>7. ASSUME NEW k \in Nat, Follows(k) PROVE Follows(k + 1)
  <2> SUFFICES ASSUME k + 1 <= n PROVE loop[k + 1] = after(k + 1)
    OBVIOUS
  <2>0. loop[k] = after(k)
    <3>1. k <= n
      BY <1>0
    <3> QED
      BY <1>7, <3>1
  <2> DEFINE o == [id |-> e[k + 1], price |-> CertPrice, quantity |-> 1]
             ids == [i \in 1..k |-> e[i]]
             left == n - k
  <2>1. k + 1 \in 1..n /\ (k + 1) - 1 = k /\ left \in Nat /\ left >= 1 /\ left - 1 = n - (k + 1)
    BY <1>0
  <2>2. loop[k + 1] = Take(CertSweep, after(k), o)
    <3> DEFINE l == k + 1
    <3>1. loop[l] = Take(CertSweep, loop[l - 1], queue[l]) /\ queue[l] = [id |-> e[l], price |-> CertPrice, quantity |-> 1]
      BY <1>3, <1>5, <2>1
    <3>2. loop[l - 1] = after(k)
      BY <2>0, <2>1
    <3> HIDE DEF after
    <3> QED
      BY <3>1, <3>2
  <2>3. Min({left, 1}) = 1
    <3> HIDE DEF left
    <3>1. Min({left, 1}) = IF left <= 1 THEN left ELSE 1
      BY <2>1, MinOfTwo
    <3> QED
      BY <2>1, <3>1
  <2>4. Crosses(CertSweep, o)
    BY <1>4 DEF Crosses
  <2>5. after(k) = [left |-> left, ids |-> ids, rest |-> <<>>]
    OBVIOUS
  <2>6. Append(ids, e[k + 1]) = [i \in 1..k + 1 |-> e[i]]
    <3> DEFINE t == [i \in 1..k + 1 |-> e[i]]
    <3>1. \A i \in 1..k + 1 : e[i] \in Nat
      BY <1>0
    <3>2. ids \in Seq(Nat) /\ Len(ids) = k /\ t \in Seq(Nat) /\ Len(t) = k + 1
      <4>1. ids \in [1..k -> Nat] /\ t \in [1..k + 1 -> Nat]
        BY <3>1
      <4> HIDE DEF ids, t
      <4> QED
        BY <4>1
    <3>3. \A i \in 1..k + 1 : t[i] = IF i <= k THEN ids[i] ELSE e[k + 1]
      OBVIOUS
    <3> HIDE DEF ids, t
    <3>4. Append(ids, e[k + 1]) \in Seq(Nat) /\ Len(Append(ids, e[k + 1])) = k + 1
      BY <3>1, <3>2
    <3>5. \A i \in 1..k + 1 : Append(ids, e[k + 1])[i] = t[i]
      BY <3>2, <3>3
    <3>6. Append(ids, e[k + 1]) = t
      BY <3>2, <3>4, <3>5
    <3> QED
      BY <3>6 DEF t
  <2>7. o.quantity = 1 /\ o.id = e[k + 1]
    OBVIOUS
  <2> HIDE DEF o, ids, left, after
  <2>8. Take(CertSweep, after(k), o) = [left |-> left - 1, ids |-> Append(ids, e[k + 1]), rest |-> <<>>]
    <3> DEFINE turn == after(k)
    <3>1. turn.left = left /\ turn.ids = ids /\ turn.rest = <<>>
      BY <2>5
    <3> HIDE DEF turn
    <3>2. Min({turn.left, o.quantity}) = 1 /\ turn.left # 0 /\ ~(o.quantity > 1)
      BY <2>1, <2>3, <2>7, <3>1
    <3>3. Take(CertSweep, turn, o) =
             [left |-> turn.left - 1, ids |-> Append(turn.ids, o.id), rest |-> turn.rest]
      BY <2>4, <3>2 DEF Take
    <3>4. Take(CertSweep, turn, o) = [left |-> left - 1, ids |-> Append(ids, e[k + 1]), rest |-> <<>>]
      BY <2>7, <3>1, <3>3
    <3> QED
      BY <3>4 DEF turn
  <2> QED
    BY <2>1, <2>2, <2>6, <2>8 DEF after
<1>8. T = Nat
  <2> HIDE DEF Follows
  <2>1. T \in SUBSET Nat /\ 0 \in T /\ \A k \in T : k + 1 \in T
    BY <1>6, <1>7
  <2> HIDE DEF T
  <2> QED
    BY <2>1, Counting
<1>9. loop[n] = after(n)
  <2>1. Follows(n)
    <3> HIDE DEF Follows
    <3> QED
      BY <1>0, <1>8
  <2> QED
    BY <1>0, <2>1
<1>10. Match(CertSweep, s) = [left |-> 0, ids |-> e, rest |-> <<>>]
  <2>1. n - n = 0 /\ [i \in 1..n |-> e[i]] = e
    BY <1>0
  <2>2. Match(CertSweep, s) = loop[n]
    BY <1>1 DEF Match, loop, queue
  <2> QED
    BY <1>9, <2>1, <2>2
<1> HIDE DEF b
<1>11. ProcessOrder(b, CertSweep, id).book = [bids |-> <<>>, asks |-> <<>> \o <<>>]
       /\ ProcessOrder(b, CertSweep, id).answer.ids = e
  BY <1>4, <1>10 DEF ProcessOrder, Answer
<1>12. CertBook(<<>>) = [bids |-> <<>>, asks |-> <<>>]
  <2>1. CertBids(<<>>) = <<>>
    BY DEF CertBids
  <2> QED
    BY <2>1 DEF CertBook
<1>13. <<>> \o <<>> = <<>>
  OBVIOUS
<1> QED
  BY <1>11, <1>12, <1>13 DEF b

\* While nothing has gone wrong every pass was passed, no order is late, and the book
\* holds the buys of this pass and nothing else.
Undisturbed ==
    disturbed = 0 =>
        /\ cert.passed = cert.pass - 1
        /\ cert.pass > 1 => cert.attempted
        /\ pc = "certify" => /\ late = {} /\ book = CertBook(cert.expected)
                             /\ Len(cert.expected) <= CertOrders

LEMMA UndisturbedSteps ==
    ASSUME LoadInv, Undisturbed, [Next]_vars
    PROVE  Undisturbed'
<1>1. disturbed \in Nat /\ CertOK /\ lastId \in Nat /\ CertOrders \in Nat /\ CertOrders >= 1
  <2>1. lastId \in Nat
    BY DEF LoadInv, OrdersOK
  <2> QED
    BY <2>1, LoadAssumption DEF LoadInv
<1>2. /\ cert.pass \in Nat /\ cert.passed \in Nat /\ cert.expected \in Seq(Nat)
      /\ cert.attempted \in BOOLEAN /\ Len(cert.expected) \in Nat
      /\ cert = [pass |-> cert.pass, expected |-> cert.expected, passed |-> cert.passed,
                 attempted |-> cert.attempted]
  <2>1. cert \in [pass : 1..CertPasses + 1, expected : Seq(Nat), passed : 0..CertPasses,
                  attempted : BOOLEAN]
    BY <1>1 DEF CertOK
  <2>2. CertPasses \in Nat
    BY LoadAssumption
  <2> QED
    BY <2>1, <2>2
<1> SUFFICES ASSUME disturbed' = 0 PROVE Undisturbed'
  BY DEF Undisturbed
<1>3. ASSUME NEW order, Unanswered(order) PROVE FALSE
  <2>1. disturbed' = disturbed + 1
    BY <1>3 DEF Unanswered
  <2> QED
    BY <1>1, <2>1
<1>4. CASE SendBuy
  <2> DEFINE e == Append(cert.expected, lastId')
  <2>1. /\ Certifying /\ Len(cert.expected) < CertOrders /\ lastId' = lastId + 1
        /\ cert' = [cert EXCEPT !.expected = e]
        /\ book' = ProcessOrder(book, CertBuy, lastId').book /\ UNCHANGED <<late, disturbed>>
        /\ pc' = pc
    BY <1>3, <1>4 DEF SendBuy
  <2>2. /\ cert.passed = cert.pass - 1 /\ (cert.pass > 1 => cert.attempted)
        /\ late = {} /\ book = CertBook(cert.expected)
    BY <2>1 DEF Undisturbed, Certifying
  <2>3. book' = CertBook(e)
    <3>1. lastId' \in Nat
      BY <1>1, <2>1
    <3> QED
      BY <1>2, <2>1, <2>2, <3>1, CertBuyJoins
  <2>4. Len(e) = Len(cert.expected) + 1
    BY <1>2
  <2> HIDE DEF e
  <2>5. cert'.pass = cert.pass /\ cert'.passed = cert.passed /\ cert'.attempted = cert.attempted
        /\ cert'.expected = e
    BY <1>2, <2>1
  <2>6. Len(e) <= CertOrders
    BY <1>1, <1>2, <2>1, <2>4
  <2> QED
    BY <2>1, <2>2, <2>3, <2>5, <2>6 DEF Undisturbed
<1>5. CASE SweepAnswered
  <2> DEFINE swept == ProcessOrder(book, CertSweep, lastId + 1)
             hit == swept.answer.ids = cert.expected
             named == swept.answer.ids # <<>>
  <2>0. cert \in [pass : 1..CertPasses + 1, expected : Seq(Nat), passed : 0..CertPasses,
                  attempted : BOOLEAN]
    BY <1>1 DEF CertOK
  <2>1. /\ Certifying /\ Len(cert.expected) = CertOrders /\ pc' = pc
        /\ late' = late /\ disturbed' = disturbed /\ book' = swept.book
        /\ cert' = [NextPass EXCEPT !.attempted = @ \/ named, !.passed = @ + IF hit THEN 1 ELSE 0]
    BY <1>5 DEF SweepAnswered
  <2>2. /\ cert.passed = cert.pass - 1 /\ late = {} /\ book = CertBook(cert.expected)
    BY <2>1 DEF Undisturbed, Certifying
  <2>3. swept.book = CertBook(<<>>) /\ swept.answer.ids = cert.expected
    BY <1>1, <1>2, <2>1, <2>2, CertSweepTakes
  <2>4. hit /\ named
    <3>1. Len(<<>>) = 0
      OBVIOUS
    <3> QED
      BY <1>1, <2>1, <2>3, <3>1
  <2>5. NextPass = [pass |-> cert.pass + 1, expected |-> <<>>, passed |-> cert.passed,
                    attempted |-> cert.attempted]
    <3> DEFINE e == <<>>
               p == cert.pass + 1
    <3>1. NextPass = [cert EXCEPT !.pass = p, !.expected = e]
      BY DEF NextPass
    <3> HIDE DEF e, p
    <3>2. NextPass = [pass |-> p, expected |-> e, passed |-> cert.passed, attempted |-> cert.attempted]
      BY <2>0, <3>1
    <3> QED
      BY <3>2 DEF e, p
  <2> HIDE DEF swept, hit, named
  <2>6. cert' = [pass |-> cert.pass + 1, expected |-> <<>>, passed |-> cert.passed + 1,
                 attempted |-> cert.attempted \/ named]
    BY <2>1, <2>4, <2>5
  <2>7. cert'.pass = cert.pass + 1 /\ cert'.passed = cert.passed + 1 /\ cert'.attempted
        /\ cert'.expected = <<>>
    BY <2>4, <2>6
  <2>8. cert.passed + 1 = (cert.pass + 1) - 1
    BY <1>2, <2>2
  <2>9. Len(<<>>) <= CertOrders
    BY <1>1
  <2> QED
    BY <2>1, <2>2, <2>3, <2>7, <2>8, <2>9 DEF Undisturbed
<1>6. CASE SweepUnanswered
  BY <1>3, <1>6 DEF SweepUnanswered
<1>7. CASE Start
  <2>1. cert' = NoCert /\ pc' = "select"
    BY <1>7 DEF Start
  <2> QED
    BY <2>1 DEF Undisturbed, NoCert
<1>8. CASE pc' # "certify" /\ cert' = cert /\ disturbed' = disturbed
  BY <1>8 DEF Undisturbed
<1>9. CASE UNCHANGED <<pc, cert, disturbed, late, book>>
  BY <1>9 DEF Undisturbed
<1>10. CASE TakeTick \/ (\E req \in Request : Fire(req)) \/ Cancel
  <2>1. pc' # "certify" /\ cert' = cert /\ disturbed' = disturbed
    BY <1>10 DEF TakeTick, Fire, Cancel, certifying
  <2> QED
    BY <1>8, <2>1
<1>11. CASE WorkerEnds \/ TimePasses
  <2>1. UNCHANGED <<pc, cert, disturbed, late, book>>
    BY <1>11 DEF WorkerEnds, TimePasses, certifying
  <2> QED
    BY <1>9, <2>1
<1>12. ASSUME NEW order \in late, LateHandled(order) PROVE Undisturbed'
  <2>1. pc' = pc /\ cert' = cert /\ disturbed' = disturbed
    BY <1>12 DEF LateHandled, certifying
  <2>2. pc # "certify"
    BY <1>12, <2>1 DEF Undisturbed
  <2> QED
    BY <1>8, <2>1, <2>2
<1>13. ASSUME NEW o \in inflight, Answered(o) \/ TimedOut(o) PROVE Undisturbed'
  <2>1. pc' = pc /\ cert' = cert /\ disturbed' = disturbed
    BY <1>13 DEF Answered, TimedOut, certifying
  <2>2. pc # "certify"
    BY <1>13 DEF LoadInv, BotInv, ClockOK
  <2> QED
    BY <1>8, <2>1, <2>2
<1>14. CASE UNCHANGED vars
  BY <1>9, <1>14 DEF vars, certifying
<1> QED
  BY <1>4, <1>5, <1>6, <1>7, <1>10, <1>11, <1>12, <1>13, <1>14 DEF Next, Certification, Bot

\* CertifiedInFull holds for every number of passes and orders: runCertification gives
\* the full score to a container that keeps price-time priority, unless an earlier run
\* used it or an order of the certification was not answered in time.
THEOREM Certified == Spec => []CertifiedInFull
<1>1. Init => Undisturbed
  <2> SUFFICES ASSUME Init, disturbed = 0 PROVE Undisturbed
    BY DEF Undisturbed
  <2>1. cert.pass = 1 /\ cert.passed = 0 /\ cert.expected = <<>> /\ late = {} /\ book = EmptyBook
    BY DEF Init, NoCert
  <2>2. CertBids(<<>>) = <<>>
    BY DEF CertBids
  <2>3. CertBook(<<>>) = EmptyBook
    BY <2>2 DEF CertBook, EmptyBook
  <2>4. Len(<<>>) <= CertOrders
    BY LoadAssumption
  <2> QED
    BY <2>1, <2>3, <2>4 DEF Undisturbed
<1>2. LoadInv /\ Undisturbed /\ [Next]_vars => Undisturbed'
  BY UndisturbedSteps
<1>3. LoadInv /\ Undisturbed => CertifiedInFull
  <2> SUFFICES ASSUME LoadInv, Undisturbed, cert.pass > CertPasses, disturbed = 0
               PROVE  CertScore = CertPasses
    BY DEF CertifiedInFull
  <2>1. CertPasses \in Nat /\ CertPasses >= 1 /\ cert.pass \in 1..CertPasses + 1
    BY LoadAssumption DEF LoadInv, CertOK
  <2>2. cert.pass = CertPasses + 1 /\ cert.pass > 1
    BY <2>1
  <2>3. cert.passed = cert.pass - 1 /\ cert.attempted
    BY <2>2 DEF Undisturbed
  <2> QED
    BY <2>1, <2>2, <2>3 DEF CertScore
<1> QED
  BY <1>1, <1>2, <1>3, LoadInvariant, PTL DEF Spec
=============================================================================

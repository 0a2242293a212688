------------------------------ MODULE LoadTest ------------------------------
(***************************************************************************)
(* What the coordinator sends to one container, and how it judges the      *)
(* answers: runCertification (botfleet/cmd/coordinator/main.go), then one  *)
(* bot (botfleet/internal/bot/runner.go), in the coordinator or in the     *)
(* worker binary (botfleet/cmd/worker/main.go).  The container holds the   *)
(* order book of OrderBook, and is slow or out of reach at times.          *)
(*                                                                         *)
(* Time passes in periods of the bot's ticker; the bot's own steps take    *)
(* none.  The certification is not timed.                                  *)
(***************************************************************************)
EXTENDS OrderBook, FiniteSets

CONSTANTS
    Prices, Quantities,   \* of the bot's orders (100 to 150, 1 to 100)
    CertPrice,            \* of the certification's (50000)
    CertOrders,           \* buys in a pass of the certification (5 in the code)
    CertPasses,           \* passes (3)
    Duration,             \* of the bot's run (60 s in the code)
    Slots,                \* of its semaphore (100)
    Timeout,              \* of its HTTP client (5 s)
    MaxDisturbed          \* bound on disturbed

ASSUME LoadAssumption ==
    /\ Prices # {} /\ Quantities # {}
    /\ Prices \cup Quantities \cup {CertPrice} \subseteq Nat \ {0}
    /\ {CertOrders, CertPasses, Timeout} \subseteq Nat \ {0} /\ {Duration, MaxDisturbed} \subseteq Nat
    /\ Slots \in Nat \ {0, 1}

VARIABLES
    book,       \* of the container
    lastId,     \* orders that were made so far
    late,       \* orders nobody waits for any more, and the container may still handle
    disturbed,  \* history: earlier runs on this book, and orders of the certification not answered
    cert,       \* runCertification
    pc,         \* of the bot, after the certification
    now,        \* periods since the bot began
    tick,       \* the time in the ticker's channel, or 0
    inflight,   \* the orders of fireOrder goroutines
    worker      \* whether the bot is the worker's

certifying == <<disturbed, cert>>
clock      == <<now, tick>>
vars       == <<book, lastId, late, certifying, pc, clock, inflight, worker>>

Request ==
    [type : {"limit"}, side : {"buy", "sell"}, price : Prices, quantity : Quantities]
    \cup [type : {"market"}, side : {"buy", "sell"}, price : {0}, quantity : Quantities]
    \cup [type : {"cancel"}, side : {"null"}, price : {0}, quantity : {0}]
CertBuy   == [type |-> "limit", side |-> "buy", price |-> CertPrice, quantity |-> 1]
CertSweep == [type |-> "market", side |-> "sell", price |-> 0, quantity |-> CertOrders]

Sent    == [id : Nat, req : Request \cup {CertBuy, CertSweep}]
Resting == [id : Nat, price : Nat, quantity : Nat \ {0}]

TypeOK ==
    /\ book.bids \in Seq(Resting) /\ book.asks \in Seq(Resting)
    /\ lastId \in Nat /\ late \subseteq Sent
    /\ disturbed \in 0..MaxDisturbed /\ worker \in BOOLEAN
    /\ cert \in [pass : 1..CertPasses + 1, expected : Seq(Nat), passed : 0..CertPasses,
                 attempted : BOOLEAN]
    /\ pc \in {"certify", "select", "acquire", "returned"}
    /\ now \in Nat /\ tick \in 0..now
    /\ inflight \subseteq [id : Nat, req : Request, left : 0..Timeout]
    \* an order is in one place only
    /\ LET resting == ToSet(book.bids) \cup ToSet(book.asks) IN
       \A o, p \in resting \cup late \cup inflight : o.id = p.id => o = p

\* A container that a run has used before: its coordinator died and handles the
\* event again.
UsedBook == [EmptyBook EXCEPT !.asks = <<[id |-> 0, price |-> CHOOSE p \in Prices : TRUE,
                                         quantity |-> CHOOSE q \in Quantities : TRUE]>>]

NoCert == [pass |-> 1, expected |-> <<>>, passed |-> 0, attempted |-> FALSE]

Init ==
    /\ worker \in BOOLEAN
    /\ pc = IF worker THEN "select" ELSE "certify"
    /\ disturbed \in IF worker THEN {0} ELSE 0..Min({1, MaxDisturbed})
    /\ book = IF disturbed = 0 THEN EmptyBook ELSE UsedBook
    /\ lastId = 0 /\ late = {} /\ inflight = {}
    /\ cert = NoCert
    /\ now = 0 /\ tick = 0

(***************************************************************************)
(* runCertification                                                        *)
(***************************************************************************)
\* What becomes of an order that is not answered: it does not arrive, it arrives
\* and the answer is lost, or the container takes longer than the client waits.
Unanswered(order) ==
    /\ disturbed < MaxDisturbed /\ disturbed' = disturbed + 1
    /\ \/ late' = late \cup {order} /\ UNCHANGED book
       \/ /\ book' \in {book, ProcessOrder(book, order.req, order.id).book}
          /\ UNCHANGED late

Certifying == pc = "certify" /\ cert.pass <= CertPasses
NewOrder(req) == [id |-> lastId + 1, req |-> req]

\* mutant: an order that was not answered in time is sent again
SendBuyTwice ==
    /\ Certifying /\ Len(cert.expected) < CertOrders
    /\ lastId' = lastId + 1
    /\ cert' = [cert EXCEPT !.expected = Append(@, lastId')]
    /\ book' = ProcessOrder(book, CertBuy, lastId').book
    /\ \/ UNCHANGED <<late, disturbed>>
       \/ /\ disturbed < MaxDisturbed /\ disturbed' = disturbed + 1
          /\ late' = late \cup {NewOrder(CertBuy)}
    /\ UNCHANGED <<pc, clock, inflight, worker>>

\* One of the buys of a pass; what it is answered is not looked at.
SendBuy ==
    /\ Certifying /\ Len(cert.expected) < CertOrders
    /\ lastId' = lastId + 1
    /\ cert' = [cert EXCEPT !.expected = Append(@, lastId')]
    /\ \/ /\ book' = ProcessOrder(book, CertBuy, lastId').book
          /\ UNCHANGED <<late, disturbed>>
       \/ Unanswered(NewOrder(CertBuy))
    /\ UNCHANGED <<pc, clock, inflight, worker>>

NextPass == [cert EXCEPT !.pass = @ + 1, !.expected = <<>>]

\* mutant: expectedOrder is declared before the loop
SweepAnsweredAppending ==
    LET swept == ProcessOrder(book, CertSweep, lastId + 1)
        ids   == swept.answer.ids
    IN  /\ Certifying /\ Len(cert.expected) >= CertOrders
        /\ lastId' = lastId + 1
        /\ book' = swept.book
        /\ cert' = [NextPass EXCEPT !.attempted = @ \/ ids # <<>>,
                                    !.passed = @ + IF ids = cert.expected THEN 1 ELSE 0,
                                    !.expected = SubSeq(cert.expected, 1, 1)]
        /\ UNCHANGED <<late, disturbed, pc, clock, inflight, worker>>

\* The sweep matches the buys of the pass in their order, or the pass fails.
SweepAnswered ==
    LET swept == ProcessOrder(book, CertSweep, lastId + 1)
        ids   == swept.answer.ids
    IN  /\ Certifying /\ Len(cert.expected) = CertOrders
        /\ lastId' = lastId + 1
        /\ book' = swept.book
        /\ cert' = [NextPass EXCEPT !.attempted = @ \/ ids # <<>>,
                                    !.passed = @ + IF ids = cert.expected THEN 1 ELSE 0]
        /\ UNCHANGED <<late, disturbed, pc, clock, inflight, worker>>

SweepUnanswered ==
    /\ Certifying /\ Len(cert.expected) = CertOrders
    /\ lastId' = lastId + 1
    /\ Unanswered(NewOrder(CertSweep))
    /\ cert' = NextPass
    /\ UNCHANGED <<pc, clock, inflight, worker>>

\* -1 when no answer named a matched order.
CertScore == IF cert.attempted THEN cert.passed ELSE -1     \* of CertPasses

LateHandled(order) ==
    /\ late' = late \ {order}
    /\ book' = ProcessOrder(book, order.req, order.id).book
    /\ UNCHANGED <<lastId, certifying, pc, clock, inflight, worker>>

(***************************************************************************)
(* bot.Run                                                                 *)
(***************************************************************************)
\* The score is stored with the run, and the bot starts.
Start ==
    /\ pc = "certify" /\ cert.pass > CertPasses
    /\ pc' = "select"
    /\ cert' = NoCert
    /\ UNCHANGED <<book, lastId, late, disturbed, clock, inflight, worker>>

\* mutant: the bot does not return while it has orders on their way
TakeTickBusy ==
    /\ pc = "select" /\ tick # 0
    /\ pc' = IF tick > Duration /\ inflight = {} THEN "returned" ELSE "acquire"
    /\ tick' = 0
    /\ UNCHANGED <<book, lastId, late, certifying, now, inflight, worker>>

\* A tick is received; its time, not the present, is compared with the deadline.
TakeTick ==
    /\ pc = "select" /\ tick # 0
    /\ pc' = IF tick > Duration THEN "returned" ELSE "acquire"
    /\ tick' = 0
    /\ UNCHANGED <<book, lastId, late, certifying, now, inflight, worker>>

SlotFree == Cardinality(inflight) < Slots

\* A slot of the semaphore, and a goroutine for a random order.
Fire(req) ==
    /\ pc = "acquire" /\ SlotFree
    /\ pc' = "select"
    /\ lastId' = lastId + 1
    /\ inflight' = inflight \cup {[id |-> lastId', req |-> req, left |-> Timeout]}
    /\ UNCHANGED <<book, late, certifying, clock, worker>>

\* fireOrder gets its answer and gives the slot back.
Answered(o) ==
    /\ book' = ProcessOrder(book, o.req, o.id).book
    /\ inflight' = inflight \ {o}
    /\ UNCHANGED <<lastId, late, certifying, pc, clock, worker>>

\* mutant: the client has no timeout
TimedOutNever(o) ==
    /\ FALSE
    /\ UNCHANGED vars

\* Or it does not: a metric with status timeout.
TimedOut(o) ==
    /\ o.left = 0
    /\ inflight' = inflight \ {o}
    /\ book' \in {book, ProcessOrder(book, o.req, o.id).book}
    /\ UNCHANGED <<lastId, late, certifying, pc, clock, worker>>

\* The context is cancelled, and every request with it.
Cancel ==
    /\ pc # "returned"
    /\ pc' = "returned"
    /\ inflight' = {}
    /\ UNCHANGED <<book, lastId, late, certifying, clock, worker>>

\* The worker binary ends with its bot and does not wait for the orders.
WorkerEnds ==
    /\ worker /\ pc = "returned" /\ inflight # {}
    /\ inflight' = {}
    /\ UNCHANGED <<book, lastId, late, certifying, pc, clock, worker>>

\* The ticker's channel holds one tick; one that finds it full is dropped.
TimePasses ==
    /\ pc # "certify" /\ (pc = "returned" => inflight # {})
    /\ ~(pc = "select" /\ tick # 0) /\ ~(pc = "acquire" /\ SlotFree)
    /\ \A o \in inflight : o.left > 0
    /\ now' = now + 1
    /\ tick' = IF tick = 0 /\ pc # "returned" THEN now' ELSE tick
    /\ inflight' = {[o EXCEPT !.left = @ - 1] : o \in inflight}
    /\ UNCHANGED <<book, lastId, late, certifying, pc, worker>>

(***************************************************************************)
(* The judgement of fireOrder                                              *)
(***************************************************************************)
\* mutant: >= for >
JudgeStrictly(answer, expected) ==
    \/ answer.status \in {"rejected", "timeout", "ack"} /\ answer.filled = 0
    \/ answer.status \in {"partial_fill", "filled"} /\ answer.filled \in 1..expected - 1

\* fillCorrect; the expected quantity is what the answer says it is.
Judge(answer, expected) ==
    \/ answer.status \in {"rejected", "timeout", "ack"} /\ answer.filled = 0
    \/ answer.status \in {"partial_fill", "filled"} /\ answer.filled \in 1..expected

(***************************************************************************)
(* Specification.  The bot goes on as fast as it can, and its client gives *)
(* up in time; that the container answers is not assumed.                  *)
(***************************************************************************)
Certification == SendBuy \/ SweepAnswered \/ SweepUnanswered

Bot == Start \/ TakeTick \/ \E req \in Request : Fire(req)

Next ==
    \/ Certification \/ Bot \/ Cancel \/ WorkerEnds \/ TimePasses
    \/ \E order \in late : LateHandled(order)
    \/ \E o \in inflight : Answered(o) \/ TimedOut(o)

Spec == Init /\ [][Next]_vars

FairSpec ==
    /\ Spec
    /\ WF_vars(Certification) /\ WF_vars(Bot) /\ WF_vars(TimePasses)
    /\ WF_vars(\E o \in inflight : TimedOut(o))

(***************************************************************************)
(* Properties                                                              *)
(***************************************************************************)
\* A container that keeps price-time priority is certified in full: unless it has
\* been used before, or did not answer an order of the certification in time.
\* Then the rest of a pass stays in the book and spoils the ones after it.
CertifiedInFull ==
    cert.pass > CertPasses /\ disturbed = 0 => CertScore = CertPasses

Side(req, own) ==
    IF (req.side = "buy") = own THEN book.bids ELSE book.asks

\* Whatever the book has become, an order is matched with those that better ones
\* leave something for, the best one first; quantity is moved and not lost; and no buy and sell that
\* could be matched are left.
MatchesByPriority ==
    \A req \in Request \cup {CertBuy, CertSweep} : req.type # "cancel" =>
        LET done    == ProcessOrder(book, req, lastId + 1)
            other   == Side(req, FALSE)
            reached == Reached(req, other)
        IN  /\ ToSet(done.answer.ids) = {other[i].id : i \in reached}
            /\ InOrder(req.side, other, reached, done.answer.ids)
            /\ done.answer.filled = Min({req.quantity, Quantity(other, reached)})
            /\ Whole(done.book.bids) + Whole(done.book.asks) + 2 * done.answer.filled =
                  Whole(book.bids) + Whole(book.asks)
                    + IF req.type = "limit" THEN req.quantity ELSE done.answer.filled
            /\ \A b \in ToSet(done.book.bids), a \in ToSet(done.book.asks) : b.price < a.price

\* Every answer of such a container is judged correct, whatever orders arrive in
\* between: the score is lowered by timeouts only.
HonestIsCorrect ==
    \A req \in Request : Judge(ProcessOrder(book, req, lastId + 1).answer, req.quantity)

\* No order outlives the deadline of the bot by more than two timeouts of the client.
LastOrderSoon == \A o \in inflight : now + o.left <= Duration + 2 * Timeout

\* The bot itself goes on for at most one, though it may wait for a slot, and then
\* take an old tick and wait for another.
ReturnsSoon == pc \in {"select", "acquire"} => now <= Duration + Timeout

\* The deadline is compared with the time of a tick that may be old, and before
\* the wait for a slot: still bot and orders end soon after it.
EndsSoon == ReturnsSoon /\ LastOrderSoon

\* The bot returns, though the container may never answer.
BotEnds == <>(pc = "returned")
=============================================================================

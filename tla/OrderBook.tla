------------------------------ MODULE OrderBook ------------------------------
(***************************************************************************)
(* A contestant's program as the platform expects it: ProcessOrder of      *)
(* tests/go_orderbook_submission/main.go, an order book that matches by    *)
(* price and then by time.  Orders of one price stand in the slices in the *)
(* order in which they came, as orders are appended and sorting keeps them *)
(* so: a place stands for a timestamp.  The average price of a fill, which *)
(* nobody judges, is left out.                                             *)
(***************************************************************************)
EXTENDS Integers, Sequences, SequencesExt

EmptyBook == [bids |-> <<>>, asks |-> <<>>]

\* Whether an order of this side takes the i-th resting order before the j-th.
Before(side, resting, i, j) ==
    \/ resting[i].price = resting[j].price /\ i < j
    \/ IF side = "buy" THEN resting[i].price < resting[j].price
                       ELSE resting[i].price > resting[j].price

\* The resting orders in that order.
Rank(side, resting, i) == Cardinality({j \in DOMAIN resting : Before(side, resting, j, i)})
Sorted(side, resting) ==
    [k \in DOMAIN resting |->
        resting[CHOOSE i \in DOMAIN resting : Rank(side, resting, i) = k - 1]]

\* Whether the resting order o is good enough for req.
Crosses(req, o) ==
    req.type = "market" \/ IF req.side = "buy" THEN o.price <= req.price ELSE o.price >= req.price

\* mutant: a resting order is given away whole
TakeWhole(req, match, o) ==
    IF match.left = 0 \/ ~Crosses(req, o)
      THEN [match EXCEPT !.rest = Append(@, o)]
      ELSE [left |-> IF o.quantity > match.left THEN 0 ELSE match.left - o.quantity,
            ids |-> Append(match.ids, o.id), rest |-> match.rest]

\* One turn of the matching loop.
Take(req, match, o) ==
    LET fill == Min({match.left, o.quantity}) IN
    IF match.left = 0 \/ ~Crosses(req, o)
      THEN [match EXCEPT !.rest = Append(@, o)]
      ELSE [left |-> match.left - fill,
            ids  |-> Append(match.ids, o.id),
            rest |-> IF o.quantity > fill
                       THEN Append(match.rest, [o EXCEPT !.quantity = @ - fill]) ELSE match.rest]

\* The loop over the resting orders of the other side.
Loop(req, queue) ==
    LET turn[k \in 0..Len(queue)] ==
            IF k = 0 THEN [left |-> req.quantity, ids |-> <<>>, rest |-> <<>>]
            ELSE Take(req, turn[k - 1], queue[k])
    IN  turn

Match(req, resting) == Loop(req, Sorted(req.side, resting))[Len(resting)]

Answer(status, filled, ids) == [status |-> status, filled |-> filled, ids |-> ids]

\* The book after req, which it knows as id, and the answer.
ProcessOrder(book, req, id) ==
    LET match  == Match(req, IF req.side = "buy" THEN book.asks ELSE book.bids)
        filled == req.quantity - match.left
        own    == IF req.type = "limit" /\ match.left > 0
                    THEN <<[id |-> id, price |-> req.price, quantity |-> match.left]>> ELSE <<>>
    IN  IF req.type = "cancel" THEN [book |-> book, answer |-> Answer("ack", 0, <<>>)]
        ELSE [book   |-> IF req.side = "buy"
                           THEN [bids |-> book.bids \o own, asks |-> match.rest]
                           ELSE [bids |-> match.rest, asks |-> book.asks \o own],
              answer |-> Answer(IF filled = 0
                                  THEN (IF req.type = "market" THEN "rejected" ELSE "ack")
                                  ELSE (IF match.left = 0 THEN "filled" ELSE "partial_fill"),
                                filled, match.ids)]

(***************************************************************************)
(* What an order is owed, without sorting or looping                       *)
(***************************************************************************)
\* The quantity of the resting orders at the places in P: how many units there are.
Quantity(resting, P) == Cardinality(UNION {{i} \X (1..resting[i].quantity) : i \in P})
Whole(resting)       == Quantity(resting, DOMAIN resting)

\* The places of the orders that the quantity of req reaches when better ones come first.
Reached(req, resting) ==
    LET good == {i \in DOMAIN resting : Crosses(req, resting[i])} IN
    {i \in good : Quantity(resting, {j \in good : Before(req.side, resting, j, i)}) < req.quantity}

\* Whether ids name orders at places in P, and better ones first.
InOrder(side, resting, P, ids) ==
    \A k, l \in DOMAIN ids : k < l =>
        \E i, j \in P : /\ ids[k] = resting[i].id /\ ids[l] = resting[j].id
                        /\ Before(side, resting, i, j)
=============================================================================

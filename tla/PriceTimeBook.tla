----------------------------- MODULE PriceTimeBook -----------------------------
(* What a limit order book with price-time priority promises, whatever its    *)
(* data structure: an incoming order trades with the best-priced order it can *)
(* trade with, the earliest of several with that price, until it is used up   *)
(* or none suits; the rest of a limit order goes on the book.                 *)
EXTENDS Orders

VARIABLES
  rank,     \* later orders on the book have higher ranks
  book,     \* how much of each order rests on the book
  taking,   \* the order being matched
  qty,      \* how much of it is left
  filled,   \* how much of it has been executed
  ack       \* the last answer

bookVars == <<terms, rank, book, taking, qty, filled, ack>>

Init ==
  /\ terms = [o \in Order |-> NotSent]
  /\ rank = [o \in Order |-> 0]
  /\ book = [o \in Order |-> 0]
  /\ taking = NoOrder /\ qty = 0 /\ filled = 0
  /\ ack = NoAck

Take(o, t) ==
  /\ taking = NoOrder
  /\ terms[o] = NotSent
  /\ terms' = [terms EXCEPT ![o] = t]
  /\ taking' = o /\ qty' = t.qty /\ filled' = 0
  /\ UNCHANGED <<rank, book, ack>>

\* The resting orders the taker can trade with.
Suitable == {p \in Order :
  /\ book[p] > 0
  /\ terms[p].side = Opposite(terms[taking].side)
  /\ Suits(terms[taking], terms[p].price)}

\* p comes before q on their side of the book.
Ahead(p, q) ==
  \/ terms[p].side = "buy" /\ terms[p].price > terms[q].price
  \/ terms[p].side = "sell" /\ terms[p].price < terms[q].price
  \/ terms[p].price = terms[q].price /\ rank[p] < rank[q]

Trade(p) ==
  /\ taking # NoOrder /\ qty > 0
  /\ p \in Suitable
  /\ \A q \in Suitable \ {p} : Ahead(p, q)
  /\ LET m == Least(qty, book[p]) IN
       /\ book' = [book EXCEPT ![p] = @ - m]
       /\ qty' = qty - m
       /\ filled' = filled + m
  /\ UNCHANGED <<terms, rank, taking, ack>>

\* The rest of the order goes on the book, behind every other.
Rest ==
  /\ book' = [book EXCEPT ![taking] = qty]
  /\ \A p \in Order \ {taking} : rank'[p] = rank[p] /\ rank[p] < rank'[taking]

Finish ==
  /\ taking # NoOrder
  /\ qty = 0 \/ Suitable = {}
  /\ IF terms[taking].type = "limit" /\ qty > 0 THEN Rest ELSE UNCHANGED <<rank, book>>
  /\ ack' = Ack(taking, StatusOf(terms[taking], filled, qty), filled)
  /\ taking' = NoOrder /\ qty' = 0 /\ filled' = 0
  /\ UNCHANGED terms

Cancel(o) ==
  /\ taking = NoOrder
  /\ book' = [book EXCEPT ![o] = 0]
  /\ ack' = Ack(o, IF book[o] > 0 THEN "cancelled" ELSE "rejected", 0)
  /\ UNCHANGED <<terms, rank, taking, qty, filled>>

Next ==
  \/ \E o \in Order : (\E t \in Generate : Take(o, t)) \/ Trade(o) \/ Cancel(o)
  \/ Finish

Spec == Init /\ [][Next]_bookVars

=============================================================================

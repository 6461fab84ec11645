------------------------------ MODULE PythonBook ------------------------------
(* The order book of the sample engine (sample-trading-engine/src/main.py): a *)
(* heap of the resting orders of each side and a dictionary of those that can *)
(* be cancelled.  A cancelled order stays in its heap with nothing remaining. *)
(* The lock makes every request one critical section; its loop is taken one   *)
(* iteration at a time.                                                       *)
EXTENDS Orders

VARIABLES
  pHeap,     \* the orders in self.bids and self.asks
  pIndex,    \* the orders in self.orders
  pLeft,     \* remaining
  pStamp,    \* timestamp
  pClock,    \* what time.time() last returned
  pTaking,   \* the request being processed
  pQty, pFilled, pPrice,   \* qty, filled_qty, fill_price
  pAck,      \* the last answer, but for its price
  pAckPrice  \* its fill_price

pyResting == <<pHeap, pIndex, pLeft, pStamp, pClock>>
pyTaker == <<pTaking, pQty, pFilled, pPrice>>
pyVars == <<pyResting, pyTaker, pAck, pAckPrice>>

PyInit ==
  /\ pHeap = {} /\ pIndex = {}
  /\ pLeft = [o \in Order |-> 0]
  /\ pStamp = [o \in Order |-> 0]
  /\ pClock = 0
  /\ pTaking = NoOrder /\ pQty = 0 /\ pFilled = 0 /\ pPrice = 0
  /\ pAck = NoAck /\ pAckPrice = 0

\* One side of the book, and the comparison of BookOrder: the better price,
\* then the earlier timestamp.  Of orders that compare equal any may be on top.
PyBook(side) == {o \in pHeap : terms[o].side = side}
PyBefore(p, q) ==
  \/ terms[p].side = "buy" /\ terms[p].price > terms[q].price
  \/ terms[p].side = "sell" /\ terms[p].price < terms[q].price
  \/ terms[p].price = terms[q].price /\ pStamp[p] < pStamp[q]
\* Mutant of PyTops: what is on top of the bids is the lowest price.
PyTopsBidsUpsideDown(side) == {p \in PyBook(side) : \A q \in PyBook(side) :
  \/ terms[p].price < terms[q].price
  \/ terms[p].price = terms[q].price /\ pStamp[p] <= pStamp[q]}

PyTops(side) == {p \in PyBook(side) : \A q \in PyBook(side) : ~PyBefore(q, p)}

PyTake(o, t) ==
  /\ pTaking = NoOrder
  /\ pTaking' = o /\ pQty' = t.qty /\ pFilled' = 0 /\ pPrice' = 0
  /\ UNCHANGED <<pyResting, pAck, pAckPrice>>

\* Mutant of PyMatch: without min, the order may take more than is there.
PyMatchTakesAll(top) ==
  /\ pTaking # NoOrder /\ pQty > 0
  /\ top \in PyTops(Opposite(terms[pTaking].side))
  /\ Suits(terms[pTaking], terms[top].price)
  /\ pPrice' = terms[top].price
  /\ pFilled' = pFilled + pQty
  /\ pQty' = 0
  /\ pLeft' = [pLeft EXCEPT ![top] = @ - pQty]
  /\ pHeap' = IF pLeft'[top] <= 0 THEN pHeap \ {top} ELSE pHeap
  /\ pIndex' = IF pLeft'[top] <= 0 THEN pIndex \ {top} ELSE pIndex
  /\ UNCHANGED <<pStamp, pClock, pTaking, pAck, pAckPrice>>

\* One iteration of the loop of _limit_order or _market_order.
PyMatch(top) ==
  /\ pTaking # NoOrder /\ pQty > 0
  /\ top \in PyTops(Opposite(terms[pTaking].side))
  /\ Suits(terms[pTaking], terms[top].price)
  /\ LET m == Least(pQty, pLeft[top]) IN
       /\ pPrice' = terms[top].price
       /\ pFilled' = pFilled + m
       /\ pQty' = pQty - m
       /\ pLeft' = [pLeft EXCEPT ![top] = @ - m]
  /\ pHeap' = IF pLeft'[top] <= 0 THEN pHeap \ {top} ELSE pHeap
  /\ pIndex' = IF pLeft'[top] <= 0 THEN pIndex \ {top} ELSE pIndex
  /\ UNCHANGED <<pStamp, pClock, pTaking, pAck, pAckPrice>>

\* Mutant of PyLoopEnds: "<" for "<=", a buy leaves the asks at its own price.
PyLoopEndsEarly ==
  \/ pQty = 0
  \/ PyBook(Opposite(terms[pTaking].side)) = {}
  \/ \E top \in PyTops(Opposite(terms[pTaking].side)) :
       \/ ~Suits(terms[pTaking], terms[top].price)
       \/ terms[top].price = terms[pTaking].price

PyLoopEnds ==
  \/ pQty = 0
  \/ PyBook(Opposite(terms[pTaking].side)) = {}
  \/ \E top \in PyTops(Opposite(terms[pTaking].side)) : ~Suits(terms[pTaking], terms[top].price)

\* The rest of a limit order goes on the book.
PyInsert ==
  /\ \E d \in ClockSteps : pClock' = pClock + d
  /\ pStamp' = [pStamp EXCEPT ![pTaking] = pClock']
  /\ pLeft' = [pLeft EXCEPT ![pTaking] = pQty]
  /\ pHeap' = pHeap \cup {pTaking}
  /\ pIndex' = pIndex \cup {pTaking}

\* The answer, after the loop.
PyAnswer ==
  /\ pTaking # NoOrder
  /\ PyLoopEnds
  /\ IF terms[pTaking].type = "limit" /\ pQty > 0 THEN PyInsert ELSE UNCHANGED pyResting
  /\ pAck' = Ack(pTaking, StatusOf(terms[pTaking], pFilled, pQty), pFilled)
  /\ pAckPrice' = pPrice
  /\ pTaking' = NoOrder /\ pQty' = 0 /\ pFilled' = 0 /\ pPrice' = 0

\* Mutant of PyCancel: the dictionary forgets the order, the heap keeps it whole.
PyCancelForgets(o) ==
  /\ pTaking = NoOrder
  /\ pIndex' = pIndex \ {o}
  /\ pAck' = Ack(o, IF o \in pIndex THEN "cancelled" ELSE "rejected", 0)
  /\ pAckPrice' = 0
  /\ UNCHANGED <<pHeap, pLeft, pStamp, pClock, pyTaker>>

\* _cancel, on an id the dictionary may or may not have.
PyCancel(o) ==
  /\ pTaking = NoOrder
  /\ pLeft' = IF o \in pIndex THEN [pLeft EXCEPT ![o] = 0] ELSE pLeft
  /\ pIndex' = pIndex \ {o}
  /\ pAck' = Ack(o, IF o \in pIndex THEN "cancelled" ELSE "rejected", 0)
  /\ pAckPrice' = 0
  /\ UNCHANGED <<pHeap, pStamp, pClock, pyTaker>>

PyRuns == PyAnswer \/ \E top \in Order : PyMatch(top)

PyTypeOK ==
  /\ pIndex \subseteq pHeap /\ pHeap \subseteq Order
  /\ pLeft \in [Order -> Nat]
  /\ pStamp \in [Order -> Int]
  /\ pClock \in Int
  /\ pTaking \in Order \cup {NoOrder}
  /\ pQty \in Nat /\ pFilled \in Nat /\ pPrice \in Nat
  /\ pAck \in Acks /\ pAckPrice \in Nat

=============================================================================

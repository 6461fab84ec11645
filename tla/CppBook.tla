-------------------------------- MODULE CppBook --------------------------------
(* The order book of the C++ sample engine                                    *)
(* (sample-trading-engine-cpp/src/main.cpp): a sorted vector of the resting   *)
(* orders of each side.  A cancelled order leaves its vector.                 *)
EXTENDS Orders, SequencesExt

VARIABLES
  cBook,     \* bids_ ("buy") and asks_ ("sell")
  cLeft,     \* remaining
  cStamp,    \* ts
  cClock,    \* what now_us() last returned
  cTaking,   \* the request being processed
  cQty, cFilled, cPrice,   \* qty, filled, fp
  cAck,      \* the last answer, but for its price
  cAckPrice  \* its fill_price

cppResting == <<cBook, cLeft, cStamp, cClock>>
cppTaker == <<cTaking, cQty, cFilled, cPrice>>
cppVars == <<cppResting, cppTaker, cAck, cAckPrice>>

CppInit ==
  /\ cBook = [side \in Side |-> << >>]
  /\ cLeft = [o \in Order |-> 0]
  /\ cStamp = [o \in Order |-> 0]
  /\ cClock = 0
  /\ cTaking = NoOrder /\ cQty = 0 /\ cFilled = 0 /\ cPrice = 0
  /\ cAck = NoAck /\ cAckPrice = 0

CppTake(o, t) ==
  /\ cTaking = NoOrder
  /\ cTaking' = o /\ cQty' = t.qty /\ cFilled' = 0 /\ cPrice' = 0
  /\ UNCHANGED <<cppResting, cAck, cAckPrice>>

Facing == cBook[Opposite(terms[cTaking].side)]

\* One iteration of the loop of do_limit or do_market, on the front order.
CppMatch ==
  /\ cTaking # NoOrder /\ cQty > 0 /\ Facing # << >>
  /\ LET top == Head(Facing)
         m == Least(cQty, cLeft[top]) IN
       /\ Suits(terms[cTaking], terms[top].price)
       /\ cPrice' = terms[top].price
       /\ cFilled' = cFilled + m
       /\ cQty' = cQty - m
       /\ cLeft' = [cLeft EXCEPT ![top] = @ - m]
       /\ cBook' = IF cLeft'[top] = 0
                   THEN [cBook EXCEPT ![terms[top].side] = Tail(@)] ELSE cBook
  /\ UNCHANGED <<cStamp, cClock, cTaking, cAck, cAckPrice>>

CppLoopEnds ==
  cQty > 0 /\ Facing # << >> => ~Suits(terms[cTaking], terms[Head(Facing)].price)

\* Mutant of CppBefore: the later of two orders with the same price is first.
CppBeforeLifo(side, a, p) ==
  IF terms[a].price # p
  THEN (IF side = "buy" THEN terms[a].price > p ELSE terms[a].price < p)
  ELSE cStamp[a] > cClock'

\* The comparison of insert_sorted: order a comes before one of price p and of
\* the time the clock tells now.
CppBefore(side, a, p) ==
  IF terms[a].price # p
  THEN (IF side = "buy" THEN terms[a].price > p ELSE terms[a].price < p)
  ELSE cStamp[a] < cClock'

\* insert_sorted, at the place lower_bound finds: behind the orders that come
\* before it and in front of the others.
CppInsert ==
  LET side == terms[cTaking].side
      Before(i) == CppBefore(side, cBook[side][i], terms[cTaking].price)
  IN /\ \E d \in ClockSteps : cClock' = cClock + d
     /\ \E i \in 1 .. Len(cBook[side]) + 1 :
          /\ \A j \in 1 .. Len(cBook[side]) : Before(j) <=> j < i
          /\ cBook' = [cBook EXCEPT ![side] = InsertAt(@, i, cTaking)]
     /\ cStamp' = [cStamp EXCEPT ![cTaking] = cClock']
     /\ cLeft' = [cLeft EXCEPT ![cTaking] = cQty]

\* The answer, after the loop.
CppAnswer ==
  /\ cTaking # NoOrder
  /\ CppLoopEnds
  /\ IF terms[cTaking].type = "limit" /\ cQty > 0 THEN CppInsert ELSE UNCHANGED cppResting
  /\ cAck' = Ack(cTaking, StatusOf(terms[cTaking], cFilled, cQty), cFilled)
  /\ cAckPrice' = cPrice
  /\ cTaking' = NoOrder /\ cQty' = 0 /\ cFilled' = 0 /\ cPrice' = 0

\* do_cancel: the order is found in one of the vectors and erased...
CppErase(o) ==
  \E side \in Side : \E i \in 1 .. Len(cBook[side]) :
    /\ cBook[side][i] = o
    /\ cBook' = [cBook EXCEPT ![side] = RemoveAt(@, i)]
    /\ cLeft' = [cLeft EXCEPT ![o] = 0]
    /\ cAck' = Ack(o, "cancelled", 0)

\* ...or in none.
CppNotFound(o) ==
  /\ \A side \in Side : \A i \in 1 .. Len(cBook[side]) : cBook[side][i] # o
  /\ cAck' = Ack(o, "rejected", 0)
  /\ UNCHANGED <<cBook, cLeft>>

CppCancel(o) ==
  /\ cTaking = NoOrder
  /\ CppErase(o) \/ CppNotFound(o)
  /\ cAckPrice' = 0
  /\ UNCHANGED <<cStamp, cClock, cppTaker>>

CppRuns == CppMatch \/ CppAnswer

CppTypeOK ==
  /\ cBook \in [Side -> Seq(Order)]
  /\ cLeft \in [Order -> Nat]
  /\ cStamp \in [Order -> Int]
  /\ cClock \in Int
  /\ cTaking \in Order \cup {NoOrder}
  /\ cQty \in Nat /\ cFilled \in Nat /\ cPrice \in Nat
  /\ cAck \in Acks /\ cAckPrice \in Nat

=============================================================================

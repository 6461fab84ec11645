----------------------------- MODULE MatchingProofs -----------------------------
(* Theorems about MatchingEngines, for every set of orders, of prices and of  *)
(* quantities.                                                                *)
EXTENDS MatchingEngines, SequenceTheorems, TLAPS

-----------------------------------------------------------------------------
(* What the bots send                                                         *)

LEMMA Division ==
  ASSUME NEW a \in Nat, NEW u \in Nat \ {0}
  PROVE  a \div u \in Nat /\ u * (a \div u) <= a /\ a < u * (a \div u) + u
OBVIOUS

LEMMA DivisionGrows ==
  ASSUME NEW a \in Nat, NEW b \in Nat, a <= b, NEW u \in Nat \ {0}
  PROVE  a \div u <= b \div u
<1> DEFINE x == a \div u
           y == b \div u
<1>1. x \in Nat /\ y \in Nat /\ u * x <= a /\ b < u * y + u
  BY Division
<1> HIDE DEF x, y
<1> SUFFICES ASSUME x > y PROVE FALSE
  BY <1>1 DEF x, y
<1>2. u * (x - y - 1) \in Nat
  <2>1. x - y - 1 \in Nat
    BY <1>1
  <2> QED BY <2>1
<1>3. u * (x - y - 1) = u * x - u * y - u
  BY <1>1
<1> QED BY <1>1, <1>2, <1>3

LEMMA Cancels ==
  ASSUME NEW n \in Nat \ {0}, NEW a \in Int, NEW b \in Int, n * a <= n * b
  PROVE  a <= b
<1> SUFFICES ASSUME a > b PROVE FALSE
  OBVIOUS
<1>1. n * (a - b) \in Nat \ {0}
  <2>1. a - b \in Nat \ {0} /\ \A d \in Nat \ {0} : n * d \in Nat \ {0}
    OBVIOUS
  <2> QED BY <2>1
<1>2. n * (a - b) = n * a - n * b
  OBVIOUS
<1> QED BY <1>1, <1>2

LEMMA GrainTyped == Grain \in Nat \ {0} /\ Hundred \in Nat \ {0} /\ Hundred * Grain \in Nat \ {0}
<1>1. \A m, n \in Nat \ {0} : m * n \in Nat \ {0}
  OBVIOUS
<1>2. Hundred \in Nat \ {0}
  BY OrderAssumption DEF Hundred
<1> QED BY <1>1, <1>2, OrderAssumption

LEMMA AskedTyped ==
  ASSUME NEW mid \in Nat, NEW k \in 0 .. (20 * Grain - 1)
  PROVE  /\ Asked("buy", mid, k) \in Nat /\ Asked("sell", mid, k) \in Nat
         /\ Asked("buy", mid, k) = mid * Hundred - mid * k
         /\ Asked("sell", mid, k) = mid * Hundred + mid * k
         /\ mid * k \in Nat /\ mid * k <= 20 * (mid * Grain)
<1>1. \A m, n \in Nat : m * n \in Nat
  OBVIOUS
<1>2. Hundred - k \in Nat /\ Hundred + k \in Nat /\ 20 * Grain - k \in Nat
  BY GrainTyped DEF Hundred
<1>3. mid * (Hundred - k) \in Nat /\ mid * (Hundred + k) \in Nat /\ mid * (20 * Grain - k) \in Nat /\ mid * k \in Nat
  BY <1>1, <1>2
<1>4. /\ mid * (Hundred - k) = mid * Hundred - mid * k
      /\ mid * (Hundred + k) = mid * Hundred + mid * k
      /\ mid * (20 * Grain - k) = 20 * (mid * Grain) - mid * k
  BY GrainTyped
<1> QED BY <1>1, <1>3, <1>4, GrainTyped DEF Asked

\* Rounding moves a price by half a cent at most.
LEMMA CentsRound ==
  ASSUME NEW raw \in Nat
  PROVE  /\ Cents(raw) \in Nat
         /\ 2 * (Hundred * Grain * Cents(raw)) <= 2 * raw + Hundred * Grain
         /\ 2 * raw < 2 * (Hundred * Grain * Cents(raw)) + Hundred * Grain
<1> DEFINE cent == Hundred * Grain
           p == (2 * raw + cent) \div (2 * cent)
<1>1. cent \in Nat \ {0}
  BY GrainTyped
<1>2. Cents(raw) = p
  BY DEF Cents
<1>3. p \in Nat /\ (2 * cent) * p <= 2 * raw + cent /\ 2 * raw + cent < (2 * cent) * p + 2 * cent
  <2> HIDE DEF cent
  <2>1. 2 * raw + cent \in Nat /\ 2 * cent \in Nat \ {0}
    BY <1>1
  <2> QED BY <2>1, Division
<1> HIDE DEF p
<1>4. (2 * cent) * p = 2 * (cent * p)
  BY <1>1, <1>3
<1> QED BY <1>1, <1>2, <1>3, <1>4

LEMMA CentsGrow ==
  ASSUME NEW r \in Nat, NEW s \in Nat, r <= s
  PROVE  Cents(r) <= Cents(s)
<1> DEFINE cent == Hundred * Grain
<1>1. cent \in Nat \ {0}
  BY GrainTyped
<1>2. Cents(r) = (2 * r + cent) \div (2 * cent) /\ Cents(s) = (2 * s + cent) \div (2 * cent)
  BY DEF Cents
<1> HIDE DEF cent
<1>3. /\ 2 * r + cent \in Nat /\ 2 * s + cent \in Nat /\ 2 * cent \in Nat \ {0}
      /\ 2 * r + cent <= 2 * s + cent
  BY <1>1
<1> QED BY <1>2, <1>3, DivisionGrows

\* A quote is a number of cents.  A bid is above the middle, and an ask below it,
\* by half a cent of rounding at most; both are within 0.2 % of it and that half
\* cent; and no bid is above an ask that is quoted at the same middle.
THEOREM QuoteIsNear ==
  ASSUME NEW mid \in Nat, NEW k \in 0 .. (20 * Grain - 1), NEW j \in 0 .. (20 * Grain - 1)
  PROVE  LET bid == Quote("buy", mid, k)
             ask == Quote("sell", mid, j)
         IN  /\ bid \in Nat /\ ask \in Nat
             /\ 2 * (Grain * bid) <= 2 * mid + Grain
             /\ 2 * (Grain * ask) >= 2 * mid - Grain
             /\ 1000 * (mid - Grain * bid) <= 2 * mid + 500 * Grain
             /\ 1000 * (Grain * ask - mid) <= 2 * mid + 500 * Grain
             /\ bid <= ask
<1> DEFINE bid == Quote("buy", mid, k)
           ask == Quote("sell", mid, j)
           low == Asked("buy", mid, k)
           high == Asked("sell", mid, j)
<1>1. /\ low \in Nat /\ high \in Nat
      /\ low = mid * Hundred - mid * k /\ high = mid * Hundred + mid * j
      /\ mid * k \in Nat /\ mid * k <= 20 * (mid * Grain)
      /\ mid * j \in Nat /\ mid * j <= 20 * (mid * Grain)
  BY AskedTyped
<1>2. bid = Cents(low) /\ ask = Cents(high)
  BY DEF Quote
<1> HIDE DEF low, high, bid, ask
<1>3. /\ bid \in Nat /\ ask \in Nat
      /\ 2 * (Hundred * Grain * bid) <= 2 * low + Hundred * Grain
      /\ 2 * low < 2 * (Hundred * Grain * bid) + Hundred * Grain
      /\ 2 * (Hundred * Grain * ask) <= 2 * high + Hundred * Grain
      /\ 2 * high < 2 * (Hundred * Grain * ask) + Hundred * Grain
  BY <1>1, <1>2, CentsRound
<1>4. Hundred \in Nat \ {0} /\ Grain \in Nat \ {0} /\ Hundred = 10000 * Grain
  BY GrainTyped DEF Hundred
<1> DEFINE b == Grain * bid
           a == Grain * ask
<1>5. /\ b \in Nat /\ a \in Nat
      /\ Hundred * Grain * bid = Hundred * b /\ Hundred * Grain * ask = Hundred * a
  <2>1. \A m, n \in Nat : m * n \in Nat
    OBVIOUS
  <2> QED BY <1>3, <1>4, <2>1
<1> HIDE DEF b, a
<1>6. 2 * b <= 2 * mid + Grain
  <2>1. Hundred * (2 * b) <= Hundred * (2 * mid + Grain)
    <3>1. Hundred * (2 * b) = 2 * (Hundred * b)
          /\ Hundred * (2 * mid + Grain) = 2 * (mid * Hundred) + Hundred * Grain
      BY <1>4, <1>5
    <3>2. mid * Hundred \in Nat /\ Hundred * Grain \in Nat /\ Hundred * b \in Nat
      BY <1>4, <1>5
    <3> QED BY <1>1, <1>3, <1>5, <3>1, <3>2
  <2> QED BY <1>4, <1>5, <2>1, Cancels
<1>7. 2 * a >= 2 * mid - Grain
  <2>1. Hundred * (2 * mid - Grain) <= Hundred * (2 * a)
    <3>1. Hundred * (2 * a) = 2 * (Hundred * a)
          /\ Hundred * (2 * mid - Grain) = 2 * (mid * Hundred) - Hundred * Grain
      BY <1>4, <1>5
    <3>2. mid * Hundred \in Nat /\ Hundred * Grain \in Nat /\ Hundred * a \in Nat
      BY <1>4, <1>5
    <3> QED BY <1>1, <1>3, <1>5, <3>1, <3>2
  <2> QED BY <1>4, <1>5, <2>1, Cancels
<1>8. 1000 * (mid - b) <= 2 * mid + 500 * Grain
  <2>1. Grain * (10000 * (2 * mid - 2 * b - Grain)) <= Grain * (40 * mid)
    <3>1. Grain * (10000 * (2 * mid - 2 * b - Grain))
            = 2 * (mid * Hundred) - 2 * (Hundred * b) - Hundred * Grain
      BY <1>4, <1>5
    <3>2. Grain * (40 * mid) = 40 * (mid * Grain)
      BY <1>4
    <3>3. mid * Hundred \in Nat /\ Hundred * Grain \in Nat /\ Hundred * b \in Nat /\ mid * Grain \in Nat
      BY <1>4, <1>5
    <3> QED BY <1>1, <1>3, <1>5, <3>1, <3>2, <3>3
  <2>2. 10000 * (2 * mid - 2 * b - Grain) <= 40 * mid
    BY <1>4, <1>5, <2>1, Cancels
  <2> QED BY <1>4, <1>5, <2>2
<1>9. 1000 * (a - mid) <= 2 * mid + 500 * Grain
  <2>1. Grain * (10000 * (2 * a - 2 * mid - Grain)) <= Grain * (40 * mid)
    <3>1. Grain * (10000 * (2 * a - 2 * mid - Grain))
            = 2 * (Hundred * a) - 2 * (mid * Hundred) - Hundred * Grain
      BY <1>4, <1>5
    <3>2. Grain * (40 * mid) = 40 * (mid * Grain)
      BY <1>4
    <3>3. mid * Hundred \in Nat /\ Hundred * Grain \in Nat /\ Hundred * a \in Nat /\ mid * Grain \in Nat
      BY <1>4, <1>5
    <3> QED BY <1>1, <1>3, <1>5, <3>1, <3>2, <3>3
  <2>2. 10000 * (2 * a - 2 * mid - Grain) <= 40 * mid
    BY <1>4, <1>5, <2>1, Cancels
  <2> QED BY <1>4, <1>5, <2>2
<1>10. bid <= ask
  <2>1. low <= high
    BY <1>1, <1>4
  <2> QED BY <1>1, <1>2, <2>1, CentsGrow
<1> QED BY <1>3, <1>6, <1>7, <1>8, <1>9, <1>10 DEF bid, ask, a, b

LEMMA TermsFields ==
  ASSUME NEW t \in Terms
  PROVE  /\ t.type \in {"limit", "market"} /\ t.side \in Side /\ t.price \in Nat
         /\ t.qty \in Nat /\ t.qty > 0
<1>1. t.type \in {"limit", "market"} /\ t.side \in Side /\ t.price \in Nat /\ t.qty \in 1 .. MaxQuantity
  BY DEF Terms
<1>2. \A n \in 1 .. MaxQuantity : n \in Nat /\ n > 0
  BY DEF MaxQuantity
<1> QED BY <1>1, <1>2

LEMMA GenerateTyped == Generate \subseteq Terms
<1>1. \A raw \in RawQty : Quantity(raw) \in 1 .. MaxQuantity
  BY OrderAssumption DEF Quantity, MaxQuantity
<1>2. \A side \in Side, mid \in Mid, k \in Spread : Quote(side, mid, k) \in Nat
  <2> SUFFICES ASSUME NEW side \in Side, NEW mid \in Mid, NEW k \in Spread
               PROVE  Quote(side, mid, k) \in Nat
    OBVIOUS
  <2>1. mid \in Nat /\ k \in 0 .. (20 * Grain - 1)
    BY OrderAssumption
  <2>2. Quote("buy", mid, k) \in Nat /\ Quote("sell", mid, k) \in Nat
    BY <2>1, AskedTyped, CentsRound DEF Quote
  <2> QED BY <2>2 DEF Side
<1>3. Limits \subseteq Terms
  BY <1>1, <1>2 DEF Limits, Terms, Side
<1>4. Markets \subseteq Terms
  BY <1>1 DEF Markets, Terms, Side
<1> QED BY <1>3, <1>4 DEF Generate

LEMMA StatusTyped ==
  ASSUME NEW t, NEW filled, NEW left
  PROVE  StatusOf(t, filled, left) \in Status
BY DEF StatusOf, Status

LEMMA LeastOf ==
  ASSUME NEW a \in Nat, NEW b \in Nat
  PROVE  Least(a, b) \in Nat /\ Least(a, b) <= a /\ Least(a, b) <= b /\ Least(a, b) \in {a, b}
BY DEF Least

-----------------------------------------------------------------------------
(* The Python engine: types                                                   *)

LEMMA TermsTyped ==
  ASSUME TypeOK, NEW o \in Order
  PROVE  /\ terms[o].price \in Nat /\ terms[o].qty \in Nat
         /\ terms[o] # NotSent <=> terms[o] \in Terms
         /\ terms[o] \in Terms => terms[o].side \in Side
         /\ terms[o] \in Terms <=> terms[o].type \in {"limit", "market"}
         /\ terms[o] \in Terms => terms[o].qty > 0
<1>1. terms[o] \in Terms \cup {NotSent}
  BY DEF TypeOK
<1>2. \A t \in Terms : /\ t.price \in Nat /\ t.qty \in Nat /\ t.qty > 0 /\ t.side \in Side
                       /\ t.type \in {"limit", "market"}
  BY TermsFields
<1>3. NotSent.price = 0 /\ NotSent.qty = 0 /\ NotSent.type = "none"
  BY DEF NotSent
<1> QED BY <1>1, <1>2, <1>3

LEMMA AckTyped ==
  ASSUME NEW o \in Order, NEW s \in Status, NEW n \in Nat
  PROVE  Ack(o, s, n) \in Acks /\ Ack(o, s, n).id = o
BY DEF Ack, Acks

LEMMA PyMatchKeepsTypes ==
  ASSUME TypeOK, NEW top \in Order, PyMatch(top)
  PROVE  PyTypeOK'
<1>1. pLeft[top] \in Nat /\ pQty \in Nat /\ terms[top].price \in Nat
  BY TermsTyped DEF TypeOK, PyTypeOK
<1> DEFINE m == Least(pQty, pLeft[top])
<1>2. m \in Nat /\ m <= pQty /\ m <= pLeft[top]
  BY <1>1, LeastOf
<1>3. /\ pPrice' = terms[top].price /\ pFilled' = pFilled + m /\ pQty' = pQty - m
      /\ pLeft' = [pLeft EXCEPT ![top] = @ - m]
      /\ UNCHANGED <<pStamp, pClock, pTaking, pAck, pAckPrice>>
  BY DEF PyMatch
<1>4. \/ pHeap' = pHeap \ {top} /\ pIndex' = pIndex \ {top}
      \/ pHeap' = pHeap /\ pIndex' = pIndex
  BY DEF PyMatch
<1> HIDE DEF m
<1>5. pLeft' \in [Order -> Nat] /\ pQty' \in Nat /\ pFilled' \in Nat /\ pPrice' \in Nat
  BY <1>1, <1>2, <1>3 DEF TypeOK, PyTypeOK
<1> QED BY <1>3, <1>4, <1>5 DEF TypeOK, PyTypeOK

LEMMA PyAnswerKeepsTypes ==
  ASSUME TypeOK, PyAnswer
  PROVE  PyTypeOK'
<1> USE DEF TypeOK, PyTypeOK
<1>1. pTaking \in Order
  BY DEF PyAnswer
<1>2. pAck' \in Acks /\ pAckPrice' \in Nat
  BY <1>1, StatusTyped, AckTyped DEF PyAnswer
<1>3. CASE PyInsert
  <2>1. pClock' \in Int
    BY <1>3, OrderAssumption DEF PyInsert
  <2> QED BY <1>1, <1>2, <1>3, <2>1 DEF PyAnswer, PyInsert
<1>4. CASE UNCHANGED pyResting
  BY <1>1, <1>2, <1>4 DEF PyAnswer, pyResting
<1> QED BY <1>3, <1>4 DEF PyAnswer

LEMMA PyCancelKeepsTypes ==
  ASSUME TypeOK, NEW o \in Order, PyCancel(o)
  PROVE  PyTypeOK'
<1> USE DEF TypeOK, PyTypeOK
<1>1. pAck' \in Acks
  <2>1. {"cancelled", "rejected"} \subseteq Status
    BY DEF Status
  <2> QED BY <2>1, AckTyped DEF PyCancel
<1> QED BY <1>1 DEF PyCancel, pyTaker

LEMMA PyTakeKeepsTypes ==
  ASSUME TypeOK, NEW o \in Order, NEW t \in Generate, PyTake(o, t)
  PROVE  PyTypeOK'
<1>1. t.qty \in Nat
  BY GenerateTyped, TermsFields
<1> QED BY <1>1 DEF PyTake, pyResting, TypeOK, PyTypeOK

-----------------------------------------------------------------------------
(* The Python engine: its book                                                *)

\* What the dictionary has is what has something left, and it is in the heap;
\* the heap may hold more.  Its orders are limit orders that were sent.
PyIndexed ==
  /\ \A o \in Order : o \in pIndex <=> pLeft[o] > 0
  /\ \A o \in pHeap : terms[o].type = "limit"
  /\ pTaking # NoOrder => terms[pTaking] \in Terms

\* A price the engine reports is one the order could trade at.
PyReports ==
  /\ pPrice = 0 \/ (pTaking # NoOrder /\ Suits(terms[pTaking], pPrice))
  /\ \/ pAckPrice = 0
     \/ pAck.id \in Order /\ terms[pAck.id] \in Terms /\ Suits(terms[pAck.id], pAckPrice)

PyInv == TypeOK /\ PyIndexed /\ PyReports /\ ~Crossed(pLeft)

\* An order that has something left is in the heap.
LEMMA PyLeftInHeap ==
  ASSUME TypeOK, PyIndexed, NEW o \in Order, pLeft[o] > 0
  PROVE  o \in pHeap /\ o \in pIndex /\ terms[o] \in Terms /\ o \in PyBook(terms[o].side)
<1>1. o \in pIndex /\ o \in pHeap
  BY DEF PyIndexed, TypeOK, PyTypeOK
<1>2. terms[o].type = "limit"
  BY <1>1 DEF PyIndexed
<1> QED BY <1>1, <1>2, TermsTyped DEF PyBook

\* On top of a heap is an order that no other comes before.
LEMMA PyTopIsBest ==
  ASSUME TypeOK, NEW side \in Side, NEW top \in PyTops(side), NEW q \in PyBook(side)
  PROVE  /\ top \in Order /\ q \in Order /\ terms[top].side = side /\ terms[q].side = side
         /\ terms[top].price \in Nat /\ terms[q].price \in Nat
         /\ side = "buy" => terms[top].price >= terms[q].price
         /\ side = "sell" => terms[top].price <= terms[q].price
         /\ terms[top].price = terms[q].price => pStamp[top] <= pStamp[q]
<1>1. top \in Order /\ q \in Order /\ terms[top].side = side /\ terms[q].side = side
  BY DEF PyTops, PyBook, TypeOK, PyTypeOK
<1>2. terms[top].price \in Nat /\ terms[q].price \in Nat /\ pStamp[top] \in Int /\ pStamp[q] \in Int
  BY <1>1, TermsTyped DEF TypeOK, PyTypeOK
<1>3. ~PyBefore(q, top)
  BY DEF PyTops
<1> QED BY <1>1, <1>2, <1>3 DEF PyBefore, Side

\* When the loop ends with something left of the order, no order that rests
\* suits it: the top of the heap is enough to look at.
LEMMA PyNoneSuits ==
  ASSUME TypeOK, PyIndexed, pTaking \in Order, PyLoopEnds, pQty # 0,
         NEW q \in Order, pLeft[q] > 0, terms[q].side = Opposite(terms[pTaking].side)
  PROVE  ~Suits(terms[pTaking], terms[q].price)
<1> DEFINE t == terms[pTaking]
           side == Opposite(t.side)
<1>1. q \in PyBook(side)
  BY PyLeftInHeap
<1>2. t \in Terms /\ t.price \in Nat /\ side \in Side
  BY OrderAssumption, TermsTyped DEF PyIndexed, Opposite, Side
<1>3. PICK top \in PyTops(side) : ~Suits(t, terms[top].price)
  BY <1>1 DEF PyLoopEnds
<1>4. /\ terms[top].price \in Nat /\ terms[q].price \in Nat
      /\ side = "buy" => terms[top].price >= terms[q].price
      /\ side = "sell" => terms[top].price <= terms[q].price
  BY <1>1, <1>2, PyTopIsBest
<1>5. t.type \in {"limit", "market"} /\ t.side \in Side
  BY <1>2, TermsFields
<1> HIDE DEF t
<1> QED BY <1>2, <1>3, <1>4, <1>5 DEF Suits, Opposite, Side, t

LEMMA SuitsIsFair ==
  ASSUME NEW t \in Terms, NEW price \in Nat, price = 0 \/ Suits(t, price)
  PROVE  ~PriorityError(t, price)
BY TermsFields DEF Suits, PriorityError

\* What has less left than before crosses nothing.
LEMMA LessIsNotCrossed ==
  ASSUME NEW left \in [Order -> Nat], NEW left1 \in [Order -> Nat], ~Crossed(left),
         \A o \in Order : left1[o] > 0 => left[o] > 0
  PROVE  ~Crossed(left1)
BY DEF Crossed

LEMMA PySubmitKeeps ==
  ASSUME TypeOK, PyIndexed, PyReports, ~Crossed(pLeft), NEW o \in Order, terms[o] = NotSent,
         NEW t \in Generate, terms' = [terms EXCEPT ![o] = t], PyTake(o, t)
  PROVE  PyIndexed' /\ PyReports' /\ ~Crossed(pLeft)'
<1>1. t \in Terms /\ terms'[o] = t /\ \A p \in Order \ {o} : terms'[p] = terms[p]
  BY GenerateTyped DEF TypeOK
<1>2. terms[o] \notin Terms /\ terms[o].type = "none"
  BY TermsTyped DEF NotSent
<1>3. o \notin pHeap /\ ~(pLeft[o] > 0)
  BY <1>2, PyLeftInHeap DEF PyIndexed
<1>4. UNCHANGED <<pHeap, pIndex, pLeft, pAck, pAckPrice>> /\ pTaking' = o /\ pPrice' = 0
  BY DEF PyTake, pyResting
<1>5. PyIndexed'
  BY <1>1, <1>3, <1>4 DEF PyIndexed, TypeOK, PyTypeOK
<1>6. PyReports'
  BY <1>1, <1>2, <1>4 DEF PyReports
<1>7. ~Crossed(pLeft)'
  BY <1>1, <1>3, <1>4 DEF Crossed
<1> QED BY <1>5, <1>6, <1>7

LEMMA PyCancelKeeps ==
  ASSUME TypeOK, PyIndexed, PyReports, ~Crossed(pLeft), NEW o \in Order, PyCancel(o), UNCHANGED terms
  PROVE  PyIndexed' /\ PyReports' /\ ~Crossed(pLeft)'
<1>1. \A p \in Order : pLeft'[p] > 0 <=> pLeft[p] > 0 /\ p # o
  BY DEF PyCancel, PyIndexed, TypeOK, PyTypeOK
<1>2. PyIndexed'
  BY <1>1 DEF PyCancel, pyTaker, PyIndexed
<1>3. PyReports'
  BY DEF PyCancel, pyTaker, PyReports
<1>4. ~Crossed(pLeft)'
  BY <1>1 DEF Crossed
<1> QED BY <1>2, <1>3, <1>4

LEMMA PyMatchKeeps ==
  ASSUME TypeOK, PyIndexed, PyReports, ~Crossed(pLeft), NEW top \in Order, PyMatch(top), UNCHANGED terms
  PROVE  PyIndexed' /\ PyReports' /\ ~Crossed(pLeft)'
<1> DEFINE m == Least(pQty, pLeft[top])
<1>1. m \in Nat /\ m <= pLeft[top] /\ pLeft[top] \in Nat /\ pLeft \in [Order -> Nat]
  BY LeastOf DEF TypeOK, PyTypeOK
<1>2. pLeft' = [pLeft EXCEPT ![top] = @ - m]
  BY DEF PyMatch
<1> HIDE DEF m
<1>3. /\ \A p \in Order \ {top} : pLeft'[p] = pLeft[p]
      /\ pLeft'[top] \in Nat /\ pLeft'[top] <= pLeft[top]
  BY <1>1, <1>2
<1>4. /\ pHeap' \subseteq pHeap
      /\ pIndex' = IF pLeft'[top] <= 0 THEN pIndex \ {top} ELSE pIndex
      /\ UNCHANGED <<pTaking, pAck, pAckPrice>> /\ pPrice' = terms[top].price
      /\ pTaking # NoOrder /\ Suits(terms[pTaking], terms[top].price)
  BY DEF PyMatch
<1>5. PyIndexed'
  BY <1>1, <1>3, <1>4 DEF PyIndexed
<1>6. PyReports'
  BY <1>4 DEF PyReports
<1>7. ~Crossed(pLeft)'
  BY <1>1, <1>3 DEF Crossed
<1> QED BY <1>5, <1>6, <1>7

LEMMA PyAnswerKeeps ==
  ASSUME TypeOK, PyTypeOK', PyIndexed, PyReports, ~Crossed(pLeft), PyAnswer, UNCHANGED terms
  PROVE  PyIndexed' /\ PyReports' /\ ~Crossed(pLeft)'
<1> DEFINE t == terms[pTaking]
<1>1. pTaking \in Order /\ t \in Terms /\ pQty \in Nat
  BY DEF PyAnswer, PyIndexed, TypeOK, PyTypeOK
<1>2. PyReports'
  <2>1. pAck'.id = pTaking /\ pAckPrice' = pPrice /\ pPrice' = 0
    BY DEF PyAnswer, Ack
  <2> QED BY <1>1, <2>1 DEF PyReports
<1>3. CASE UNCHANGED pyResting
  BY <1>2, <1>3 DEF PyAnswer, pyResting, PyIndexed, Crossed
<1>4. CASE t.type = "limit" /\ pQty > 0 /\ PyInsert
  <2>1. /\ pLeft' = [pLeft EXCEPT ![pTaking] = pQty]
        /\ pHeap' = pHeap \cup {pTaking} /\ pIndex' = pIndex \cup {pTaking}
    BY <1>4 DEF PyInsert
  <2>2. PyIndexed'
    BY <1>1, <1>4, <2>1 DEF PyIndexed, PyAnswer, TypeOK, PyTypeOK
  <2>3. ASSUME NEW q \in Order, pLeft[q] > 0, terms[q].side = Opposite(t.side)
        PROVE  ~Suits(t, terms[q].price)
    BY <1>1, <1>4, <2>3, PyNoneSuits DEF PyAnswer
  <2>4. ~Crossed(pLeft)'
    <3> SUFFICES ASSUME NEW b \in Order, NEW a \in Order,
                        pLeft'[b] > 0, terms[b].side = "buy",
                        pLeft'[a] > 0, terms[a].side = "sell"
                 PROVE  ~(terms[a].price <= terms[b].price)
      BY DEF Crossed
    <3>1. terms[a].price \in Nat /\ terms[b].price \in Nat
      BY TermsTyped
    <3>2. CASE b = pTaking
      <4>1. pLeft[a] > 0 /\ Opposite(t.side) = "sell"
        BY <2>1, <3>2 DEF Opposite, TypeOK, PyTypeOK
      <4>2. ~Suits(t, terms[a].price)
        BY <2>3, <4>1
      <4> QED BY <3>1, <3>2, <4>2 DEF Suits
    <3>3. CASE a = pTaking
      <4>1. pLeft[b] > 0 /\ Opposite(t.side) = "buy"
        BY <2>1, <3>3 DEF Opposite, TypeOK, PyTypeOK
      <4>2. ~Suits(t, terms[b].price)
        BY <2>3, <4>1
      <4> QED BY <3>1, <3>3, <4>2 DEF Suits
    <3>4. CASE a # pTaking /\ b # pTaking
      BY <2>1, <3>4 DEF Crossed, TypeOK, PyTypeOK
    <3> QED BY <3>2, <3>3, <3>4
  <2> QED BY <1>2, <2>2, <2>4
<1> QED BY <1>2, <1>3, <1>4 DEF PyAnswer

-----------------------------------------------------------------------------
(* Vectors                                                                    *)

LEMMA InsertAtIs ==
  ASSUME NEW S, NEW s \in Seq(S), NEW i \in 1 .. Len(s) + 1, NEW e \in S
  PROVE  /\ InsertAt(s, i, e) \in Seq(S)
         /\ Len(InsertAt(s, i, e)) = Len(s) + 1
         /\ \A j \in 1 .. Len(s) + 1 : InsertAt(s, i, e)[j] =
              IF j < i THEN s[j] ELSE IF j = i THEN e ELSE s[j - 1]
<1> DEFINE a == SubSeq(s, 1, i - 1)
           b == SubSeq(s, i, Len(s))
<1>1. Len(s) \in Nat /\ \A j \in 1 .. Len(s) : s[j] \in S
  BY LenProperties
<1>2. a \in Seq(S) /\ Len(a) = i - 1 /\ \A j \in 1 .. i - 1 : a[j] = s[j]
  BY <1>1, SubSeqProperties
<1>3. b \in Seq(S) /\ Len(b) = Len(s) - i + 1 /\ \A j \in 1 .. Len(s) - i + 1 : b[j] = s[i + j - 1]
  BY <1>1, SubSeqProperties
<1>4. InsertAt(s, i, e) = (a \o <<e>>) \o b
  BY DEF InsertAt
<1> HIDE DEF a, b
<1> DEFINE c == a \o <<e>>
<1>5. c \in Seq(S) /\ Len(c) = i /\ c[i] = e /\ \A j \in 1 .. i - 1 : c[j] = s[j]
  BY <1>2
<1>6. InsertAt(s, i, e) = c \o b
  BY <1>4
<1> HIDE DEF c
<1>7. /\ c \o b \in Seq(S) /\ Len(c \o b) = Len(c) + Len(b)
      /\ \A j \in 1 .. Len(c) + Len(b) : (c \o b)[j] = IF j <= Len(c) THEN c[j] ELSE b[j - Len(c)]
  BY <1>3, <1>5, ConcatProperties
<1>8. Len(c) + Len(b) = Len(s) + 1
  BY <1>1, <1>3, <1>5
<1>9. ASSUME NEW j \in 1 .. Len(s) + 1
      PROVE  (c \o b)[j] = IF j < i THEN s[j] ELSE IF j = i THEN e ELSE s[j - 1]
  <2>1. CASE j < i
    BY <1>1, <1>5, <1>7, <1>8, <2>1
  <2>2. CASE j = i
    BY <1>1, <1>5, <1>7, <1>8, <2>2
  <2>3. CASE j > i
    <3>1. j - i \in 1 .. Len(s) - i + 1 /\ i + (j - i) - 1 = j - 1
      BY <1>1, <2>3
    <3>2. b[j - i] = s[j - 1]
      BY <1>3, <3>1
    <3> QED BY <1>1, <1>5, <1>7, <1>8, <2>3, <3>2
  <2>4. j \in Int /\ i \in Int
    BY <1>1
  <2>5. j < i \/ j = i \/ j > i
    BY <2>4
  <2> QED BY <2>1, <2>2, <2>3, <2>4, <2>5
<1> QED BY <1>6, <1>7, <1>8, <1>9

LEMMA RemoveAtIs ==
  ASSUME NEW S, NEW s \in Seq(S), NEW i \in 1 .. Len(s)
  PROVE  /\ RemoveAt(s, i) \in Seq(S)
         /\ Len(RemoveAt(s, i)) = Len(s) - 1
         /\ \A j \in 1 .. Len(s) - 1 : RemoveAt(s, i)[j] = IF j < i THEN s[j] ELSE s[j + 1]
<1> DEFINE a == SubSeq(s, 1, i - 1)
           b == SubSeq(s, i + 1, Len(s))
<1>1. Len(s) \in Nat /\ \A j \in 1 .. Len(s) : s[j] \in S
  BY LenProperties
<1>2. a \in Seq(S) /\ Len(a) = i - 1 /\ \A j \in 1 .. i - 1 : a[j] = s[j]
  BY <1>1, SubSeqProperties
<1>3. b \in Seq(S) /\ Len(b) = Len(s) - i /\ \A j \in 1 .. Len(s) - i : b[j] = s[i + j]
  <2>1. \A j \in i + 1 .. Len(s) : s[j] \in S
    BY <1>1
  <2>2. /\ b \in Seq(S)
        /\ Len(b) = IF i + 1 <= Len(s) THEN Len(s) - (i + 1) + 1 ELSE 0
        /\ \A j \in 1 .. Len(s) - (i + 1) + 1 : b[j] = s[(i + 1) + j - 1]
    BY <1>1, <2>1, SubSeqProperties
  <2> HIDE DEF b
  <2> QED BY <1>1, <2>2
<1>4. RemoveAt(s, i) = a \o b
  BY DEF RemoveAt
<1> HIDE DEF a, b
<1>5. /\ a \o b \in Seq(S) /\ Len(a \o b) = Len(a) + Len(b)
      /\ \A j \in 1 .. Len(a) + Len(b) : (a \o b)[j] = IF j <= Len(a) THEN a[j] ELSE b[j - Len(a)]
  BY <1>2, <1>3, ConcatProperties
<1>6. Len(a) + Len(b) = Len(s) - 1
  BY <1>1, <1>2, <1>3
<1>7. ASSUME NEW j \in 1 .. Len(s) - 1
      PROVE  (a \o b)[j] = IF j < i THEN s[j] ELSE s[j + 1]
  <2>1. CASE j < i
    BY <1>1, <1>2, <1>5, <1>6, <2>1
  <2>2. CASE j >= i
    <3>1. j - (i - 1) \in 1 .. Len(s) - i /\ i + (j - (i - 1)) = j + 1
      BY <1>1, <2>2
    <3>2. b[j - (i - 1)] = s[j + 1]
      BY <1>3, <3>1
    <3> QED BY <1>1, <1>2, <1>5, <1>6, <2>2, <3>2
  <2>3. j < i \/ j >= i
    BY <1>1
  <2> QED BY <1>1, <2>1, <2>2, <2>3
<1> QED BY <1>4, <1>5, <1>6, <1>7

-----------------------------------------------------------------------------
(* The C++ engine: its book                                                   *)

On(side, p) == \E i \in 1 .. Len(cBook[side]) : cBook[side][i] = p

\* The vectors hold what has something left, nothing else, and nothing twice.
CppShelved ==
  /\ \A side \in Side : \A p \in Order : On(side, p) =>
       cLeft[p] > 0 /\ terms[p].side = side /\ terms[p].type = "limit"
  /\ \A p \in Order : cLeft[p] > 0 => On("buy", p) \/ On("sell", p)
  /\ cTaking # NoOrder => terms[cTaking] \in Terms /\ cLeft[cTaking] = 0

\* The price of p is at least as good as that of q on their side of the book.
InFront(side, p, q) ==
  IF side = "buy" THEN terms[p].price >= terms[q].price ELSE terms[p].price <= terms[q].price

CppSorted == \A side \in Side : \A i, j \in 1 .. Len(cBook[side]) : i < j =>
  cBook[side][i] # cBook[side][j] /\ InFront(side, cBook[side][i], cBook[side][j])

CppReports ==
  /\ cPrice = 0 \/ (cTaking # NoOrder /\ Suits(terms[cTaking], cPrice))
  /\ \/ cAckPrice = 0
     \/ cAck.id \in Order /\ terms[cAck.id] \in Terms /\ Suits(terms[cAck.id], cAckPrice)

LEMMA CppElements ==
  ASSUME CppTypeOK, NEW side \in Side
  PROVE  /\ cBook[side] \in Seq(Order) /\ Len(cBook[side]) \in Nat
         /\ \A i \in 1 .. Len(cBook[side]) : cBook[side][i] \in Order /\ On(side, cBook[side][i])
<1>1. cBook[side] \in Seq(Order)
  BY DEF CppTypeOK
<1>2. Len(cBook[side]) \in Nat /\ \A i \in 1 .. Len(cBook[side]) : cBook[side][i] \in Order
  BY <1>1, LenProperties
<1> QED BY <1>1, <1>2 DEF On

\* The order at the front, when there is one.
LEMMA FrontIs ==
  ASSUME TypeOK, CppShelved, cTaking \in Order, Facing # << >>
  PROVE  LET side == Opposite(terms[cTaking].side)
             top == Head(Facing)
         IN  /\ side \in Side /\ cBook[side] = Facing /\ Facing \in Seq(Order)
             /\ Len(Facing) \in Nat \ {0} /\ top = Facing[1]
             /\ top \in Order /\ On(side, top) /\ terms[top].side = side
             /\ cLeft[top] \in Nat /\ cLeft[top] > 0
<1> DEFINE side == Opposite(terms[cTaking].side)
<1>1. side \in Side
  BY DEF Opposite, Side
<1>2. cBook[side] = Facing /\ Facing \in Seq(Order)
  BY <1>1 DEF Facing, TypeOK, CppTypeOK
<1>3. Len(Facing) \in Nat \ {0} /\ Head(Facing) = Facing[1]
  BY <1>2, EmptySeq
<1>4. Head(Facing) \in Order /\ On(side, Head(Facing))
  BY <1>1, <1>2, <1>3, CppElements DEF TypeOK
<1>5. cLeft[Head(Facing)] \in Nat
  BY <1>4 DEF TypeOK, CppTypeOK
<1> QED BY <1>1, <1>2, <1>3, <1>4, <1>5 DEF CppShelved

LEMMA CppTakeKeepsTypes ==
  ASSUME TypeOK, NEW o \in Order, NEW t \in Generate, CppTake(o, t)
  PROVE  CppTypeOK'
<1>1. t.qty \in Nat
  BY GenerateTyped, TermsFields
<1> QED BY <1>1 DEF CppTake, cppResting, TypeOK, CppTypeOK

LEMMA CppCancelKeepsTypes ==
  ASSUME TypeOK, NEW o \in Order, CppCancel(o)
  PROVE  CppTypeOK'
<1>1. {"cancelled", "rejected"} \subseteq Status
  BY DEF Status
<1>2. cAck' \in Acks
  BY <1>1, AckTyped DEF CppCancel, CppErase, CppNotFound
<1>3. CASE CppErase(o)
  <2> PICK side \in Side : \E i \in 1 .. Len(cBook[side]) : cBook' = [cBook EXCEPT ![side] = RemoveAt(@, i)]
    BY <1>3 DEF CppErase
  <2>1. PICK i \in 1 .. Len(cBook[side]) : cBook' = [cBook EXCEPT ![side] = RemoveAt(@, i)]
    OBVIOUS
  <2>2. RemoveAt(cBook[side], i) \in Seq(Order)
    BY RemoveAtIs DEF TypeOK, CppTypeOK
  <2>3. cBook' \in [Side -> Seq(Order)]
    BY <2>1, <2>2 DEF TypeOK, CppTypeOK
  <2>4. cLeft' \in [Order -> Nat]
    BY <1>3 DEF CppErase, TypeOK, CppTypeOK
  <2> QED BY <1>2, <2>3, <2>4 DEF CppCancel, cppTaker, TypeOK, CppTypeOK
<1>4. CASE CppNotFound(o)
  BY <1>2, <1>4 DEF CppCancel, CppNotFound, cppTaker, TypeOK, CppTypeOK
<1> QED BY <1>3, <1>4 DEF CppCancel

LEMMA CppMatchKeepsTypes ==
  ASSUME TypeOK, CppShelved, CppMatch
  PROVE  CppTypeOK'
<1> DEFINE top == Head(Facing)
           m == Least(cQty, cLeft[top])
<1>1. cTaking \in Order /\ Facing # << >>
  BY DEF CppMatch, TypeOK, CppTypeOK
<1>2. top \in Order /\ Facing \in Seq(Order) /\ cBook[terms[top].side] = Facing
  BY <1>1, FrontIs
<1>3. cQty \in Nat /\ cLeft[top] \in Nat /\ terms[top].price \in Nat
  BY <1>2, TermsTyped DEF TypeOK, CppTypeOK
<1>4. m \in Nat /\ m <= cQty /\ m <= cLeft[top]
  BY <1>3, LeastOf
<1>5. /\ cPrice' = terms[top].price /\ cFilled' = cFilled + m /\ cQty' = cQty - m
      /\ cLeft' = [cLeft EXCEPT ![top] = @ - m]
      /\ cBook' = cBook \/ cBook' = [cBook EXCEPT ![terms[top].side] = Tail(@)]
      /\ UNCHANGED <<cStamp, cClock, cTaking, cAck, cAckPrice>>
  BY DEF CppMatch
<1>6. Tail(cBook[terms[top].side]) \in Seq(Order)
  BY <1>1, <1>2, HeadTailProperties
<1> HIDE DEF m, top
<1>7. cBook' \in [Side -> Seq(Order)]
  BY <1>5, <1>6 DEF TypeOK, CppTypeOK
<1>8. cLeft' \in [Order -> Nat] /\ cQty' \in Nat /\ cFilled' \in Nat /\ cPrice' \in Nat
  BY <1>2, <1>3, <1>4, <1>5 DEF TypeOK, CppTypeOK
<1> QED BY <1>5, <1>7, <1>8 DEF TypeOK, CppTypeOK

LEMMA CppAnswerKeepsTypes ==
  ASSUME TypeOK, CppShelved, CppAnswer
  PROVE  CppTypeOK'
<1>1. cTaking \in Order
  BY DEF CppAnswer, TypeOK, CppTypeOK
<1>2. cAck' \in Acks /\ cAckPrice' \in Nat
  BY <1>1, StatusTyped, AckTyped DEF CppAnswer, TypeOK, CppTypeOK
<1>3. CASE CppInsert
  <2> DEFINE side == terms[cTaking].side
  <2>1. side \in Side
    BY <1>1, OrderAssumption, TermsTyped DEF CppShelved
  <2>2. PICK i \in 1 .. Len(cBook[side]) + 1 : cBook' = [cBook EXCEPT ![side] = InsertAt(@, i, cTaking)]
    BY <1>3 DEF CppInsert
  <2>3. InsertAt(cBook[side], i, cTaking) \in Seq(Order)
    BY <1>1, <2>1, InsertAtIs DEF TypeOK, CppTypeOK
  <2> HIDE DEF side
  <2>4. cBook' \in [Side -> Seq(Order)]
    BY <2>2, <2>3 DEF TypeOK, CppTypeOK
  <2>5. cClock' \in Int
    BY <1>3, OrderAssumption DEF CppInsert, TypeOK, CppTypeOK
  <2>6. cStamp' \in [Order -> Int] /\ cLeft' \in [Order -> Nat]
    BY <1>3, <2>5 DEF CppInsert, TypeOK, CppTypeOK
  <2> QED BY <1>2, <2>4, <2>5, <2>6 DEF CppAnswer, CppTypeOK
<1>4. CASE UNCHANGED cppResting
  BY <1>2, <1>4 DEF CppAnswer, cppResting, TypeOK, CppTypeOK
<1> QED BY <1>3, <1>4 DEF CppAnswer

\* An order with something left was sent as a limit order.
LEMMA CppLeftIsLimit ==
  ASSUME TypeOK, CppShelved, NEW o \in Order, cLeft[o] > 0
  PROVE  terms[o].type = "limit" /\ terms[o] \in Terms
         /\ \E side \in Side : On(side, o) /\ terms[o].side = side
BY TermsTyped DEF CppShelved, Side

LEMMA CppSubmitKeeps ==
  ASSUME TypeOK, CppShelved, CppSorted, CppReports, ~Crossed(cLeft),
         NEW o \in Order, terms[o] = NotSent,
         NEW t \in Generate, terms' = [terms EXCEPT ![o] = t], CppTake(o, t)
  PROVE  CppShelved' /\ CppSorted' /\ CppReports' /\ ~Crossed(cLeft)'
<1>1. t \in Terms /\ terms'[o] = t /\ \A p \in Order \ {o} : terms'[p] = terms[p]
  BY GenerateTyped DEF TypeOK
<1>2. terms[o] \notin Terms /\ terms[o].type = "none"
  BY TermsTyped DEF NotSent
<1>3. cLeft[o] = 0 /\ \A side \in Side : ~On(side, o)
  <2>1. cLeft[o] \in Nat
    BY DEF TypeOK, CppTypeOK
  <2> QED BY <1>2, <2>1, CppLeftIsLimit DEF CppShelved
<1>4. UNCHANGED <<cBook, cLeft, cAck, cAckPrice>> /\ cTaking' = o /\ cPrice' = 0
  BY DEF CppTake, cppResting
<1>5. \A side \in Side, p \in Order : On(side, p)' <=> On(side, p)
  BY <1>4 DEF On
<1>6. CppShelved'
  BY <1>1, <1>3, <1>4, <1>5 DEF CppShelved, Side
<1>7. CppSorted'
  <2>1. \A side \in Side : \A i \in 1 .. Len(cBook[side]) :
          cBook[side][i] \in Order \ {o}
    BY <1>3, CppElements DEF TypeOK
  <2> QED BY <1>1, <1>4, <2>1 DEF CppSorted, InFront
<1>8. CppReports'
  BY <1>1, <1>2, <1>4 DEF CppReports
<1>9. ~Crossed(cLeft)'
  BY <1>1, <1>3, <1>4 DEF Crossed
<1> QED BY <1>6, <1>7, <1>8, <1>9

\* A vector without one of its elements, wherever it was: the others stay, in
\* their order.
CppRemoves(side, i) == \E q \in Seq(Order) :
  /\ Len(q) = Len(cBook[side]) - 1
  /\ \A j \in 1 .. Len(cBook[side]) - 1 : q[j] = IF j < i THEN cBook[side][j] ELSE cBook[side][j + 1]
  /\ cBook' = [cBook EXCEPT ![side] = q]

CppLeaves(side, o) == \A s \in Side, p \in Order : On(s, p)' <=> On(s, p) /\ (s = side => p # o)

CppOrderKept == \A s \in Side : \A j, k \in 1 .. Len(cBook'[s]) : j < k =>
  \E j1, k1 \in 1 .. Len(cBook[s]) :
    j1 < k1 /\ cBook'[s][j] = cBook[s][j1] /\ cBook'[s][k] = cBook[s][k1]

LEMMA CppRemovalKeeps ==
  ASSUME TypeOK, CppShelved, CppSorted, UNCHANGED terms,
         NEW side \in Side, NEW i \in 1 .. Len(cBook[side]), NEW o \in Order, cBook[side][i] = o,
         CppRemoves(side, i)
  PROVE  CppSorted' /\ CppLeaves(side, o) /\ CppOrderKept
<1> DEFINE b == cBook[side]
           at(j) == IF j < i THEN j ELSE j + 1
<1>0. PICK q \in Seq(Order) :
         /\ Len(q) = Len(b) - 1
         /\ \A j \in 1 .. Len(b) - 1 : q[j] = IF j < i THEN b[j] ELSE b[j + 1]
         /\ cBook' = [cBook EXCEPT ![side] = q]
  BY DEF CppRemoves
<1>1. b \in Seq(Order) /\ Len(b) \in Nat
  BY CppElements DEF TypeOK
<1>2. cBook'[side] = q /\ \A s \in Side \ {side} : cBook'[s] = cBook[s]
  BY <1>0 DEF TypeOK, CppTypeOK
<1>3. \A j \in 1 .. Len(q) : at(j) \in 1 .. Len(b) /\ at(j) # i /\ q[j] = b[at(j)]
  BY <1>0, <1>1
<1>4. \A j, k \in 1 .. Len(q) : j < k => at(j) < at(k)
  BY <1>0, <1>1
<1>5. \A k \in 1 .. Len(b) : k # i => \E j \in 1 .. Len(q) : at(j) = k
  <2> TAKE k \in 1 .. Len(b)
  <2>1. CASE k < i
    <3>1. k \in 1 .. Len(q) /\ at(k) = k
      BY <1>0, <1>1, <2>1
    <3> QED BY <3>1
  <2>2. CASE k > i
    <3>1. k - 1 \in 1 .. Len(q) /\ at(k - 1) = k
      BY <1>0, <1>1, <2>2
    <3> QED BY <3>1
  <2> QED BY <1>1, <2>1, <2>2
<1> HIDE DEF at
<1>6. \A k \in 1 .. Len(b) : k # i => b[k] # o
  BY <1>1 DEF CppSorted
<1>7. \A p \in Order : On(side, p)' <=> On(side, p) /\ p # o
  <2> TAKE p \in Order
  <2>1. On(side, p)' <=> \E j \in 1 .. Len(q) : q[j] = p
    BY <1>2 DEF On
  <2>2. On(side, p) <=> \E k \in 1 .. Len(b) : b[k] = p
    BY DEF On
  <2>3. On(side, p)' => On(side, p) /\ p # o
    BY <1>3, <1>6, <2>1, <2>2
  <2>4. ASSUME On(side, p), p # o PROVE On(side, p)'
    <3>1. PICK k \in 1 .. Len(b) : b[k] = p
      BY <2>2, <2>4
    <3>2. PICK j \in 1 .. Len(q) : at(j) = k
      BY <1>5, <2>4, <3>1
    <3>3. q[j] = p
      BY <1>3, <3>1, <3>2
    <3> QED BY <2>1, <3>3
  <2> QED BY <2>3, <2>4
<1>8. \A s \in Side \ {side}, p \in Order : On(s, p)' <=> On(s, p)
  BY <1>2 DEF On
<1>9. ASSUME NEW s \in Side, NEW j \in 1 .. Len(cBook'[s]), NEW k \in 1 .. Len(cBook'[s]), j < k
      PROVE  \E j1, k1 \in 1 .. Len(cBook[s]) :
               j1 < k1 /\ cBook'[s][j] = cBook[s][j1] /\ cBook'[s][k] = cBook[s][k1]
  <2>1. CASE s = side
    <3>1. at(j) \in 1 .. Len(b) /\ at(k) \in 1 .. Len(b) /\ at(j) < at(k)
      BY <1>2, <1>3, <1>4, <1>9, <2>1
    <3>2. q[j] = b[at(j)] /\ q[k] = b[at(k)]
      BY <1>2, <1>3, <2>1
    <3> QED BY <1>2, <2>1, <3>1, <3>2
  <2>2. CASE s # side
    BY <1>2, <1>9, <2>2
  <2> QED BY <2>1, <2>2
<1>10. CppSorted'
  <2> SUFFICES ASSUME NEW s \in Side, NEW j \in 1 .. Len(cBook'[s]), NEW k \in 1 .. Len(cBook'[s]), j < k
               PROVE  /\ cBook'[s][j] # cBook'[s][k]
                      /\ InFront(s, cBook'[s][j], cBook'[s][k])
    BY DEF CppSorted, InFront
  <2>1. PICK j1 \in 1 .. Len(cBook[s]), k1 \in 1 .. Len(cBook[s]) :
          j1 < k1 /\ cBook'[s][j] = cBook[s][j1] /\ cBook'[s][k] = cBook[s][k1]
    BY <1>9
  <2> QED BY <2>1 DEF CppSorted
<1> QED BY <1>7, <1>8, <1>9, <1>10 DEF CppLeaves, CppOrderKept

LEMMA CppCancelKeeps ==
  ASSUME TypeOK, CppShelved, CppSorted, CppReports, ~Crossed(cLeft), NEW o \in Order, CppCancel(o),
         UNCHANGED terms
  PROVE  CppShelved' /\ CppSorted' /\ CppReports' /\ ~Crossed(cLeft)'
<1>1. CppReports'
  BY DEF CppCancel, cppTaker, CppReports
<1>2. CASE CppNotFound(o)
  BY <1>1, <1>2 DEF CppCancel, CppNotFound, cppTaker, CppShelved, CppSorted, InFront, On, Crossed
<1>3. CASE CppErase(o)
  <2> PICK side \in Side : \E i \in 1 .. Len(cBook[side]) :
             cBook[side][i] = o /\ cBook' = [cBook EXCEPT ![side] = RemoveAt(@, i)]
    BY <1>3 DEF CppErase
  <2> PICK i \in 1 .. Len(cBook[side]) :
             cBook[side][i] = o /\ cBook' = [cBook EXCEPT ![side] = RemoveAt(@, i)]
    OBVIOUS
  <2>1. cBook[side] \in Seq(Order) /\ cBook' = [cBook EXCEPT ![side] = RemoveAt(cBook[side], i)]
    BY CppElements DEF TypeOK
  <2>2. CppRemoves(side, i)
    <3>1. /\ RemoveAt(cBook[side], i) \in Seq(Order)
          /\ Len(RemoveAt(cBook[side], i)) = Len(cBook[side]) - 1
          /\ \A j \in 1 .. Len(cBook[side]) - 1 :
               RemoveAt(cBook[side], i)[j] = IF j < i THEN cBook[side][j] ELSE cBook[side][j + 1]
      BY <2>1, RemoveAtIs
    <3> QED BY <2>1, <3>1 DEF CppRemoves
  <2>3. CppSorted' /\ \A s \in Side, p \in Order : On(s, p)' <=> On(s, p) /\ (s = side => p # o)
    BY <2>2, CppRemovalKeeps DEF CppLeaves
  <2>4. cLeft' = [cLeft EXCEPT ![o] = 0] /\ UNCHANGED cTaking
    BY <1>3 DEF CppErase, CppCancel, cppTaker
  <2>5. On(side, o) /\ terms[o].side = side
    BY DEF On, CppShelved
  <2>6. CppShelved'
    <3>1. \A s \in Side, p \in Order : On(s, p)' => p # o /\ On(s, p)
      BY <2>3, <2>5 DEF CppShelved
    <3>2. \A p \in Order \ {o} : cLeft'[p] = cLeft[p]
      BY <2>4 DEF TypeOK, CppTypeOK
    <3>3. cLeft'[o] = 0
      BY <2>4 DEF TypeOK, CppTypeOK
    <3>4. \A p \in Order : cLeft'[p] > 0 => On("buy", p)' \/ On("sell", p)'
      BY <2>3, <3>2, <3>3 DEF CppShelved, Side
    <3>5. cTaking # NoOrder => terms[cTaking] \in Terms /\ cLeft'[cTaking] = 0
      BY <3>2, <3>3 DEF CppShelved, TypeOK, CppTypeOK
    <3> QED BY <2>4, <3>1, <3>2, <3>4, <3>5 DEF CppShelved
  <2>7. ~Crossed(cLeft)'
    BY <2>4 DEF Crossed, TypeOK, CppTypeOK
  <2> QED BY <1>1, <2>3, <2>6, <2>7
<1> QED BY <1>2, <1>3 DEF CppCancel

LEMMA CppMatchKeeps ==
  ASSUME TypeOK, CppShelved, CppSorted, CppReports, ~Crossed(cLeft), CppMatch, UNCHANGED terms
  PROVE  CppShelved' /\ CppSorted' /\ CppReports' /\ ~Crossed(cLeft)'
<1> DEFINE top == Head(Facing)
           m == Least(cQty, cLeft[top])
           side == Opposite(terms[cTaking].side)
<1>1. cTaking \in Order /\ Facing # << >>
  BY DEF CppMatch, TypeOK, CppTypeOK
<1>2. /\ side \in Side /\ top \in Order /\ Facing \in Seq(Order) /\ cBook[side] = Facing
      /\ terms[top].side = side /\ top = Facing[1] /\ Len(Facing) \in Nat \ {0} /\ On(side, top)
      /\ cLeft[top] \in Nat /\ cLeft[top] > 0
  BY <1>1, FrontIs
<1>3. m \in Nat /\ m <= cLeft[top]
  BY <1>2, LeastOf DEF TypeOK, CppTypeOK
<1>4. /\ cLeft' = [cLeft EXCEPT ![top] = @ - m]
      /\ cBook' = IF cLeft'[top] = 0 THEN [cBook EXCEPT ![side] = Tail(@)] ELSE cBook
      /\ Suits(terms[cTaking], terms[top].price) /\ cPrice' = terms[top].price
      /\ UNCHANGED <<cTaking, cAck, cAckPrice>>
  BY <1>2 DEF CppMatch
<1>5. CppReports'
  BY <1>1, <1>4, OrderAssumption DEF CppReports
<1>6. Len(Tail(Facing)) = Len(Facing) - 1 /\ Tail(Facing) \in Seq(Order)
      /\ \A j \in 1 .. Len(Facing) - 1 : Tail(Facing)[j] = Facing[j + 1]
  BY <1>1, <1>2, HeadTailProperties
<1> HIDE DEF m, top, side
<1>7. cLeft'[top] \in Nat /\ cLeft'[top] <= cLeft[top] /\ \A p \in Order \ {top} : cLeft'[p] = cLeft[p]
  BY <1>2, <1>3, <1>4 DEF TypeOK, CppTypeOK
<1>8. ~Crossed(cLeft)'
  BY <1>2, <1>7 DEF Crossed, TypeOK, CppTypeOK
<1>9. CASE cLeft'[top] = 0
  <2>1. cBook' = [cBook EXCEPT ![side] = Tail(Facing)]
    BY <1>2, <1>4, <1>9
  <2>2. \A j \in 1 .. Len(Facing) - 1 : Tail(Facing)[j] = IF j < 1 THEN Facing[j] ELSE Facing[j + 1]
    BY <1>6
  <2>3. CppSorted' /\ \A s \in Side, p \in Order : On(s, p)' <=> On(s, p) /\ (s = side => p # top)
    <3>1. CppRemoves(side, 1)
      BY <1>2, <1>6, <2>1, <2>2 DEF CppRemoves
    <3>2. 1 \in 1 .. Len(cBook[side]) /\ cBook[side][1] = top
      BY <1>2
    <3> QED BY <1>2, <3>1, <3>2, CppRemovalKeeps DEF CppLeaves
  <2>4. \A s \in Side, p \in Order : On(s, p)' => p # top /\ On(s, p)
    BY <1>2, <2>3 DEF CppShelved
  <2>5. CppShelved'
    <3>1. \A p \in Order : cLeft'[p] > 0 => On("buy", p)' \/ On("sell", p)'
      BY <1>7, <1>9, <2>3 DEF CppShelved, Side
    <3>2. cTaking # NoOrder => terms[cTaking] \in Terms /\ cLeft'[cTaking] = 0
      BY <1>1, <1>7, <1>9 DEF CppShelved
    <3> QED BY <1>4, <1>7, <2>4, <3>1, <3>2 DEF CppShelved
  <2> QED BY <1>5, <1>8, <2>3, <2>5
<1>10. CASE cLeft'[top] # 0
  <2>1. UNCHANGED cBook
    BY <1>4, <1>10
  <2>2. CppSorted' /\ \A s \in Side, p \in Order : On(s, p)' <=> On(s, p)
    BY <2>1 DEF CppSorted, InFront, On
  <2>3. \A p \in Order : cLeft'[p] > 0 <=> cLeft[p] > 0
    BY <1>2, <1>7, <1>10
  <2>4. cTaking # NoOrder => terms[cTaking] \in Terms /\ cLeft'[cTaking] = 0
    BY <1>1, <1>2, <1>7 DEF CppShelved
  <2>5. CppShelved'
    BY <1>4, <2>2, <2>3, <2>4 DEF CppShelved, Side
  <2> QED BY <1>5, <1>8, <2>2, <2>5
<1> QED BY <1>9, <1>10

\* When the loop ends with something left of the order, no order that rests
\* suits it: the front of the vector is enough to look at.
LEMMA CppNoneSuits ==
  ASSUME TypeOK, CppShelved, CppSorted, cTaking \in Order, CppLoopEnds, cQty > 0,
         NEW q \in Order, cLeft[q] > 0, terms[q].side = Opposite(terms[cTaking].side)
  PROVE  ~Suits(terms[cTaking], terms[q].price)
<1> DEFINE t == terms[cTaking]
           side == Opposite(t.side)
           top == Head(Facing)
<1>1. side \in Side /\ Facing = cBook[side]
  BY DEF Opposite, Side, Facing
<1>2. On(side, q)
  <2>1. PICK s \in Side : On(s, q) /\ terms[q].side = s
    BY CppLeftIsLimit
  <2> QED BY <2>1
<1>3. PICK i \in 1 .. Len(cBook[side]) : cBook[side][i] = q
  BY <1>2 DEF On
<1>4. Facing # << >>
  BY <1>1, <1>3, EmptySeq
<1>5. top \in Order /\ top = Facing[1] /\ Len(Facing) \in Nat \ {0}
  BY <1>4, FrontIs
<1>6. ~Suits(t, terms[top].price)
  BY <1>4 DEF CppLoopEnds
<1>7. t \in Terms /\ t.price \in Nat /\ terms[top].price \in Nat /\ terms[q].price \in Nat
  BY <1>5, OrderAssumption, TermsTyped DEF CppShelved
<1>8. q = top \/ InFront(side, top, q)
  BY <1>1, <1>3, <1>5 DEF CppSorted
<1>9. t.type \in {"limit", "market"} /\ t.side \in Side
  BY <1>7, TermsFields
<1> HIDE DEF t
<1> QED BY <1>6, <1>7, <1>8, <1>9 DEF Suits, InFront, Opposite, Side, t

\* A vector with one more element, at place i: the others stay, in their order.
CppInserted(side, i, o) == \A s \in Side : \A j, k \in 1 .. Len(cBook'[s]) : j < k =>
  \/ \E j1, k1 \in 1 .. Len(cBook[s]) :
       j1 < k1 /\ cBook'[s][j] = cBook[s][j1] /\ cBook'[s][k] = cBook[s][k1]
  \/ s = side /\ cBook'[s][j] = o
     /\ \E k1 \in 1 .. Len(cBook[s]) : k1 >= i /\ cBook'[s][k] = cBook[s][k1]
  \/ s = side /\ cBook'[s][k] = o
     /\ \E j1 \in 1 .. Len(cBook[s]) : j1 < i /\ cBook'[s][j] = cBook[s][j1]

LEMMA CppInsertion ==
  ASSUME TypeOK, NEW side \in Side, NEW i \in 1 .. Len(cBook[side]) + 1, NEW o \in Order,
         cBook' = [cBook EXCEPT ![side] = InsertAt(@, i, o)]
  PROVE  /\ CppInserted(side, i, o)
         /\ \A s \in Side, p \in Order : On(s, p)' <=> On(s, p) \/ (s = side /\ p = o)
<1> DEFINE b == cBook[side]
           q == InsertAt(b, i, o)
<1>1. b \in Seq(Order) /\ Len(b) \in Nat /\ i \in 1 .. Len(b) + 1
  BY CppElements DEF TypeOK
<1>2. cBook'[side] = q /\ \A s \in Side \ {side} : cBook'[s] = cBook[s]
  BY DEF TypeOK, CppTypeOK
<1> HIDE DEF b
<1>3. /\ Len(q) = Len(b) + 1
      /\ \A j \in 1 .. Len(b) + 1 : q[j] = IF j < i THEN b[j] ELSE IF j = i THEN o ELSE b[j - 1]
  BY <1>1, InsertAtIs
<1> USE DEF b
<1> HIDE DEF q
<1>4. CppInserted(side, i, o)
  <2> SUFFICES ASSUME NEW s \in Side, NEW j \in 1 .. Len(cBook'[s]), NEW k \in 1 .. Len(cBook'[s]), j < k
               PROVE  \/ \E j1, k1 \in 1 .. Len(cBook[s]) :
                           j1 < k1 /\ cBook'[s][j] = cBook[s][j1] /\ cBook'[s][k] = cBook[s][k1]
                      \/ s = side /\ cBook'[s][j] = o
                         /\ \E k1 \in 1 .. Len(cBook[s]) : k1 >= i /\ cBook'[s][k] = cBook[s][k1]
                      \/ s = side /\ cBook'[s][k] = o
                         /\ \E j1 \in 1 .. Len(cBook[s]) : j1 < i /\ cBook'[s][j] = cBook[s][j1]
    BY DEF CppInserted
  <2>1. CASE s # side
    BY <1>2, <2>1
  <2>2. CASE s = side
    <3>1. j \in 1 .. Len(b) + 1 /\ k \in 1 .. Len(b) + 1
      BY <1>2, <1>3, <2>2
    <3>2. CASE j = i
      <4>1. k - 1 \in 1 .. Len(b) /\ k - 1 >= i /\ q[k] = b[k - 1] /\ q[j] = o
        BY <1>1, <1>3, <3>1, <3>2
      <4> QED BY <1>2, <2>2, <4>1
    <3>3. CASE k = i
      <4>1. j \in 1 .. Len(b) /\ j < i /\ q[j] = b[j] /\ q[k] = o
        BY <1>1, <1>3, <3>1, <3>3
      <4> QED BY <1>2, <2>2, <4>1
    <3>4. CASE j # i /\ k # i
      <4> DEFINE at(n) == IF n < i THEN n ELSE n - 1
      <4>1. /\ at(j) \in 1 .. Len(b) /\ at(k) \in 1 .. Len(b) /\ at(j) < at(k)
            /\ q[j] = b[at(j)] /\ q[k] = b[at(k)]
        BY <1>1, <1>3, <3>1, <3>4
      <4> HIDE DEF at
      <4> QED BY <1>2, <2>2, <4>1
    <3> QED BY <3>2, <3>3, <3>4
  <2> QED BY <2>1, <2>2
<1>5. \A p \in Order : On(side, p)' <=> On(side, p) \/ p = o
  <2> TAKE p \in Order
  <2>1. On(side, p)' <=> \E j \in 1 .. Len(b) + 1 : q[j] = p
    BY <1>2, <1>3 DEF On
  <2>2. On(side, p) <=> \E j \in 1 .. Len(b) : b[j] = p
    BY DEF On
  <2>3. \A j \in 1 .. Len(b) + 1 : q[j] = o \/ \E k \in 1 .. Len(b) : q[j] = b[k]
    <3> TAKE j \in 1 .. Len(b) + 1
    <3>1. CASE j < i
      BY <1>1, <1>3, <3>1
    <3>2. CASE j = i
      BY <1>1, <1>3, <3>2
    <3>3. CASE j > i
      <4>1. j - 1 \in 1 .. Len(b) /\ q[j] = b[j - 1]
        BY <1>1, <1>3, <3>3
      <4> QED BY <4>1
    <3> QED BY <1>1, <3>1, <3>2, <3>3
  <2>4. i \in 1 .. Len(b) + 1 /\ q[i] = o
    BY <1>1, <1>3
  <2>5. \A k \in 1 .. Len(b) : \E j \in 1 .. Len(b) + 1 : q[j] = b[k]
    <3> TAKE k \in 1 .. Len(b)
    <3>1. CASE k < i
      BY <1>1, <1>3, <3>1
    <3>2. CASE k >= i
      <4>1. k + 1 \in 1 .. Len(b) + 1 /\ q[k + 1] = b[k]
        BY <1>1, <1>3, <3>2
      <4> QED BY <4>1
    <3> QED BY <1>1, <3>1, <3>2
  <2> QED BY <2>1, <2>2, <2>3, <2>4, <2>5
<1>6. \A s \in Side \ {side}, p \in Order : On(s, p)' <=> On(s, p)
  BY <1>2 DEF On
<1> QED BY <1>4, <1>5, <1>6

LEMMA CppInsertKeepsSorted ==
  ASSUME TypeOK, CppShelved, CppSorted, cTaking \in Order, CppInsert, UNCHANGED terms
  PROVE  CppSorted' /\ \A s \in Side, p \in Order :
                         On(s, p)' <=> On(s, p) \/ (s = terms[cTaking].side /\ p = cTaking)
<1> DEFINE side == terms[cTaking].side
           price == terms[cTaking].price
<1>1. terms[cTaking] \in Terms /\ side \in Side /\ price \in Nat
  BY OrderAssumption, TermsTyped DEF CppShelved
<1>2. PICK i \in 1 .. Len(cBook[side]) + 1 :
         /\ \A j \in 1 .. Len(cBook[side]) : CppBefore(side, cBook[side][j], price) <=> j < i
         /\ cBook' = [cBook EXCEPT ![side] = InsertAt(@, i, cTaking)]
  BY DEF CppInsert
<1> HIDE DEF side, price
<1>3. CppInserted(side, i, cTaking)
      /\ \A s \in Side, p \in Order : On(s, p)' <=> On(s, p) \/ (s = side /\ p = cTaking)
  BY <1>1, <1>2, CppInsertion
<1>4. \A j \in 1 .. Len(cBook[side]) :
        /\ cBook[side][j] \in Order /\ cBook[side][j] # cTaking
        /\ terms[cBook[side][j]].price \in Nat
  <2> TAKE j \in 1 .. Len(cBook[side])
  <2>1. cBook[side][j] \in Order /\ On(side, cBook[side][j])
    BY <1>1, CppElements DEF TypeOK
  <2>2. cBook[side][j] # cTaking
    BY <1>1, <2>1, OrderAssumption DEF CppShelved
  <2> QED BY <2>1, <2>2, TermsTyped
<1>5. \A j \in 1 .. Len(cBook[side]) :
        /\ j < i => InFront(side, cBook[side][j], cTaking)
        /\ j >= i => InFront(side, cTaking, cBook[side][j])
  <2> TAKE j \in 1 .. Len(cBook[side])
  <2>1. CASE j < i
    <3>1. CppBefore(side, cBook[side][j], price)
      BY <1>2, <2>1
    <3> QED BY <1>1, <1>2, <1>4, <2>1, <3>1 DEF CppBefore, InFront, price, Side
  <2>2. CASE j >= i
    <3>1. ~CppBefore(side, cBook[side][j], price)
      BY <1>2, <2>2
    <3> QED BY <1>1, <1>2, <1>4, <2>2, <3>1 DEF CppBefore, InFront, price, Side
  <2> QED BY <2>1, <2>2
<1>6. CppSorted'
  <2> SUFFICES ASSUME NEW s \in Side, NEW j \in 1 .. Len(cBook'[s]), NEW k \in 1 .. Len(cBook'[s]), j < k
               PROVE  /\ cBook'[s][j] # cBook'[s][k]
                      /\ InFront(s, cBook'[s][j], cBook'[s][k])
    BY DEF CppSorted, InFront
  <2>1. CASE \E j1, k1 \in 1 .. Len(cBook[s]) :
               j1 < k1 /\ cBook'[s][j] = cBook[s][j1] /\ cBook'[s][k] = cBook[s][k1]
    BY <2>1 DEF CppSorted
  <2>2. CASE s = side /\ cBook'[s][j] = cTaking
             /\ \E k1 \in 1 .. Len(cBook[s]) : k1 >= i /\ cBook'[s][k] = cBook[s][k1]
    BY <1>4, <1>5, <2>2
  <2>3. CASE s = side /\ cBook'[s][k] = cTaking
             /\ \E j1 \in 1 .. Len(cBook[s]) : j1 < i /\ cBook'[s][j] = cBook[s][j1]
    BY <1>4, <1>5, <2>3
  <2> QED BY <1>3, <2>1, <2>2, <2>3 DEF CppInserted
<1> QED BY <1>3, <1>6 DEF side

LEMMA CppAnswerKeeps ==
  ASSUME TypeOK, CppShelved, CppSorted, CppReports, ~Crossed(cLeft), CppAnswer, UNCHANGED terms
  PROVE  CppShelved' /\ CppSorted' /\ CppReports' /\ ~Crossed(cLeft)'
<1> DEFINE t == terms[cTaking]
<1>1. cTaking \in Order /\ t \in Terms /\ cQty \in Nat
  BY DEF CppAnswer, CppShelved, TypeOK, CppTypeOK
<1>2. CppReports'
  <2>1. cAck'.id = cTaking /\ cAckPrice' = cPrice /\ cPrice' = 0
    BY DEF CppAnswer, Ack
  <2> QED BY <1>1, <2>1 DEF CppReports
<1>3. CASE UNCHANGED cppResting
  BY <1>2, <1>3 DEF CppAnswer, cppResting, CppShelved, CppSorted, InFront, On, Crossed
<1>4. CASE t.type = "limit" /\ cQty > 0 /\ CppInsert
  <2>1. cLeft' = [cLeft EXCEPT ![cTaking] = cQty] /\ cTaking' = NoOrder
    BY <1>4 DEF CppInsert, CppAnswer
  <2>2. CppSorted' /\ \A s \in Side, p \in Order : On(s, p)' <=> On(s, p) \/ (s = t.side /\ p = cTaking)
    BY <1>1, <1>4, CppInsertKeepsSorted
  <2>3. cLeft'[cTaking] = cQty /\ \A p \in Order \ {cTaking} : cLeft'[p] = cLeft[p]
    BY <1>1, <2>1 DEF TypeOK, CppTypeOK
  <2>4. t.side \in Side
    BY <1>1, TermsFields
  <2>5. CppShelved'
    <3>1. \A s \in Side, p \in Order : On(s, p)' =>
            cLeft'[p] > 0 /\ terms[p].side = s /\ terms[p].type = "limit"
      BY <1>1, <1>4, <2>2, <2>3 DEF CppShelved
    <3>2. \A p \in Order : cLeft'[p] > 0 => On("buy", p)' \/ On("sell", p)'
      BY <1>1, <2>2, <2>3, <2>4 DEF CppShelved, Side
    <3> QED BY <2>1, <3>1, <3>2 DEF CppShelved
  <2>6. ASSUME NEW q \in Order, cLeft[q] > 0, terms[q].side = Opposite(t.side)
        PROVE  ~Suits(t, terms[q].price)
    BY <1>1, <1>4, <2>6, CppNoneSuits DEF CppAnswer
  <2>7. ~Crossed(cLeft)'
    <3> SUFFICES ASSUME NEW b \in Order, NEW a \in Order,
                        cLeft'[b] > 0, terms[b].side = "buy",
                        cLeft'[a] > 0, terms[a].side = "sell"
                 PROVE  ~(terms[a].price <= terms[b].price)
      BY DEF Crossed
    <3>1. terms[a].price \in Nat /\ terms[b].price \in Nat
      BY TermsTyped
    <3>2. CASE b = cTaking
      <4>1. cLeft[a] > 0 /\ Opposite(t.side) = "sell"
        BY <2>3, <3>2 DEF Opposite
      <4>2. ~Suits(t, terms[a].price)
        BY <2>6, <4>1
      <4> QED BY <3>1, <3>2, <4>2 DEF Suits
    <3>3. CASE a = cTaking
      <4>1. cLeft[b] > 0 /\ Opposite(t.side) = "buy"
        BY <2>3, <3>3 DEF Opposite
      <4>2. ~Suits(t, terms[b].price)
        BY <2>6, <4>1
      <4> QED BY <3>1, <3>3, <4>2 DEF Suits
    <3>4. CASE a # cTaking /\ b # cTaking
      BY <2>3, <3>4 DEF Crossed
    <3> QED BY <3>2, <3>3, <3>4
  <2> QED BY <1>2, <2>2, <2>5, <2>7
<1> QED BY <1>2, <1>3, <1>4 DEF CppAnswer

-----------------------------------------------------------------------------
(* The invariant, and what it implies                                         *)

Inv == /\ TypeOK
       /\ PyIndexed /\ PyReports
       /\ CppShelved /\ CppSorted /\ CppReports
       /\ NotCrossed

LEMMA InitialInv == Init => Inv
<1> SUFFICES ASSUME Init PROVE Inv
  OBVIOUS
<1> USE DEF Init, PyInit, CppInit
<1>1. NoAck \in Acks
  BY DEF NoAck, Ack, Acks, Status
<1>2. TypeOK
  BY <1>1, OrderAssumption DEF TypeOK, PyTypeOK, CppTypeOK
<1>3. PyIndexed /\ PyReports
  BY DEF PyIndexed, PyReports
<1>4. \A side \in Side : Len(cBook[side]) = 0
  BY EmptySeq DEF Side
<1>5. CppShelved /\ CppSorted /\ CppReports
  <2>1. \A side \in Side : 1 .. Len(cBook[side]) = {}
    BY <1>4
  <2> QED BY <2>1, OrderAssumption DEF CppShelved, CppSorted, CppReports, On
<1>6. NotCrossed
  BY DEF NotCrossed, Crossed
<1> QED BY <1>2, <1>3, <1>5, <1>6 DEF Inv

LEMMA NextKeepsInv == Inv /\ [Next]_vars => Inv'
<1> SUFFICES ASSUME Inv, [Next]_vars PROVE Inv'
  OBVIOUS
<1> USE DEF Inv, NotCrossed
<1>1. ASSUME NEW o \in Order, Submit(o) PROVE Inv'
  <2> PICK t \in Generate : terms' = [terms EXCEPT ![o] = t] /\ PyTake(o, t) /\ CppTake(o, t)
    BY <1>1 DEF Submit
  <2>1. terms[o] = NotSent
    BY <1>1 DEF Submit
  <2>2. terms' \in [Order -> Terms \cup {NotSent}]
    BY GenerateTyped DEF TypeOK
  <2>3. TypeOK'
    BY <2>2, PyTakeKeepsTypes, CppTakeKeepsTypes DEF TypeOK
  <2>4. PyIndexed' /\ PyReports' /\ ~Crossed(pLeft)'
    BY <2>1, PySubmitKeeps
  <2>5. CppShelved' /\ CppSorted' /\ CppReports' /\ ~Crossed(cLeft)'
    BY <2>1, CppSubmitKeeps
  <2> QED BY <2>3, <2>4, <2>5
<1>2. ASSUME NEW o \in Order, Cancel(o) PROVE Inv'
  <2>1. PyCancel(o) /\ CppCancel(o) /\ UNCHANGED terms
    BY <1>2 DEF Cancel
  <2>2. TypeOK'
    BY <2>1, PyCancelKeepsTypes, CppCancelKeepsTypes DEF TypeOK
  <2>3. PyIndexed' /\ PyReports' /\ ~Crossed(pLeft)'
    BY <2>1, PyCancelKeeps
  <2>4. CppShelved' /\ CppSorted' /\ CppReports' /\ ~Crossed(cLeft)'
    BY <2>1, CppCancelKeeps
  <2> QED BY <2>2, <2>3, <2>4
<1>3. ASSUME PyRuns, UNCHANGED <<terms, cppVars>> PROVE Inv'
  <2>1. UNCHANGED <<terms, cBook, cLeft, cStamp, cClock, cTaking, cQty, cFilled, cPrice, cAck, cAckPrice>>
    BY <1>3 DEF cppVars, cppResting, cppTaker
  <2>2. CppTypeOK' /\ CppShelved' /\ CppSorted' /\ CppReports' /\ ~Crossed(cLeft)'
    <3>1. CppTypeOK' /\ CppReports' /\ ~Crossed(cLeft)'
      BY <2>1 DEF TypeOK, CppTypeOK, CppReports, Crossed
    <3>2. CppShelved' /\ CppSorted'
      BY <2>1 DEF CppShelved, CppSorted, InFront, On
    <3> QED BY <3>1, <3>2
  <2>3. PyTypeOK' /\ PyIndexed' /\ PyReports' /\ ~Crossed(pLeft)'
    <3>1. CASE PyAnswer
      BY <2>1, <3>1, PyAnswerKeepsTypes, PyAnswerKeeps
    <3>2. ASSUME NEW top \in Order, PyMatch(top)
          PROVE  PyTypeOK' /\ PyIndexed' /\ PyReports' /\ ~Crossed(pLeft)'
      BY <2>1, <3>2, PyMatchKeepsTypes, PyMatchKeeps
    <3> QED BY <1>3, <3>1, <3>2 DEF PyRuns
  <2> QED BY <2>1, <2>2, <2>3 DEF TypeOK
<1>4. ASSUME CppRuns, UNCHANGED <<terms, pyVars>> PROVE Inv'
  <2>1. UNCHANGED <<terms, pHeap, pIndex, pLeft, pStamp, pClock, pTaking, pQty, pFilled, pPrice, pAck, pAckPrice>>
    BY <1>4 DEF pyVars, pyResting, pyTaker
  <2>2. PyTypeOK' /\ PyIndexed' /\ PyReports' /\ ~Crossed(pLeft)'
    BY <2>1 DEF TypeOK, PyTypeOK, PyIndexed, PyReports, Crossed
  <2>3. CppTypeOK' /\ CppShelved' /\ CppSorted' /\ CppReports' /\ ~Crossed(cLeft)'
    <3>1. CASE CppAnswer
      BY <2>1, <3>1, CppAnswerKeepsTypes, CppAnswerKeeps
    <3>2. CASE CppMatch
      BY <2>1, <3>2, CppMatchKeepsTypes, CppMatchKeeps
    <3> QED BY <1>4, <3>1, <3>2 DEF CppRuns
  <2> QED BY <2>1, <2>2, <2>3 DEF TypeOK
<1>5. CASE UNCHANGED vars
  <2>1. UNCHANGED <<terms, pHeap, pIndex, pLeft, pStamp, pClock, pTaking, pQty, pFilled, pPrice, pAck, pAckPrice>>
    BY <1>5 DEF vars, pyVars, pyResting, pyTaker
  <2>2. UNCHANGED <<cBook, cLeft, cStamp, cClock, cTaking, cQty, cFilled, cPrice, cAck, cAckPrice>>
    BY <1>5 DEF vars, cppVars, cppResting, cppTaker
  <2>3. PyTypeOK' /\ PyIndexed' /\ PyReports' /\ ~Crossed(pLeft)'
    BY <2>1 DEF TypeOK, PyTypeOK, PyIndexed, PyReports, Crossed
  <2>4. CppTypeOK' /\ CppReports' /\ ~Crossed(cLeft)'
    BY <2>1, <2>2 DEF TypeOK, CppTypeOK, CppReports, Crossed
  <2>5. CppShelved' /\ CppSorted'
    BY <2>1, <2>2 DEF CppShelved, CppSorted, InFront, On
  <2> QED BY <2>1, <2>3, <2>4, <2>5 DEF TypeOK
<1> QED BY <1>1, <1>2, <1>3, <1>4, <1>5 DEF Next

LEMMA InvHolds == Spec => []Inv
BY InitialInv, NextKeepsInv, PTL DEF Spec

\* Every variable of the two engines keeps its type: what is left of an order,
\* and what is left of the request, is never negative.
THEOREM EnginesTypeCorrect == Spec => []TypeOK
<1>1. Inv => TypeOK
  BY DEF Inv
<1> QED BY <1>1, InvHolds, PTL

\* Neither book is ever crossed, whatever is sent, matched and cancelled, and
\* whatever the engine's clock does.
THEOREM NeverCrossed == Spec => []NotCrossed
<1>1. Inv => NotCrossed
  BY DEF Inv
<1> QED BY <1>1, InvHolds, PTL

\* No answer of either engine is one a bot counts as a priority error.
THEOREM NoFalseErrors == Spec => []NoFalsePriorityError
<1>1. Inv => NoFalsePriorityError
  <2> SUFFICES ASSUME Inv PROVE NoFalsePriorityError
    OBVIOUS
  <2>1. ASSUME pAck.id # NoOrder PROVE ~PriorityError(terms[pAck.id], pAckPrice)
    <3>1. CASE pAckPrice = 0
      BY <3>1 DEF PriorityError
    <3>2. CASE pAckPrice # 0
      BY <3>2, SuitsIsFair DEF Inv, PyReports, TypeOK, PyTypeOK
    <3> QED BY <3>1, <3>2
  <2>2. ASSUME cAck.id # NoOrder PROVE ~PriorityError(terms[cAck.id], cAckPrice)
    <3>1. CASE cAckPrice = 0
      BY <3>1 DEF PriorityError
    <3>2. CASE cAckPrice # 0
      BY <3>2, SuitsIsFair DEF Inv, CppReports, TypeOK, CppTypeOK
    <3> QED BY <3>1, <3>2
  <2> QED BY <2>1, <2>2 DEF NoFalsePriorityError
<1> QED BY <1>1, InvHolds, PTL

-----------------------------------------------------------------------------
(* The Python engine implements the price-time book                           *)

\* A clock that advances tells the orders of a heap apart.
PyStamped ==
  /\ \A o \in Order : pStamp[o] <= pClock
  /\ \A p, q \in pHeap : p # q => pStamp[p] # pStamp[q]
  /\ pTaking # NoOrder => pTaking \notin pHeap

Advances == ClockSteps \subseteq Nat \ {0}

LEMMA PyStampedHolds ==
  ASSUME Advances
  PROVE  Spec => []PyStamped
<1>1. Init => PyStamped
  BY DEF Init, PyInit, PyStamped
<1>2. Inv /\ PyStamped /\ [Next]_vars => PyStamped'
  <2> SUFFICES ASSUME Inv, PyStamped, [Next]_vars PROVE PyStamped'
    OBVIOUS
  <2>1. ASSUME UNCHANGED <<pHeap, pStamp, pClock, pTaking>> PROVE PyStamped'
    BY <2>1 DEF PyStamped
  <2>2. ASSUME NEW o \in Order, Submit(o) PROVE PyStamped'
    <3>1. o \notin pHeap
      <4>1. terms[o].type = "none"
        BY <2>2 DEF Submit, NotSent
      <4> QED BY <4>1 DEF Inv, PyIndexed
    <3>2. UNCHANGED <<pHeap, pStamp, pClock>> /\ pTaking' = o
      BY <2>2 DEF Submit, PyTake, pyResting
    <3> QED BY <3>1, <3>2 DEF PyStamped
  <2>3. ASSUME NEW o \in Order, Cancel(o) PROVE PyStamped'
    BY <2>1, <2>3 DEF Cancel, PyCancel, pyTaker
  <2>4. ASSUME NEW top \in Order, PyMatch(top) PROVE PyStamped'
    <3>1. pHeap' \subseteq pHeap /\ UNCHANGED <<pStamp, pClock, pTaking>>
      BY <2>4 DEF PyMatch
    <3> QED BY <3>1 DEF PyStamped
  <2>5. ASSUME PyAnswer PROVE PyStamped'
    <3>1. pTaking' = NoOrder
      BY <2>5 DEF PyAnswer
    <3>2. CASE UNCHANGED pyResting
      BY <3>1, <3>2 DEF PyStamped, pyResting
    <3>3. CASE PyInsert
      <4>1. pTaking \in Order /\ pTaking \notin pHeap
        BY <2>5 DEF PyAnswer, PyStamped, Inv, TypeOK, PyTypeOK
      <4>2. pClock \in Int /\ pClock' \in Int /\ pClock < pClock'
        BY <3>3 DEF PyInsert, Advances, Inv, TypeOK, PyTypeOK
      <4>3. /\ pStamp'[pTaking] = pClock' /\ pHeap' = pHeap \cup {pTaking}
            /\ \A o \in Order \ {pTaking} : pStamp'[o] = pStamp[o]
        BY <3>3, <4>1 DEF PyInsert, Inv, TypeOK, PyTypeOK
      <4>4. \A o \in Order : pStamp[o] \in Int /\ pStamp[o] < pClock'
        BY <4>2 DEF PyStamped, Inv, TypeOK, PyTypeOK
      <4>5. pHeap \subseteq Order
        BY DEF Inv, TypeOK, PyTypeOK
      <4>6. \A o \in Order : pStamp'[o] <= pClock'
        BY <4>2, <4>3, <4>4
      <4>7. \A p, q \in pHeap' : p # q => pStamp'[p] # pStamp'[q]
        BY <4>1, <4>2, <4>3, <4>4, <4>5 DEF PyStamped
      <4> QED BY <3>1, <4>6, <4>7 DEF PyStamped
    <3> QED BY <2>5, <3>2, <3>3 DEF PyAnswer
  <2>6. ASSUME UNCHANGED pyVars PROVE PyStamped'
    BY <2>1, <2>6 DEF pyVars, pyResting, pyTaker
  <2> QED BY <2>2, <2>3, <2>4, <2>5, <2>6 DEF Next, PyRuns, vars
<1> QED BY <1>1, <1>2, InvHolds, PTL DEF Spec

LEMMA PyMatchTrades ==
  ASSUME Inv, PyStamped, NEW top \in Order, PyMatch(top), UNCHANGED terms
  PROVE  PyBookOf!Trade(top) \/ UNCHANGED PyBookOf!bookVars
<1> DEFINE m == Least(pQty, pLeft[top])
           side == Opposite(terms[pTaking].side)
<1>1. pTaking # NoOrder /\ pQty > 0 /\ top \in PyTops(side) /\ Suits(terms[pTaking], terms[top].price)
      /\ pFilled' = pFilled + m /\ pQty' = pQty - m /\ pLeft' = [pLeft EXCEPT ![top] = @ - m]
      /\ UNCHANGED <<pStamp, pTaking, pAck>>
  BY DEF PyMatch
<1>2. pLeft[top] \in Nat /\ pQty \in Nat /\ pFilled \in Nat /\ TypeOK /\ PyIndexed
  BY DEF Inv, TypeOK, PyTypeOK
<1>3. CASE pLeft[top] = 0
  <2>1. m = 0
    BY <1>1, <1>2, <1>3 DEF Least
  <2>2. pQty' = pQty /\ pFilled' = pFilled /\ pLeft' = pLeft
    BY <1>1, <1>2, <1>3, <2>1 DEF TypeOK, PyTypeOK
  <2> QED BY <1>1, <2>2 DEF PyBookOf!bookVars
<1>4. CASE pLeft[top] > 0
  <2>1. side \in Side /\ terms[top].side = side
    BY <1>1 DEF PyTops, PyBook, Opposite, Side
  <2>2. top \in PyBookOf!Suitable
    BY <1>1, <1>4, <2>1 DEF PyBookOf!Suitable, PyBookOf!Opposite, Opposite, PyBookOf!Suits, Suits
  <2>3. ASSUME NEW q \in PyBookOf!Suitable \ {top} PROVE PyBookOf!Ahead(top, q)
    <3>1. q \in Order /\ pLeft[q] > 0 /\ terms[q].side = side
      BY DEF PyBookOf!Suitable, PyBookOf!Opposite, Opposite
    <3>2. q \in pHeap /\ q \in PyBook(side) /\ top \in pHeap
      BY <1>1, <1>2, <3>1, PyLeftInHeap DEF PyTops, PyBook
    <3>3. /\ terms[top].price \in Nat /\ terms[q].price \in Nat
          /\ side = "buy" => terms[top].price >= terms[q].price
          /\ side = "sell" => terms[top].price <= terms[q].price
          /\ terms[top].price = terms[q].price => pStamp[top] <= pStamp[q]
      BY <1>1, <1>2, <2>1, <3>2, PyTopIsBest
    <3>4. pStamp[top] \in Int /\ pStamp[q] \in Int /\ pStamp[top] # pStamp[q]
      BY <1>2, <3>1, <3>2 DEF PyStamped, TypeOK, PyTypeOK
    <3> HIDE DEF side
    <3> QED BY <2>1, <3>3, <3>4 DEF PyBookOf!Ahead, Side
  <2> QED BY <1>1, <2>2, <2>3 DEF PyBookOf!Trade, PyBookOf!Least, Least
<1> QED BY <1>2, <1>3, <1>4

LEMMA PyAnswerFinishes ==
  ASSUME Advances, Inv, PyStamped, PyAnswer, UNCHANGED terms
  PROVE  PyBookOf!Finish
<1>1. pTaking \in Order /\ pQty \in Nat /\ TypeOK /\ PyIndexed /\ PyLoopEnds
  BY DEF PyAnswer, Inv, TypeOK, PyTypeOK
<1>2. pQty = 0 \/ PyBookOf!Suitable = {}
  <2> SUFFICES ASSUME pQty # 0, NEW q \in PyBookOf!Suitable PROVE FALSE
    OBVIOUS
  <2>1. q \in Order /\ pLeft[q] > 0 /\ terms[q].side = Opposite(terms[pTaking].side)
        /\ Suits(terms[pTaking], terms[q].price)
    BY DEF PyBookOf!Suitable, PyBookOf!Opposite, Opposite, PyBookOf!Suits, Suits
  <2> QED BY <1>1, <2>1, PyNoneSuits
<1>3. CASE terms[pTaking].type = "limit" /\ pQty > 0
  <2>1. PyInsert
    BY <1>3 DEF PyAnswer
  <2>2. pClock \in Int /\ pClock' \in Int /\ pClock < pClock'
    BY <2>1 DEF PyInsert, Advances, Inv, TypeOK, PyTypeOK
  <2>3. pStamp'[pTaking] = pClock' /\ \A p \in Order \ {pTaking} : pStamp'[p] = pStamp[p]
    BY <1>1, <2>1 DEF PyInsert, TypeOK, PyTypeOK
  <2>4. \A p \in Order : pStamp[p] < pClock'
    BY <1>1, <2>2 DEF PyStamped, TypeOK, PyTypeOK
  <2>5. PyBookOf!Rest
    BY <2>1, <2>3, <2>4 DEF PyBookOf!Rest, PyInsert
  <2> QED BY <1>2, <1>3, <2>5
          DEF PyAnswer, PyBookOf!Finish, PyBookOf!Ack, Ack, PyBookOf!StatusOf, StatusOf
<1>4. CASE ~(terms[pTaking].type = "limit" /\ pQty > 0)
  BY <1>2, <1>4
     DEF PyAnswer, pyResting, PyBookOf!Finish, PyBookOf!Ack, Ack, PyBookOf!StatusOf, StatusOf
<1> QED BY <1>3, <1>4

LEMMA PyCancels ==
  ASSUME Inv, NEW o \in Order, PyCancel(o), UNCHANGED terms
  PROVE  PyBookOf!Cancel(o)
<1>1. pLeft \in [Order -> Nat] /\ (o \in pIndex <=> pLeft[o] > 0)
  BY DEF Inv, PyIndexed, TypeOK, PyTypeOK
<1>2. pLeft' = [pLeft EXCEPT ![o] = 0]
  <2>1. ~(pLeft[o] > 0) => pLeft = [pLeft EXCEPT ![o] = 0]
    BY <1>1
  <2> QED BY <1>1, <2>1 DEF PyCancel
<1> QED BY <1>1, <1>2 DEF PyCancel, pyTaker, PyBookOf!Cancel, PyBookOf!Ack, Ack

\* The heap with lazy cancellation is a price-time book, when the clock tells
\* any two orders apart: a cancelled order it meets is a step that changes
\* nothing.
THEOREM PythonKeepsBook ==
  ASSUME Advances
  PROVE  Spec => PyKeepsBook
<1>1. Init => PyBookOf!Init
  BY DEF Init, PyInit, PyBookOf!Init, PyBookOf!NotSent, NotSent, PyBookOf!NoAck, NoAck, PyBookOf!Ack, Ack
<1>2. Inv /\ PyStamped /\ [Next]_vars => [PyBookOf!Next]_PyBookOf!bookVars
  <2> SUFFICES ASSUME Inv, PyStamped, [Next]_vars
               PROVE  PyBookOf!Next \/ UNCHANGED PyBookOf!bookVars
    OBVIOUS
  <2>1. ASSUME NEW o \in Order, Submit(o) PROVE PyBookOf!Next
    <3>1. Generate = PyBookOf!Generate
      BY DEF Generate, PyBookOf!Generate, Limits, PyBookOf!Limits, Markets, PyBookOf!Markets, Side, PyBookOf!Side,
             Quote, PyBookOf!Quote, Asked, PyBookOf!Asked, Hundred, PyBookOf!Hundred, Cents, PyBookOf!Cents, Quantity, PyBookOf!Quantity,
             MaxQuantity, PyBookOf!MaxQuantity
    <3>2. PICK t \in Generate : terms' = [terms EXCEPT ![o] = t] /\ PyTake(o, t)
      BY <2>1 DEF Submit
    <3>3. PyBookOf!Take(o, t)
      BY <2>1, <3>2 DEF Submit, PyTake, pyResting, PyBookOf!Take, NotSent, PyBookOf!NotSent
    <3> QED BY <3>1, <3>2, <3>3 DEF PyBookOf!Next
  <2>2. ASSUME NEW o \in Order, Cancel(o) PROVE PyBookOf!Next
    BY <2>2, PyCancels DEF Cancel, PyBookOf!Next
  <2>3. ASSUME PyRuns, UNCHANGED <<terms, cppVars>> PROVE PyBookOf!Next \/ UNCHANGED PyBookOf!bookVars
    <3>1. CASE PyAnswer
      BY <2>3, <3>1, PyAnswerFinishes DEF PyBookOf!Next
    <3>2. ASSUME NEW top \in Order, PyMatch(top) PROVE PyBookOf!Next \/ UNCHANGED PyBookOf!bookVars
      BY <2>3, <3>2, PyMatchTrades DEF PyBookOf!Next
    <3> QED BY <2>3, <3>1, <3>2 DEF PyRuns
  <2>4. ASSUME UNCHANGED <<terms, pyVars>> PROVE UNCHANGED PyBookOf!bookVars
    BY <2>4 DEF pyVars, pyResting, pyTaker, PyBookOf!bookVars
  <2> QED BY <2>1, <2>2, <2>3, <2>4 DEF Next, vars
<1> QED BY <1>1, <1>2, InvHolds, PyStampedHolds, PTL DEF Spec, PyKeepsBook, PyBookOf!Spec

-----------------------------------------------------------------------------
(* The C++ engine implements it too                                           *)

LEMMA CppMatchKeepsOrder ==
  ASSUME TypeOK, CppShelved, CppSorted, CppMatch, UNCHANGED terms
  PROVE  CppOrderKept
<1> DEFINE top == Head(Facing)
           side == Opposite(terms[cTaking].side)
<1>1. cTaking \in Order /\ Facing # << >>
  BY DEF CppMatch, TypeOK, CppTypeOK
<1>2. /\ side \in Side /\ top \in Order /\ Facing \in Seq(Order) /\ cBook[side] = Facing
      /\ terms[top].side = side /\ top = Facing[1] /\ Len(Facing) \in Nat \ {0}
  BY <1>1, FrontIs
<1>3. cBook' = cBook \/ cBook' = [cBook EXCEPT ![side] = Tail(Facing)]
  BY <1>2 DEF CppMatch
<1>4. Len(Tail(Facing)) = Len(Facing) - 1 /\ Tail(Facing) \in Seq(Order)
      /\ \A j \in 1 .. Len(Facing) - 1 : Tail(Facing)[j] = Facing[j + 1]
  BY <1>1, <1>2, HeadTailProperties
<1> HIDE DEF top, side
<1>5. CASE cBook' = [cBook EXCEPT ![side] = Tail(Facing)]
  <2>1. \A j \in 1 .. Len(Facing) - 1 : Tail(Facing)[j] = IF j < 1 THEN Facing[j] ELSE Facing[j + 1]
    BY <1>4
  <2>2. CppRemoves(side, 1)
    BY <1>2, <1>4, <1>5, <2>1 DEF CppRemoves
  <2>3. 1 \in 1 .. Len(cBook[side]) /\ cBook[side][1] = top
    BY <1>2
  <2> QED BY <1>2, <2>2, <2>3, CppRemovalKeeps
<1>6. CASE cBook' = cBook
  BY <1>6 DEF CppOrderKept
<1> QED BY <1>3, <1>5, <1>6

LEMMA CppCancelKeepsOrder ==
  ASSUME TypeOK, CppShelved, CppSorted, NEW o \in Order, CppCancel(o), UNCHANGED terms
  PROVE  CppOrderKept
<1>1. CASE CppNotFound(o)
  BY <1>1 DEF CppNotFound, CppOrderKept
<1>2. CASE CppErase(o)
  <2> PICK side \in Side : \E i \in 1 .. Len(cBook[side]) :
             cBook[side][i] = o /\ cBook' = [cBook EXCEPT ![side] = RemoveAt(@, i)]
    BY <1>2 DEF CppErase
  <2> PICK i \in 1 .. Len(cBook[side]) :
             cBook[side][i] = o /\ cBook' = [cBook EXCEPT ![side] = RemoveAt(@, i)]
    OBVIOUS
  <2>1. cBook[side] \in Seq(Order) /\ cBook' = [cBook EXCEPT ![side] = RemoveAt(cBook[side], i)]
    BY CppElements DEF TypeOK
  <2>2. /\ RemoveAt(cBook[side], i) \in Seq(Order)
        /\ Len(RemoveAt(cBook[side], i)) = Len(cBook[side]) - 1
        /\ \A j \in 1 .. Len(cBook[side]) - 1 :
             RemoveAt(cBook[side], i)[j] = IF j < i THEN cBook[side][j] ELSE cBook[side][j + 1]
    BY <2>1, RemoveAtIs
  <2>3. CppRemoves(side, i)
    BY <2>1, <2>2 DEF CppRemoves
  <2> QED BY <2>3, CppRemovalKeeps
<1> QED BY <1>1, <1>2 DEF CppCancel

\* A clock that advances: of two orders with the same price, the one that came
\* first is in front.
CppInTime == \A side \in Side : \A i, j \in 1 .. Len(cBook[side]) :
  i < j /\ terms[cBook[side][i]].price = terms[cBook[side][j]].price
    => cStamp[cBook[side][i]] < cStamp[cBook[side][j]]

CppStamped == CppInTime /\ \A o \in Order : cStamp[o] <= cClock

LEMMA KeptOrderIsInTime ==
  ASSUME CppInTime, CppOrderKept, UNCHANGED <<terms, cStamp>>
  PROVE  CppInTime'
<1> SUFFICES ASSUME NEW s \in Side, NEW j \in 1 .. Len(cBook'[s]), NEW k \in 1 .. Len(cBook'[s]),
                    j < k, terms[cBook'[s][j]].price = terms[cBook'[s][k]].price
             PROVE  cStamp[cBook'[s][j]] < cStamp[cBook'[s][k]]
  BY DEF CppInTime
<1>1. PICK j1 \in 1 .. Len(cBook[s]), k1 \in 1 .. Len(cBook[s]) :
        j1 < k1 /\ cBook'[s][j] = cBook[s][j1] /\ cBook'[s][k] = cBook[s][k1]
  BY DEF CppOrderKept
<1> QED BY <1>1 DEF CppInTime

LEMMA CppInsertKeepsTime ==
  ASSUME Advances, Inv, CppStamped, cTaking \in Order, CppInsert, UNCHANGED terms
  PROVE  CppStamped'
<1> DEFINE side == terms[cTaking].side
           price == terms[cTaking].price
<1>1. terms[cTaking] \in Terms /\ side \in Side /\ TypeOK
  BY OrderAssumption, TermsTyped DEF CppShelved, Inv
<1>2. PICK i \in 1 .. Len(cBook[side]) + 1 :
         /\ \A j \in 1 .. Len(cBook[side]) : CppBefore(side, cBook[side][j], price) <=> j < i
         /\ cBook' = [cBook EXCEPT ![side] = InsertAt(@, i, cTaking)]
  BY DEF CppInsert
<1>3. /\ cClock \in Int /\ cClock' \in Int /\ cClock < cClock'
      /\ cStamp' = [cStamp EXCEPT ![cTaking] = cClock']
  BY <1>1 DEF CppInsert, Advances, TypeOK, CppTypeOK
<1> HIDE DEF side, price
<1>4. CppInserted(side, i, cTaking)
  BY <1>1, <1>2, CppInsertion
<1>5. /\ \A p \in Order : cStamp[p] \in Int /\ cStamp[p] < cClock'
      /\ cStamp'[cTaking] = cClock' /\ \A p \in Order \ {cTaking} : cStamp'[p] = cStamp[p]
  BY <1>1, <1>3 DEF CppStamped, TypeOK, CppTypeOK
<1>6. \A s \in Side : \A j \in 1 .. Len(cBook[s]) : cBook[s][j] \in Order \ {cTaking}
  BY <1>1, OrderAssumption, CppElements DEF CppShelved, Inv, TypeOK
<1>7. \A k \in 1 .. Len(cBook[side]) : k >= i => terms[cBook[side][k]].price # price
  <2> SUFFICES ASSUME NEW k \in 1 .. Len(cBook[side]), k >= i PROVE terms[cBook[side][k]].price # price
    OBVIOUS
  <2>1. ~CppBefore(side, cBook[side][k], price)
    BY <1>1, <1>2, CppElements DEF TypeOK
  <2> QED BY <1>1, <1>5, <1>6, <2>1 DEF CppBefore
<1>8. CppInTime'
  <2> SUFFICES ASSUME NEW s \in Side, NEW j \in 1 .. Len(cBook'[s]), NEW k \in 1 .. Len(cBook'[s]),
                      j < k, terms[cBook'[s][j]].price = terms[cBook'[s][k]].price
               PROVE  cStamp'[cBook'[s][j]] < cStamp'[cBook'[s][k]]
    BY DEF CppInTime
  <2>1. CASE \E j1, k1 \in 1 .. Len(cBook[s]) :
               j1 < k1 /\ cBook'[s][j] = cBook[s][j1] /\ cBook'[s][k] = cBook[s][k1]
    BY <1>5, <1>6, <2>1 DEF CppStamped, CppInTime
  <2>2. CASE s = side /\ cBook'[s][j] = cTaking
             /\ \E k1 \in 1 .. Len(cBook[s]) : k1 >= i /\ cBook'[s][k] = cBook[s][k1]
    BY <1>7, <2>2 DEF price
  <2>3. CASE s = side /\ cBook'[s][k] = cTaking
             /\ \E j1 \in 1 .. Len(cBook[s]) : j1 < i /\ cBook'[s][j] = cBook[s][j1]
    BY <1>5, <1>6, <2>3
  <2> QED BY <1>4, <2>1, <2>2, <2>3 DEF CppInserted
<1>9. \A o \in Order : cStamp'[o] <= cClock'
  BY <1>3, <1>5
<1> QED BY <1>8, <1>9 DEF CppStamped

LEMMA CppStampedHolds ==
  ASSUME Advances
  PROVE  Spec => []CppStamped
<1>1. Init => CppStamped
  <2> SUFFICES ASSUME Init PROVE CppStamped
    OBVIOUS
  <2>1. \A side \in Side : 1 .. Len(cBook[side]) = {}
    BY EmptySeq DEF Init, CppInit, Side
  <2> QED BY <2>1 DEF Init, CppInit, CppStamped, CppInTime
<1>2. Inv /\ CppStamped /\ [Next]_vars => CppStamped'
  <2> SUFFICES ASSUME Inv, CppStamped, [Next]_vars PROVE CppStamped'
    OBVIOUS
  <2>1. ASSUME CppOrderKept, UNCHANGED <<terms, cStamp, cClock>> PROVE CppStamped'
    BY <2>1, KeptOrderIsInTime DEF CppStamped
  <2>2. ASSUME UNCHANGED <<terms, cBook, cStamp, cClock>> PROVE CppStamped'
    BY <2>1, <2>2 DEF CppOrderKept
  <2>3. ASSUME NEW o \in Order, Submit(o) PROVE CppStamped'
    <3>1. PICK t \in Generate : terms' = [terms EXCEPT ![o] = t] /\ CppTake(o, t)
      BY <2>3 DEF Submit
    <3>2. UNCHANGED <<cBook, cStamp, cClock>> /\ \A p \in Order \ {o} : terms'[p] = terms[p]
      BY <3>1 DEF CppTake, cppResting, Inv, TypeOK
    <3>3. terms[o].type = "none"
      BY <2>3 DEF Submit, NotSent
    <3>4. \A s \in Side : \A j \in 1 .. Len(cBook[s]) : cBook[s][j] \in Order \ {o}
      BY <3>3, CppElements DEF Inv, CppShelved, TypeOK
    <3>5. CppInTime'
      BY <3>2, <3>4 DEF CppInTime, CppStamped
    <3> QED BY <3>2, <3>5 DEF CppStamped
  <2>4. ASSUME NEW o \in Order, Cancel(o) PROVE CppStamped'
    <3>1. CppCancel(o) /\ UNCHANGED terms
      BY <2>4 DEF Cancel
    <3>2. UNCHANGED <<cStamp, cClock>>
      BY <3>1 DEF CppCancel
    <3>3. CppOrderKept
      BY <3>1, CppCancelKeepsOrder DEF Inv
    <3> QED BY <2>1, <3>1, <3>2, <3>3
  <2>5. ASSUME CppMatch, UNCHANGED terms PROVE CppStamped'
    <3>1. CppOrderKept
      BY <2>5, CppMatchKeepsOrder DEF Inv
    <3> QED BY <2>1, <2>5, <3>1 DEF CppMatch
  <2>6. ASSUME CppAnswer, UNCHANGED terms PROVE CppStamped'
    <3>1. cTaking \in Order
      BY <2>6 DEF CppAnswer, Inv, TypeOK, CppTypeOK
    <3>2. CASE CppInsert
      BY <2>6, <3>1, <3>2, CppInsertKeepsTime
    <3>3. CASE UNCHANGED cppResting
      BY <2>2, <2>6, <3>3 DEF cppResting
    <3> QED BY <2>6, <3>2, <3>3 DEF CppAnswer
  <2>7. ASSUME UNCHANGED <<terms, cppVars>> PROVE CppStamped'
    BY <2>2, <2>7 DEF cppVars, cppResting
  <2> QED BY <2>3, <2>4, <2>5, <2>6, <2>7 DEF Next, CppRuns, vars
<1> QED BY <1>1, <1>2, InvHolds, PTL DEF Spec

LEMMA CppMatchTrades ==
  ASSUME Inv, CppStamped, CppMatch, UNCHANGED terms
  PROVE  CppBookOf!Trade(Head(Facing)) /\ Head(Facing) \in Order
<1> DEFINE top == Head(Facing)
           side == Opposite(terms[cTaking].side)
           m == Least(cQty, cLeft[top])
<1>1. /\ cTaking # NoOrder /\ cQty > 0 /\ Facing # << >> /\ Suits(terms[cTaking], terms[top].price)
      /\ cFilled' = cFilled + m /\ cQty' = cQty - m /\ cLeft' = [cLeft EXCEPT ![top] = @ - m]
      /\ UNCHANGED <<cStamp, cTaking, cAck>>
  BY DEF CppMatch
<1>2. TypeOK /\ CppShelved /\ CppSorted /\ cTaking \in Order
  BY <1>1 DEF Inv, TypeOK, CppTypeOK
<1>3. /\ side \in Side /\ top \in Order /\ cBook[side] = Facing /\ top = Facing[1]
      /\ Len(Facing) \in Nat \ {0} /\ terms[top].side = side /\ cLeft[top] > 0
  BY <1>1, <1>2, FrontIs
<1>4. top \in CppBookOf!Suitable
  BY <1>1, <1>3 DEF CppBookOf!Suitable, CppBookOf!Opposite, Opposite, CppBookOf!Suits, Suits
<1>5. ASSUME NEW q \in CppBookOf!Suitable \ {top} PROVE CppBookOf!Ahead(top, q)
  <2>1. q \in Order /\ cLeft[q] > 0 /\ terms[q].side = side
    BY DEF CppBookOf!Suitable, CppBookOf!Opposite, Opposite
  <2>2. On(side, q)
    <3>1. PICK s \in Side : On(s, q) /\ terms[q].side = s
      BY <1>2, <2>1, CppLeftIsLimit
    <3> QED BY <2>1, <3>1
  <2>3. PICK k \in 1 .. Len(cBook[side]) : cBook[side][k] = q
    BY <2>2 DEF On
  <2>4. 1 \in 1 .. Len(cBook[side]) /\ cBook[side][1] = top /\ 1 < k
    BY <1>3, <2>3
  <2>5. InFront(side, top, q) /\ (terms[top].price = terms[q].price => cStamp[top] < cStamp[q])
    BY <1>2, <1>3, <2>3, <2>4 DEF CppSorted, CppStamped, CppInTime
  <2>6. terms[top].price \in Nat /\ terms[q].price \in Nat
    BY <1>2, <1>3, <2>1, TermsTyped
  <2> HIDE DEF side, top
  <2> QED BY <1>3, <2>5, <2>6 DEF CppBookOf!Ahead, InFront, Side
<1> QED BY <1>1, <1>3, <1>4, <1>5 DEF CppBookOf!Trade, CppBookOf!Least, Least

LEMMA CppAnswerFinishes ==
  ASSUME Advances, Inv, CppStamped, CppAnswer, UNCHANGED terms
  PROVE  CppBookOf!Finish
<1>1. cTaking \in Order /\ cQty \in Nat /\ TypeOK /\ CppShelved /\ CppSorted /\ CppLoopEnds
  BY DEF CppAnswer, Inv, TypeOK, CppTypeOK
<1>2. cQty = 0 \/ CppBookOf!Suitable = {}
  <2> SUFFICES ASSUME cQty # 0, NEW q \in CppBookOf!Suitable PROVE FALSE
    OBVIOUS
  <2>1. q \in Order /\ cLeft[q] > 0 /\ terms[q].side = Opposite(terms[cTaking].side)
        /\ Suits(terms[cTaking], terms[q].price)
    BY DEF CppBookOf!Suitable, CppBookOf!Opposite, Opposite, CppBookOf!Suits, Suits
  <2>2. cQty > 0
    BY <1>1
  <2> QED BY <1>1, <2>1, <2>2, CppNoneSuits
<1>3. CASE terms[cTaking].type = "limit" /\ cQty > 0
  <2>1. CppInsert
    BY <1>3 DEF CppAnswer
  <2>2. cClock \in Int /\ cClock' \in Int /\ cClock < cClock'
    BY <1>1, <2>1 DEF CppInsert, Advances, TypeOK, CppTypeOK
  <2>3. cStamp'[cTaking] = cClock' /\ \A p \in Order \ {cTaking} : cStamp'[p] = cStamp[p]
    BY <1>1, <2>1 DEF CppInsert, TypeOK, CppTypeOK
  <2>4. \A p \in Order : cStamp[p] < cClock'
    BY <1>1, <2>2 DEF CppStamped, TypeOK, CppTypeOK
  <2>5. cLeft' = [cLeft EXCEPT ![cTaking] = cQty]
    BY <2>1 DEF CppInsert
  <2>6. CppBookOf!Rest
    BY <2>3, <2>4, <2>5 DEF CppBookOf!Rest
  <2> QED BY <1>2, <1>3, <2>6
          DEF CppAnswer, CppBookOf!Finish, CppBookOf!Ack, Ack, CppBookOf!StatusOf, StatusOf
<1>4. CASE ~(terms[cTaking].type = "limit" /\ cQty > 0)
  BY <1>2, <1>4
     DEF CppAnswer, cppResting, CppBookOf!Finish, CppBookOf!Ack, Ack, CppBookOf!StatusOf, StatusOf
<1> QED BY <1>3, <1>4

LEMMA CppCancels ==
  ASSUME Inv, NEW o \in Order, CppCancel(o), UNCHANGED terms
  PROVE  CppBookOf!Cancel(o)
<1>1. CppShelved /\ cLeft \in [Order -> Nat]
  BY DEF Inv, TypeOK, CppTypeOK
<1>2. UNCHANGED <<cStamp, cTaking, cQty, cFilled>> /\ cTaking = NoOrder
  BY DEF CppCancel, cppTaker
<1>3. cLeft' = [cLeft EXCEPT ![o] = 0]
      /\ cAck' = Ack(o, IF cLeft[o] > 0 THEN "cancelled" ELSE "rejected", 0)
  <2>1. CASE CppErase(o)
    <3>1. \E side \in Side : On(side, o)
      BY <2>1 DEF CppErase, On
    <3>2. cLeft[o] > 0
      BY <1>1, <3>1 DEF CppShelved
    <3> QED BY <2>1, <3>2 DEF CppErase
  <2>2. CASE CppNotFound(o)
    <3>1. \A side \in Side : ~On(side, o)
      BY <2>2 DEF CppNotFound, On
    <3>2. ~(cLeft[o] > 0) /\ cLeft[o] = 0
      BY <1>1, <3>1 DEF CppShelved, Side
    <3>3. cLeft' = cLeft /\ cAck' = Ack(o, "rejected", 0)
      BY <2>2 DEF CppNotFound
    <3>4. cLeft = [cLeft EXCEPT ![o] = 0]
      BY <1>1, <3>2
    <3> QED BY <3>2, <3>3, <3>4
  <2> QED BY <2>1, <2>2 DEF CppCancel
<1> QED BY <1>2, <1>3 DEF CppBookOf!Cancel, CppBookOf!Ack, Ack

\* The sorted vectors are a price-time book, when the clock tells any two
\* orders apart: insertion keeps the earlier of two equal prices in front, and
\* removal, wherever it is, keeps the order of the rest.
THEOREM SortedVectorsKeepBook ==
  ASSUME Advances
  PROVE  Spec => CppKeepsBook
<1>1. Init => CppBookOf!Init
  BY DEF Init, CppInit, CppBookOf!Init, CppBookOf!NotSent, NotSent, CppBookOf!NoAck, NoAck, CppBookOf!Ack, Ack
<1>2. Inv /\ CppStamped /\ [Next]_vars => [CppBookOf!Next]_CppBookOf!bookVars
  <2> SUFFICES ASSUME Inv, CppStamped, [Next]_vars
               PROVE  CppBookOf!Next \/ UNCHANGED CppBookOf!bookVars
    OBVIOUS
  <2>1. ASSUME NEW o \in Order, Submit(o) PROVE CppBookOf!Next
    <3>1. Generate = CppBookOf!Generate
      BY DEF Generate, CppBookOf!Generate, Limits, CppBookOf!Limits, Markets, CppBookOf!Markets, Side, CppBookOf!Side,
             Quote, CppBookOf!Quote, Asked, CppBookOf!Asked, Hundred, CppBookOf!Hundred, Cents, CppBookOf!Cents, Quantity, CppBookOf!Quantity,
             MaxQuantity, CppBookOf!MaxQuantity
    <3>2. PICK t \in Generate : terms' = [terms EXCEPT ![o] = t] /\ CppTake(o, t)
      BY <2>1 DEF Submit
    <3>3. CppBookOf!Take(o, t)
      BY <2>1, <3>2 DEF Submit, CppTake, cppResting, CppBookOf!Take, NotSent, CppBookOf!NotSent
    <3> QED BY <3>1, <3>2, <3>3 DEF CppBookOf!Next
  <2>2. ASSUME NEW o \in Order, Cancel(o) PROVE CppBookOf!Next
    BY <2>2, CppCancels DEF Cancel, CppBookOf!Next
  <2>3. ASSUME CppRuns, UNCHANGED terms PROVE CppBookOf!Next
    <3>1. CASE CppAnswer
      BY <2>3, <3>1, CppAnswerFinishes DEF CppBookOf!Next
    <3>2. CASE CppMatch
      BY <2>3, <3>2, CppMatchTrades DEF CppBookOf!Next
    <3> QED BY <2>3, <3>1, <3>2 DEF CppRuns
  <2>4. ASSUME UNCHANGED <<terms, cppVars>> PROVE UNCHANGED CppBookOf!bookVars
    BY <2>4 DEF cppVars, cppResting, cppTaker, CppBookOf!bookVars
  <2> QED BY <2>1, <2>2, <2>3, <2>4 DEF Next, vars
<1> QED BY <1>1, <1>2, InvHolds, CppStampedHolds, PTL DEF Spec, CppKeepsBook, CppBookOf!Spec

=============================================================================

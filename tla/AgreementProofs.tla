---------------------------- MODULE AgreementProofs ----------------------------
(* The two sample engines answer alike: a proof for every set of orders, of   *)
(* prices and of quantities, and however many trades an order makes.          *)
EXTENDS MatchingProofs

-----------------------------------------------------------------------------
(* A matching loop, apart from the engine that runs it                        *)

\* A book, and what is left and executed of the order that is matched with it.
Tables == [left : [Order -> Nat], qty : Nat, filled : Nat]

\* The orders of a book that o can trade with, sent being what was asked for.
CanTake(sent, left, o) == {p \in Order :
  /\ left[p] > 0
  /\ sent[p].side = Opposite(sent[o].side)
  /\ Suits(sent[o], sent[p].price)}

\* p is to trade before q.
Precedes(sent, stamp, p, q) ==
  \/ sent[p].side = "buy" /\ sent[p].price > sent[q].price
  \/ sent[p].side = "sell" /\ sent[p].price < sent[q].price
  \/ sent[p].price = sent[q].price /\ stamp[p] < stamp[q]

Without(x, p, m) ==
  [left |-> [x.left EXCEPT ![p] = @ - m], qty |-> x.qty - m, filled |-> x.filled + m]

\* One iteration of the loop takes x to y.
Iterates(sent, stamp, o, x, y) ==
  /\ x.qty > 0
  /\ \E p \in CanTake(sent, x.left, o) :
       /\ \A q \in CanTake(sent, x.left, o) \ {p} : Precedes(sent, stamp, p, q)
       /\ y = Without(x, p, Least(x.qty, x.left[p]))

Over(sent, o, x) == x.qty = 0 \/ CanTake(sent, x.left, o) = {}

\* Iterations take x to z: z is in every set that has x and that no iteration
\* leaves.
Leads(sent, stamp, o, x, z) == \A S \in SUBSET Tables :
  x \in S /\ (\A y \in S, w \in Tables : Iterates(sent, stamp, o, y, w) => w \in S) => z \in S

\* An iteration has one outcome: no two orders are each before the other.
LEMMA OneOutcome ==
  ASSUME NEW sent \in [Order -> Terms \cup {NotSent}], NEW stamp \in [Order -> Int],
         NEW o \in Order, NEW x, NEW y, NEW z,
         Iterates(sent, stamp, o, x, y), Iterates(sent, stamp, o, x, z)
  PROVE  y = z
<1>1. PICK p \in CanTake(sent, x.left, o) :
        /\ \A q \in CanTake(sent, x.left, o) \ {p} : Precedes(sent, stamp, p, q)
        /\ y = Without(x, p, Least(x.qty, x.left[p]))
  BY DEF Iterates
<1>2. PICK q \in CanTake(sent, x.left, o) :
        /\ \A r \in CanTake(sent, x.left, o) \ {q} : Precedes(sent, stamp, q, r)
        /\ z = Without(x, q, Least(x.qty, x.left[q]))
  BY DEF Iterates
<1>3. p \in Order /\ q \in Order /\ sent[p].side = sent[q].side
      /\ sent[p].side \in Side
  BY DEF CanTake, Opposite, Side
<1>4. \A r \in Order : sent[r].price \in Nat
  <2>1. \A t \in Terms : t.price \in Nat
    BY TermsFields
  <2>2. NotSent.price \in Nat
    BY DEF NotSent
  <2> QED BY <2>1, <2>2
<1>5. ~(Precedes(sent, stamp, p, q) /\ Precedes(sent, stamp, q, p))
  <2>1. sent[p].price \in Nat /\ sent[q].price \in Nat /\ stamp[p] \in Int /\ stamp[q] \in Int
    BY <1>3, <1>4
  <2> QED BY <1>3, <2>1 DEF Precedes, Side
<1>6. p = q
  BY <1>1, <1>2, <1>5
<1> QED BY <1>1, <1>2, <1>6

LEMMA OverStops ==
  ASSUME NEW sent, NEW stamp, NEW o, NEW x, NEW y, Over(sent, o, x)
  PROVE  ~Iterates(sent, stamp, o, x, y)
BY DEF Over, Iterates

LEMMA LeadsNowhere ==
  ASSUME NEW sent, NEW stamp, NEW o, NEW x
  PROVE  Leads(sent, stamp, o, x, x)
BY DEF Leads

LEMMA LeadsFurther ==
  ASSUME NEW sent, NEW stamp, NEW o, NEW x, NEW y \in Tables, NEW z \in Tables,
         Leads(sent, stamp, o, x, y), Iterates(sent, stamp, o, y, z)
  PROVE  Leads(sent, stamp, o, x, z)
BY DEF Leads

\* Where the iterations end is reached by way of the next one.
LEMMA LeadsOn ==
  ASSUME NEW sent \in [Order -> Terms \cup {NotSent}], NEW stamp \in [Order -> Int],
         NEW o \in Order, NEW x \in Tables, NEW y \in Tables, NEW z \in Tables,
         Leads(sent, stamp, o, x, z), Iterates(sent, stamp, o, x, y), Over(sent, o, z)
  PROVE  Leads(sent, stamp, o, y, z)
<1> SUFFICES ASSUME NEW S \in SUBSET Tables, y \in S,
                    \A v \in S, w \in Tables : Iterates(sent, stamp, o, v, w) => w \in S
             PROVE  z \in S
  BY DEF Leads
<1>1. \A v \in S \cup {x}, w \in Tables : Iterates(sent, stamp, o, v, w) => w \in S \cup {x}
  BY OneOutcome
<1>2. z \in S \cup {x}
  BY <1>1 DEF Leads
<1>3. z # x
  BY OverStops
<1> QED BY <1>2, <1>3

LEMMA LeadsNoFurther ==
  ASSUME NEW sent, NEW stamp, NEW o, NEW x \in Tables, NEW z,
         Leads(sent, stamp, o, x, z), Over(sent, o, x)
  PROVE  z = x
<1>1. {x} \in SUBSET Tables /\ \A y \in {x}, w \in Tables : ~Iterates(sent, stamp, o, y, w)
  BY OverStops
<1> QED BY <1>1 DEF Leads

-----------------------------------------------------------------------------
(* Both engines run that loop                                                 *)

PyTable == [left |-> pLeft, qty |-> pQty, filled |-> pFilled]
CppTable == [left |-> cLeft, qty |-> cQty, filled |-> cFilled]

\* The timestamps differ, but not in what they say about who came first.
SameOrder == \A p, q \in Order : pStamp[p] < pStamp[q] <=> cStamp[p] < cStamp[q]

Rests(o, x) == terms[o].type = "limit" /\ x.qty > 0

\* What the Python engine has become once it has answered for o, its loop
\* having ended with x.
PyHasAnswered(o, x) ==
  /\ pAck = Ack(o, StatusOf(terms[o], x.filled, x.qty), x.filled)
  /\ pLeft = IF Rests(o, x) THEN [x.left EXCEPT ![o] = x.qty] ELSE x.left
  /\ IF Rests(o, x)
     THEN \A p \in Order \ {o} :
            /\ pStamp[p] < pStamp[o]
            /\ \A q \in Order \ {o} : pStamp[p] < pStamp[q] <=> cStamp[p] < cStamp[q]
     ELSE SameOrder

\* The Python engine, which goes first, is where the C++ engine will be.
BothIdle ==
  pTaking = NoOrder /\ cTaking = NoOrder => pLeft = cLeft /\ pAck = cAck /\ SameOrder
PyRunsAhead ==
  pTaking # NoOrder =>
    pTaking = cTaking /\ SameOrder /\ Leads(terms, cStamp, cTaking, CppTable, PyTable)
CppFollows ==
  pTaking = NoOrder /\ cTaking # NoOrder => \E x \in Tables :
    /\ Leads(terms, cStamp, cTaking, CppTable, x)
    /\ Over(terms, cTaking, x)
    /\ PyHasAnswered(cTaking, x)
InStep == BothIdle /\ PyRunsAhead /\ CppFollows

LEMMA TablesTyped ==
  ASSUME TypeOK
  PROVE  PyTable \in Tables /\ CppTable \in Tables
BY DEF TypeOK, PyTypeOK, CppTypeOK, PyTable, CppTable, Tables

\* A trade of the Python book is an iteration by the C++ timestamps too.
LEMMA PyIterates ==
  ASSUME NEW top \in Order, PyBookOf!Trade(top), SameOrder, pTaking = cTaking
  PROVE  Iterates(terms, cStamp, cTaking, PyTable, PyTable')
<1>1. PyBookOf!Suitable = CanTake(terms, pLeft, cTaking)
  BY DEF PyBookOf!Suitable, PyBookOf!Opposite, Opposite, PyBookOf!Suits, Suits, CanTake
<1>2. \A q \in Order : PyBookOf!Ahead(top, q) <=> Precedes(terms, cStamp, top, q)
  BY DEF PyBookOf!Ahead, Precedes, SameOrder
<1>3. CanTake(terms, pLeft, cTaking) \subseteq Order
  BY DEF CanTake
<1>4. /\ pQty > 0 /\ top \in CanTake(terms, pLeft, cTaking)
      /\ \A q \in CanTake(terms, pLeft, cTaking) \ {top} : Precedes(terms, cStamp, top, q)
  BY <1>1, <1>2, <1>3 DEF PyBookOf!Trade
<1>5. PyTable' = Without(PyTable, top, Least(pQty, pLeft[top]))
  BY DEF PyBookOf!Trade, PyBookOf!Least, Least, PyTable, Without
<1>6. PyTable.qty = pQty /\ PyTable.left = pLeft
  BY DEF PyTable
<1> QED BY <1>4, <1>5, <1>6 DEF Iterates

LEMMA CppIterates ==
  ASSUME NEW top \in Order, CppBookOf!Trade(top)
  PROVE  Iterates(terms, cStamp, cTaking, CppTable, CppTable')
<1>1. CppBookOf!Suitable = CanTake(terms, cLeft, cTaking)
  BY DEF CppBookOf!Suitable, CppBookOf!Opposite, Opposite, CppBookOf!Suits, Suits, CanTake
<1>2. \A q \in Order : CppBookOf!Ahead(top, q) <=> Precedes(terms, cStamp, top, q)
  BY DEF CppBookOf!Ahead, Precedes
<1>3. CanTake(terms, cLeft, cTaking) \subseteq Order
  BY DEF CanTake
<1>4. /\ cQty > 0 /\ top \in CanTake(terms, cLeft, cTaking)
      /\ \A q \in CanTake(terms, cLeft, cTaking) \ {top} : Precedes(terms, cStamp, top, q)
  BY <1>1, <1>2, <1>3 DEF CppBookOf!Trade
<1>5. CppTable' = Without(CppTable, top, Least(cQty, cLeft[top]))
  BY DEF CppBookOf!Trade, CppBookOf!Least, Least, CppTable, Without
<1>6. CppTable.qty = cQty /\ CppTable.left = cLeft
  BY DEF CppTable
<1> QED BY <1>4, <1>5, <1>6 DEF Iterates

-----------------------------------------------------------------------------
(* They stay in step                                                          *)

LEMMA SubmitStaysInStep ==
  ASSUME Inv, InStep, NEW o \in Order, Submit(o)
  PROVE  InStep'
<1>1. PICK t \in Generate : PyTake(o, t) /\ CppTake(o, t)
  BY DEF Submit
<1>2. /\ pTaking = NoOrder /\ cTaking = NoOrder /\ pTaking' = o /\ cTaking' = o
      /\ pQty' = t.qty /\ pFilled' = 0 /\ cQty' = t.qty /\ cFilled' = 0
      /\ UNCHANGED <<pLeft, pStamp, cLeft, cStamp>>
  BY <1>1 DEF PyTake, CppTake, pyResting, cppResting
<1>3. pLeft = cLeft /\ SameOrder
  BY <1>2 DEF InStep, BothIdle
<1>4. PyTable' = CppTable' /\ SameOrder'
  BY <1>2, <1>3 DEF PyTable, CppTable, SameOrder
<1>5. Leads(terms, cStamp, cTaking, CppTable, PyTable)'
  BY <1>4, LeadsNowhere
<1>6. o # NoOrder
  BY OrderAssumption
<1> QED BY <1>2, <1>4, <1>5, <1>6 DEF InStep, BothIdle, PyRunsAhead, CppFollows

LEMMA CancelStaysInStep ==
  ASSUME Inv, InStep, NEW o \in Order, Cancel(o)
  PROVE  InStep'
<1>1. pTaking = NoOrder /\ cTaking = NoOrder /\ pLeft = cLeft /\ SameOrder
  BY DEF Cancel, Idle, InStep, BothIdle
<1>2. PyBookOf!Cancel(o) /\ CppBookOf!Cancel(o)
  BY PyCancels, CppCancels DEF Cancel
<1>3. pTaking' = NoOrder /\ cTaking' = NoOrder /\ UNCHANGED <<pStamp, cStamp>>
      /\ pLeft' = cLeft' /\ pAck' = cAck'
  BY <1>1, <1>2 DEF PyBookOf!Cancel, PyBookOf!Ack, CppBookOf!Cancel, CppBookOf!Ack
<1>4. SameOrder'
  BY <1>1, <1>3 DEF SameOrder
<1> QED BY <1>3, <1>4 DEF InStep, BothIdle, PyRunsAhead, CppFollows

LEMMA PyMatchStaysInStep ==
  ASSUME Inv, PyStamped, InStep, NEW top \in Order, PyMatch(top), UNCHANGED <<terms, cppVars>>
  PROVE  InStep'
<1>1. /\ pTaking # NoOrder /\ pTaking = cTaking /\ SameOrder
      /\ Leads(terms, cStamp, cTaking, CppTable, PyTable)
      /\ UNCHANGED <<pTaking, pStamp, cTaking, cStamp, cLeft, cQty, cFilled>>
  BY DEF PyMatch, InStep, PyRunsAhead, cppVars, cppResting, cppTaker
<1>2. SameOrder' /\ CppTable' = CppTable
  BY <1>1 DEF SameOrder, CppTable
<1>3. TypeOK /\ TypeOK'
  <2>1. [Next]_vars
    BY DEF Next, PyRuns
  <2> QED BY <2>1, NextKeepsInv DEF Inv
<1>4. PyTable \in Tables /\ PyTable' \in Tables
  BY <1>3, TablesTyped DEF TypeOK, PyTypeOK, PyTable, Tables
<1>5. Leads(terms, cStamp, cTaking, CppTable, PyTable')
  <2>1. CASE PyBookOf!Trade(top)
    BY <1>1, <1>4, <2>1, PyIterates, LeadsFurther
  <2>2. CASE UNCHANGED PyBookOf!bookVars
    <3>1. PyTable' = PyTable
      BY <2>2 DEF PyBookOf!bookVars, PyTable
    <3> QED BY <1>1, <3>1
  <2> QED BY <2>1, <2>2, PyMatchTrades
<1>6. Leads(terms, cStamp, cTaking, CppTable, PyTable)'
  BY <1>1, <1>2, <1>5
<1> QED BY <1>1, <1>2, <1>6 DEF InStep, BothIdle, PyRunsAhead, CppFollows

LEMMA PyAnswerStaysInStep ==
  ASSUME Advances, Inv, PyStamped, InStep, PyAnswer, UNCHANGED <<terms, cppVars>>
  PROVE  InStep'
<1>1. /\ pTaking # NoOrder /\ pTaking = cTaking /\ SameOrder
      /\ Leads(terms, cStamp, cTaking, CppTable, PyTable)
      /\ UNCHANGED <<cTaking, cStamp, cLeft, cQty, cFilled>>
  BY DEF PyAnswer, InStep, PyRunsAhead, cppVars, cppResting, cppTaker
<1>2. PyBookOf!Finish
  BY PyAnswerFinishes
<1>3. PyTable \in Tables
  BY TablesTyped DEF Inv
<1>4. PICK x \in Tables : x = PyTable
  BY <1>3
<1>5. x.left = pLeft /\ x.qty = pQty /\ x.filled = pFilled
  BY <1>4 DEF PyTable
<1>6. CppTable' = CppTable
  BY <1>1 DEF CppTable
<1>7. Leads(terms, cStamp, cTaking, CppTable, x)'
  BY <1>1, <1>4, <1>6
<1>8. Over(terms, cTaking, x)'
  <2>1. PyBookOf!Suitable = CanTake(terms, pLeft, cTaking)
    BY <1>1 DEF PyBookOf!Suitable, PyBookOf!Opposite, Opposite, PyBookOf!Suits, Suits, CanTake
  <2>2. Over(terms, cTaking, x)
    BY <1>2, <1>5, <2>1 DEF PyBookOf!Finish, Over
  <2> QED BY <1>1, <2>2
<1>9. PyHasAnswered(cTaking, x)'
  <2>1. pAck' = Ack(cTaking, StatusOf(terms[cTaking], x.filled, x.qty), x.filled)
    BY <1>1, <1>5 DEF PyAnswer
  <2>2. CASE Rests(cTaking, x)
    <3>1. PyBookOf!Rest
      BY <1>1, <1>2, <1>5, <2>2 DEF PyBookOf!Finish, Rests
    <3>2. pLeft' = [x.left EXCEPT ![cTaking] = x.qty]
      BY <1>1, <1>5, <3>1 DEF PyBookOf!Rest
    <3>3. \A p \in Order \ {cTaking} :
             /\ pStamp'[p] < pStamp'[cTaking]
             /\ \A q \in Order \ {cTaking} : pStamp'[p] < pStamp'[q] <=> cStamp[p] < cStamp[q]
      BY <1>1, <3>1 DEF PyBookOf!Rest, SameOrder
    <3> QED BY <1>1, <2>1, <2>2, <3>2, <3>3 DEF PyHasAnswered, Rests
  <2>3. CASE ~Rests(cTaking, x)
    <3>1. pLeft' = x.left /\ pStamp' = pStamp
      BY <1>1, <1>2, <1>5, <2>3 DEF PyBookOf!Finish, Rests
    <3> QED BY <1>1, <2>1, <2>3, <3>1 DEF PyHasAnswered, Rests, SameOrder
  <2> QED BY <2>2, <2>3
<1>10. pTaking' = NoOrder /\ cTaking' # NoOrder
  BY <1>1 DEF PyAnswer
<1> QED BY <1>7, <1>8, <1>9, <1>10 DEF InStep, BothIdle, PyRunsAhead, CppFollows

LEMMA CppMatchStaysInStep ==
  ASSUME Inv, CppStamped, InStep, pTaking = NoOrder, CppMatch, UNCHANGED <<terms, pyVars>>
  PROVE  InStep'
<1>1. /\ cTaking # NoOrder /\ UNCHANGED <<cTaking, cStamp>>
      /\ UNCHANGED <<pTaking, pStamp, pLeft, pAck>>
  BY DEF CppMatch, pyVars, pyResting, pyTaker
<1>2. PICK x \in Tables : /\ Leads(terms, cStamp, cTaking, CppTable, x)
                          /\ Over(terms, cTaking, x)
                          /\ PyHasAnswered(cTaking, x)
  BY <1>1 DEF InStep, CppFollows
<1>3. Iterates(terms, cStamp, cTaking, CppTable, CppTable')
  BY CppMatchTrades, CppIterates
<1>4. TypeOK /\ TypeOK'
  <2>1. [Next]_vars
    BY DEF Next, CppRuns
  <2> QED BY <2>1, NextKeepsInv DEF Inv
<1>5. CppTable \in Tables /\ CppTable' \in Tables
  BY <1>4, TablesTyped DEF TypeOK, CppTypeOK, CppTable, Tables
<1>6. terms \in [Order -> Terms \cup {NotSent}] /\ cStamp \in [Order -> Int] /\ cTaking \in Order
  BY <1>1, <1>4 DEF TypeOK, CppTypeOK
<1>7. Leads(terms, cStamp, cTaking, CppTable', x)
  BY <1>2, <1>3, <1>5, <1>6, LeadsOn
<1>8. Leads(terms, cStamp, cTaking, CppTable, x)' /\ Over(terms, cTaking, x)'
  BY <1>1, <1>2, <1>7
<1>9. PyHasAnswered(cTaking, x)'
  BY <1>1, <1>2 DEF PyHasAnswered, Rests, SameOrder
<1> QED BY <1>1, <1>8, <1>9 DEF InStep, BothIdle, PyRunsAhead, CppFollows

LEMMA CppAnswerStaysInStep ==
  ASSUME Advances, Inv, CppStamped, InStep, pTaking = NoOrder, CppAnswer, UNCHANGED <<terms, pyVars>>
  PROVE  InStep'
<1>1. /\ cTaking \in Order /\ cTaking # NoOrder /\ cTaking' = NoOrder
      /\ UNCHANGED <<pTaking, pStamp, pLeft, pAck>>
  BY DEF CppAnswer, pyVars, pyResting, pyTaker, Inv, TypeOK, CppTypeOK
<1>2. PICK x \in Tables : /\ Leads(terms, cStamp, cTaking, CppTable, x)
                          /\ Over(terms, cTaking, x)
                          /\ PyHasAnswered(cTaking, x)
  BY <1>1 DEF InStep, CppFollows
<1>3. CppBookOf!Finish
  BY CppAnswerFinishes
<1>4. x = CppTable
  <2>1. CppBookOf!Suitable = CanTake(terms, cLeft, cTaking)
    BY DEF CppBookOf!Suitable, CppBookOf!Opposite, Opposite, CppBookOf!Suits, Suits, CanTake
  <2>2. CppTable.left = cLeft /\ CppTable.qty = cQty
    BY DEF CppTable
  <2>3. Over(terms, cTaking, CppTable)
    BY <1>3, <2>1, <2>2 DEF CppBookOf!Finish, Over
  <2>4. CppTable \in Tables
    BY TablesTyped DEF Inv
  <2> QED BY <1>2, <2>3, <2>4, LeadsNoFurther
<1>5. x.left = cLeft /\ x.qty = cQty /\ x.filled = cFilled
  BY <1>4 DEF CppTable
<1>6. pAck' = cAck'
  BY <1>1, <1>2, <1>5 DEF CppAnswer, PyHasAnswered
<1>7. pLeft' = cLeft' /\ SameOrder'
  <2>1. CASE Rests(cTaking, x)
    <3>1. CppBookOf!Rest
      BY <1>3, <1>5, <2>1 DEF CppBookOf!Finish, Rests
    <3>2. pLeft' = cLeft'
      BY <1>1, <1>2, <1>5, <2>1, <3>1 DEF PyHasAnswered, CppBookOf!Rest
    <3>3. \A p \in Order \ {cTaking} :
             /\ pStamp[p] < pStamp[cTaking]
             /\ \A q \in Order \ {cTaking} : pStamp[p] < pStamp[q] <=> cStamp[p] < cStamp[q]
      BY <1>2, <2>1 DEF PyHasAnswered
    <3>4. \A p \in Order \ {cTaking} : cStamp'[p] = cStamp[p] /\ cStamp'[p] < cStamp'[cTaking]
      BY <3>1 DEF CppBookOf!Rest
    <3>5. \A p \in Order : pStamp[p] \in Int /\ cStamp'[p] \in Int
      <4>1. [Next]_vars
        BY DEF Next, CppRuns
      <4>2. TypeOK /\ TypeOK'
        BY <4>1, NextKeepsInv DEF Inv
      <4> QED BY <4>2 DEF TypeOK, PyTypeOK, CppTypeOK
    <3>6. ASSUME NEW p \in Order, NEW q \in Order
          PROVE  pStamp[p] < pStamp[q] <=> cStamp'[p] < cStamp'[q]
      BY <1>1, <3>3, <3>4, <3>5
    <3> QED BY <1>1, <3>2, <3>6 DEF SameOrder
  <2>2. CASE ~Rests(cTaking, x)
    <3>1. cLeft' = cLeft /\ cStamp' = cStamp
      BY <1>3, <1>5, <2>2 DEF CppBookOf!Finish, Rests
    <3> QED BY <1>1, <1>2, <1>5, <2>2, <3>1 DEF PyHasAnswered, SameOrder
  <2> QED BY <2>1, <2>2
<1> QED BY <1>1, <1>6, <1>7 DEF InStep, BothIdle, PyRunsAhead, CppFollows

LEMMA InStepHolds ==
  ASSUME Advances
  PROVE  Spec => []InStep
<1>1. Init => InStep
  <2> SUFFICES ASSUME Init PROVE InStep
    OBVIOUS
  <2>1. pTaking = NoOrder /\ cTaking = NoOrder /\ pLeft = cLeft /\ pAck = cAck /\ pStamp = cStamp
    BY DEF Init, PyInit, CppInit
  <2> QED BY <2>1 DEF InStep, BothIdle, PyRunsAhead, CppFollows, SameOrder
<1>2. Inv /\ PyStamped /\ CppStamped /\ InStep /\ [Next]_vars => InStep'
  <2> SUFFICES ASSUME Inv, PyStamped, CppStamped, InStep, [Next]_vars PROVE InStep'
    OBVIOUS
  <2>1. ASSUME NEW o \in Order, Submit(o) PROVE InStep'
    BY <2>1, SubmitStaysInStep
  <2>2. ASSUME NEW o \in Order, Cancel(o) PROVE InStep'
    BY <2>2, CancelStaysInStep
  <2>3. ASSUME PyRuns, UNCHANGED <<terms, cppVars>> PROVE InStep'
    BY <2>3, PyMatchStaysInStep, PyAnswerStaysInStep DEF PyRuns
  <2>4. ASSUME pTaking = NoOrder, CppRuns, UNCHANGED <<terms, pyVars>> PROVE InStep'
    BY <2>4, CppMatchStaysInStep, CppAnswerStaysInStep DEF CppRuns
  <2>5. CASE UNCHANGED vars
    BY <2>5 DEF vars, pyVars, pyResting, pyTaker, cppVars, cppResting, cppTaker, InStep, BothIdle,
                PyRunsAhead, CppFollows, PyHasAnswered, Rests, SameOrder, PyTable, CppTable
  <2> QED BY <2>1, <2>2, <2>3, <2>4, <2>5 DEF Next
<1> QED BY <1>1, <1>2, InvHolds, PyStampedHolds, CppStampedHolds, PTL DEF Spec

\* The engines answer alike: after the same requests, a heap with cancelled
\* orders still in it and a sorted vector have the same orders with the same
\* quantities, and have given the same answers, however the clocks run as long
\* as each tells any two orders apart.
THEOREM EnginesAgree ==
  ASSUME Advances
  PROVE  Spec => []Agree
<1>1. InStep => Agree
  BY DEF InStep, BothIdle, Agree, Idle
<1> QED BY <1>1, InStepHolds, PTL

=============================================================================

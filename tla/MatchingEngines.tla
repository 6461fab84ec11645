---------------------------- MODULE MatchingEngines ----------------------------
(* The two sample engines under the same requests, in the same order.  A      *)
(* request is answered by both before the next one comes.                     *)
EXTENDS PythonBook, CppBook

vars == <<terms, pyVars, cppVars>>

Init ==
  /\ terms = [o \in Order |-> NotSent]
  /\ PyInit
  /\ CppInit

Idle == pTaking = NoOrder /\ cTaking = NoOrder

Submit(o) ==
  /\ terms[o] = NotSent
  /\ \E t \in Generate :
       /\ terms' = [terms EXCEPT ![o] = t]
       /\ PyTake(o, t)
       /\ CppTake(o, t)

Cancel(o) ==
  /\ Idle
  /\ PyCancel(o)
  /\ CppCancel(o)
  /\ UNCHANGED terms

\* The engines share nothing, so that the Python engine may always answer first.
Next ==
  \/ \E o \in Order : Submit(o) \/ Cancel(o)
  \/ PyRuns /\ UNCHANGED <<terms, cppVars>>
  \/ pTaking = NoOrder /\ CppRuns /\ UNCHANGED <<terms, pyVars>>

Spec == Init /\ [][Next]_vars

-----------------------------------------------------------------------------
TypeOK ==
  /\ terms \in [Order -> Terms \cup {NotSent}]
  /\ PyTypeOK
  /\ CppTypeOK

\* The Python engine is a price-time book: the lazily cancelled orders that
\* its heap still holds never trade, and never hide an order that should.
PyBookOf == INSTANCE PriceTimeBook WITH
  rank <- pStamp, book <- pLeft, taking <- pTaking, qty <- pQty, filled <- pFilled, ack <- pAck
PyKeepsBook == PyBookOf!Spec

\* The C++ engine is one too: its vectors stay sorted by price and arrival
\* through insertions, fills and cancellations.
CppBookOf == INSTANCE PriceTimeBook WITH
  rank <- cStamp, book <- cLeft, taking <- cTaking, qty <- cQty, filled <- cFilled, ack <- cAck
CppKeepsBook == CppBookOf!Spec

\* Neither book is ever crossed: the orders that rest have no price at which
\* they should have traded with each other.
Crossed(left) == \E b, a \in Order :
  /\ left[b] > 0 /\ terms[b].side = "buy"
  /\ left[a] > 0 /\ terms[a].side = "sell"
  /\ terms[a].price <= terms[b].price
NotCrossed == ~Crossed(pLeft) /\ ~Crossed(cLeft)

\* The two engines answer alike: the same status, the same quantity, although
\* one forgets a cancelled order at once and the other only when it meets it.
Agree == Idle => pAck = cAck

\* What a bot counts as a priority error is never the answer of a correct
\* engine, not even when the price reported is that of a cancelled order.
NoFalsePriorityError ==
  /\ pAck.id # NoOrder => ~PriorityError(terms[pAck.id], pAckPrice)
  /\ cAck.id # NoOrder => ~PriorityError(terms[cAck.id], cAckPrice)

=============================================================================

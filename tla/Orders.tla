-------------------------------- MODULE Orders --------------------------------
(* The orders the bots send (backend/services/botfleet/order_gen.go) and what *)
(* a request to an engine is.  The generator computes with floating-point     *)
(* numbers, here fractions with a common denominator, and rounds a price to   *)
(* cents when it has it; its random numbers are its parameters.               *)
EXTENDS Integers

CONSTANTS
  Order,       \* identifiers of orders, fresh ones (uuid.NewString()[:8])
  NoOrder,     \* no order
  Grain,       \* into how many parts a cent, and 0.01 %, are divided
  Mid,         \* prices of a symbol as updatePrice leaves them, in parts of a cent
  Spread,      \* distances from them, in parts of 0.01 %
  RawQty,      \* quantities as they are drawn, rounded down
  ClockSteps   \* by how much an engine's clock moves between two orders

ASSUME OrderAssumption ==
  /\ NoOrder \notin Order
  /\ Grain \in Nat \ {0}
  /\ Mid \subseteq Nat \ {0}
  /\ Spread \subseteq 0 .. (20 * Grain - 1)
  /\ RawQty \subseteq Nat
  /\ ClockSteps \subseteq Int

VARIABLE terms   \* what each order that has been sent asks for

Side == {"buy", "sell"}
Opposite(side) == IF side = "buy" THEN "sell" ELSE "buy"

\* Buyers bid lower, sellers ask higher, by less than 0.2 %...
Hundred == 10000 * Grain    \* 100 %, in parts of 0.01 %
Asked(side, mid, k) == mid * (IF side = "buy" THEN Hundred - k ELSE Hundred + k)

\* ...and the price is rounded to the nearest cent, whatever side of the middle
\* that is on.
Cents(raw) == LET cent == Hundred * Grain IN (2 * raw + cent) \div (2 * cent)
Quote(side, mid, k) == Cents(Asked(side, mid, k))

MaxQuantity == 10000
Quantity(raw) == IF raw < 1 THEN 1 ELSE IF raw > MaxQuantity THEN MaxQuantity ELSE raw

Terms == [type : {"limit", "market"}, side : Side, price : Nat, qty : 1 .. MaxQuantity]
NotSent == [type |-> "none", side |-> "none", price |-> 0, qty |-> 0]

\* Generate, but for the cancel orders, whose id is that of no other order, and
\* for the price of a market order, which no engine reads.
Limits ==
  {[type |-> "limit", side |-> side, price |-> Quote(side, mid, k), qty |-> Quantity(raw)] :
     side \in Side, mid \in Mid, k \in Spread, raw \in RawQty}
Markets ==
  {[type |-> "market", side |-> side, price |-> 0, qty |-> Quantity(raw)] :
     side \in Side, raw \in RawQty}
Generate == Limits \cup Markets

\* Mutant of Suits: a sell order takes what is below its price.
SuitsSellBelow(t, price) ==
  \/ t.type = "market"
  \/ t.side = "buy" /\ price <= t.price
  \/ t.side = "sell" /\ price <= t.price

\* The price of a resting order suits an order of terms t.
Suits(t, price) ==
  \/ t.type = "market"
  \/ t.side = "buy" /\ price <= t.price
  \/ t.side = "sell" /\ price >= t.price

Status == {"filled", "partial", "accepted", "rejected", "cancelled"}

\* The status of an answer: filled of an order of terms t were executed and
\* left were not.
StatusOf(t, filled, left) ==
  IF t.type = "market" THEN (IF filled > 0 THEN "filled" ELSE "rejected")
  ELSE IF filled > 0 /\ left = 0 THEN "filled"
  ELSE IF filled > 0 THEN "partial" ELSE "accepted"

Ack(o, status, filled) == [id |-> o, status |-> status, filled |-> filled]
Acks == [id : Order \cup {NoOrder}, status : Status, filled : Nat]
NoAck == Ack(NoOrder, "rejected", 0)

\* What a bot counts as a priority error: an acknowledged fill of a limit order
\* at a worse price than its own.
PriorityError(t, price) ==
  /\ price > 0
  /\ t.type = "limit"
  /\ \/ t.side = "buy" /\ price > t.price
     \/ t.side = "sell" /\ price < t.price

Least(a, b) == IF a < b THEN a ELSE b

=============================================================================

--------------------------- MODULE MeasurementProofs ---------------------------
(* Theorems about Measurement, for every fleet, protocol, capacity and bound. *)
EXTENDS Measurement, FiniteSetTheorems, TLAPS

-----------------------------------------------------------------------------
(* The type invariant                                                         *)

LEMMA TotalsAreNat ==
  ASSUME NEW f \in [Kind -> Nat]
  PROVE  Total(f) \in Nat /\ TotalAcked(f) \in Nat /\ TotalTimed(f) \in Nat
BY DEF Kind, Total, TotalAcked, TotalTimed

LEMMA ZeroIsWindow == Zero \in [Counter -> Nat]
BY DEF Zero

LEMMA IngestedTypes ==
  ASSUME window \in [Counter -> Nat], NEW taken \in [Kind -> Nat]
  PROVE  Ingested(taken) \in [Counter -> Nat]
<1>1. Total(taken) \in Nat /\ TotalAcked(taken) \in Nat /\ taken["error"] \in Nat
  BY TotalsAreNat DEF Kind
<1>2. \A m, n, p \in Nat :
        [window EXCEPT !["sent"] = @ + m, !["acked"] = @ + n, !["fill"] = @ + p] \in [Counter -> Nat]
  BY DEF Counter
<1> QED BY <1>1, <1>2 DEF Ingested

\* The sums s and l of the rows stored and lost, before and after a flush of
\* window w: what w held is in the one or the other, provided a window with no
\* order in it has no failed order either.
Moved(w, s, l, s1, l1) ==
  \A c \in {"sent", "acked", "fill"} : s1[c] + l1[c] = w[c] + s[c] + l[c]

LEMMA FlushMoves ==
  ASSUME NEW w \in [Counter -> Nat],
         NEW s \in [Counter -> Nat], NEW l \in [Counter -> Nat], NEW s1, NEW l1,
         \/ w["sent"] = 0 /\ w["acked"] = 0 /\ s1 = s /\ l1 = l
         \/ s1 = [c \in Counter |-> s[c] + w[c]] /\ l1 = l
         \/ s1 = s /\ l1 = [c \in Counter |-> l[c] + w[c]]
  PROVE  /\ s1 \in [Counter -> Nat] /\ l1 \in [Counter -> Nat]
         /\ w["sent"] = w["acked"] + w["fill"] => Moved(w, s, l, s1, l1)
<1>1. \A c \in {"sent", "acked", "fill"} : c \in Counter /\ w[c] \in Nat /\ s[c] \in Nat /\ l[c] \in Nat
  BY DEF Counter
<1>2. CASE w["sent"] = 0 /\ w["acked"] = 0 /\ s1 = s /\ l1 = l
  <2>1. w["sent"] = w["acked"] + w["fill"] => \A c \in {"sent", "acked", "fill"} : w[c] = 0
    BY <1>1, <1>2
  <2> QED BY <1>1, <1>2, <2>1 DEF Moved
<1>3. CASE s1 = [c \in Counter |-> s[c] + w[c]] /\ l1 = l
  BY <1>1, <1>3 DEF Moved
<1>4. CASE s1 = s /\ l1 = [c \in Counter |-> l[c] + w[c]]
  BY <1>1, <1>4 DEF Moved
<1> QED BY <1>2, <1>3, <1>4

\* What a step of the ingester that flushes does; the window it flushes is its
\* own, or its own and all that is in the channel.
Flushes(w) ==
  /\ window' = Zero /\ timed' = 0
  /\ shapes' \subseteq Shape
  /\ stored' \in [Counter -> Nat] /\ lost' \in [Counter -> Nat]
  /\ w["sent"] = w["acked"] + w["fill"] => Moved(w, stored, lost, stored', lost')
  /\ ~InsertFails /\ ingestCtx => lost' = lost

LEMMA FlushesWindow ==
  ASSUME IngesterTypeOK,
         \/ Flush(window, timed, ingestCtx)
         \/ Flush(window, timed, FALSE) /\ ~ingestCtx
  PROVE  Flushes(window)
<1>1. /\ window \in [Counter -> Nat] /\ stored \in [Counter -> Nat] /\ lost \in [Counter -> Nat]
      /\ shapes \subseteq Shape
  BY DEF IngesterTypeOK
<1>2. \/ window["sent"] = 0 /\ window["acked"] = 0 /\ stored' = stored /\ lost' = lost
      \/ stored' = [c \in Counter |-> stored[c] + window[c]] /\ lost' = lost
      \/ stored' = stored /\ lost' = [c \in Counter |-> lost[c] + window[c]]
  BY DEF Flush, Persist
<1>3. /\ stored' \in [Counter -> Nat] /\ lost' \in [Counter -> Nat]
      /\ window["sent"] = window["acked"] + window["fill"] => Moved(window, stored, lost, stored', lost')
  BY <1>1, <1>2, FlushMoves
<1>4. shapes' \subseteq Shape
  <2>1. \A n \in {timed, timed + TotalTimed(buffered)} : Row(window, n) \in Shape
    BY DEF Row, Shape
  <2>2. \E n \in {timed, timed + TotalTimed(buffered)} :
           shapes' \subseteq shapes \cup {Row(window, n)}
    BY DEF Flush, Persist
  <2> QED BY <1>1, <2>1, <2>2
<1>5. window' = Zero /\ timed' = 0 /\ (~InsertFails /\ ingestCtx => lost' = lost)
  BY DEF Flush, Persist
<1> QED BY <1>3, <1>4, <1>5 DEF Flushes

LEMMA FlushesChannel ==
  ASSUME IngesterTypeOK, Ingested(buffered) \in [Counter -> Nat],
         Flush(Ingested(buffered), timed + TotalTimed(buffered), ingestCtx)
  PROVE  Flushes(Ingested(buffered))
<1> DEFINE w == Ingested(buffered)
<1>1. /\ stored \in [Counter -> Nat] /\ lost \in [Counter -> Nat] /\ shapes \subseteq Shape
  BY DEF IngesterTypeOK
<1>2. \/ w["sent"] = 0 /\ w["acked"] = 0 /\ stored' = stored /\ lost' = lost
      \/ stored' = [c \in Counter |-> stored[c] + w[c]] /\ lost' = lost
      \/ stored' = stored /\ lost' = [c \in Counter |-> lost[c] + w[c]]
  BY DEF Flush, Persist
<1>3. shapes' \subseteq Shape
  <2>1. \A n \in {timed, timed + TotalTimed(buffered)} : Row(w, n) \in Shape
    BY DEF Row, Shape
  <2>2. \E n \in {timed, timed + TotalTimed(buffered)} :
           shapes' \subseteq shapes \cup {Row(w, n)}
    BY DEF Flush, Persist
  <2> QED BY <1>1, <2>1, <2>2
<1>4. window' = Zero /\ timed' = 0 /\ (~InsertFails /\ ingestCtx => lost' = lost)
  BY DEF Flush, Persist
<1> HIDE DEF w
<1>5. /\ stored' \in [Counter -> Nat] /\ lost' \in [Counter -> Nat]
      /\ w["sent"] = w["acked"] + w["fill"] => Moved(w, stored, lost, stored', lost')
  <2>1. w \in [Counter -> Nat]
    BY DEF w
  <2> QED BY <1>1, <1>2, <2>1, FlushMoves
<1> QED BY <1>5, <1>3, <1>4 DEF Flushes, w

LEMMA InitTypes == Init => TypeOK
<1> SUFFICES ASSUME Init PROVE TypeOK
  OBVIOUS
<1>1. FleetTypeOK
  BY DEF Init, FleetInit, FleetTypeOK, BotStep, Kind
<1>2. IngesterTypeOK
  <2>1. Zero \in [Counter -> Nat]
    BY DEF Zero
  <2> QED BY <2>1 DEF Init, IngesterInit, IngesterTypeOK
<1> QED BY <1>1, <1>2 DEF Init, MeasureInit, TypeOK, MeasureStep

LEMMA MeasureKeepsTypes ==
  ASSUME TypeOK, Measure
  PROVE  TypeOK'
<1> USE DEF TypeOK, FleetTypeOK, IngesterTypeOK, MeasureStep, fleetVars, ingesterVars, BotStep
<1>1. CASE StartIngester
  BY <1>1 DEF StartIngester
<1>2. CASE StartFleet
  BY <1>2 DEF StartFleet, Start
<1>3. CASE StopFleet
  BY <1>3 DEF StopFleet, Cancel
<1>4. CASE CloseChannel
  BY <1>4 DEF CloseChannel, Close
<1>5. CASE StopIngester
  BY <1>5 DEF StopIngester
<1>6. CASE AwaitIngester
  BY <1>6 DEF AwaitIngester
<1> QED BY <1>1, <1>2, <1>3, <1>4, <1>5, <1>6 DEF Measure

LEMMA NoteKeepsTypes ==
  ASSUME FleetTypeOK, NEW b \in Bot, NEW k \in Kind, Note(b, k)
  PROVE  /\ counters' \in [Counter -> Nat]
         /\ answer' \in [Bot -> Kind]
         /\ bot' \in [Bot -> BotStep]
<1> USE DEF FleetTypeOK
<1>1. \A n \in Counter : counters'[n] \in {counters[n], counters[n] + 1}
  BY DEF Note, Counter
<1>2. DOMAIN counters' = Counter /\ counters' = [n \in Counter |-> counters'[n]]
  BY DEF Note
<1>3. counters' \in [Counter -> Nat]
  BY <1>1, <1>2
<1>4. answer' \in [Bot -> Kind]
  BY DEF Note
<1>5. bot' \in [Bot -> BotStep]
  BY DEF Note, BotGoto, BotStep
<1> QED BY <1>3, <1>4, <1>5

LEMMA FleetKeepsTypes ==
  ASSUME TypeOK, FleetRuns
  PROVE  TypeOK'
<1> USE DEF TypeOK, FleetTypeOK, BotStep, BotGoto
<1>1. IngesterTypeOK' /\ mpc' = mpc /\ ctx' = ctx /\ aborts' = aborts /\ webSocket' = webSocket
  BY DEF FleetRuns, ingesterVars, measureVars, IngesterTypeOK
<1>2. ASSUME NEW b \in Bot, Connect(b) PROVE FleetTypeOK'
  BY <1>1, <1>2 DEF Connect
<1>3. ASSUME NEW b \in Bot, Leave(b) PROVE FleetTypeOK'
  BY <1>1, <1>3 DEF Leave
<1>4. ASSUME NEW b \in Bot, SendOrder(b) PROVE FleetTypeOK'
  BY <1>1, <1>4 DEF SendOrder, Counter
<1>5. ASSUME NEW b \in Bot, NEW k \in Kind, Answered(b, k) PROVE FleetTypeOK'
  BY <1>1, <1>5, NoteKeepsTypes DEF Answered
<1>6. ASSUME NEW b \in Bot, Publish(b) PROVE FleetTypeOK'
  <2>1. bot' \in [Bot -> BotStep] /\ panicked' \in BOOLEAN /\ answer' \in [Bot -> Kind]
    BY <1>1, <1>6 DEF Publish, Kind
  <2>2. answer[b] \in Kind /\ buffered[answer[b]] + 1 \in Nat /\ dropped[answer[b]] + 1 \in Nat
    OBVIOUS
  <2>3. buffered' \in [Kind -> Nat] /\ dropped' \in [Kind -> Nat]
    BY <1>1, <1>6, <2>2 DEF Publish
  <2> QED BY <1>1, <1>6, <2>1, <2>3 DEF Publish
<1>7. ASSUME NEW b \in Bot, RampUp(b) PROVE FleetTypeOK'
  BY <1>1, <1>7 DEF RampUp
<1>8. ASSUME RampStops PROVE FleetTypeOK'
  BY <1>1, <1>8 DEF RampStops
<1>9. ASSUME NEW b \in Bot, ReadFails(b) PROVE FleetTypeOK'
  <2>1. "error" \in Kind
    BY DEF Kind
  <2>2. failedReads' \in [Bot -> Nat]
    BY <1>1, <1>9 DEF ReadFails
  <2>3. counters' \in [Counter -> Nat] /\ answer' \in [Bot -> Kind] /\ bot' \in [Bot -> BotStep]
    BY <1>1, <1>9, <2>1, NoteKeepsTypes DEF ReadFails
  <2> QED BY <1>1, <1>9, <2>2, <2>3 DEF ReadFails
<1> QED BY <1>1, <1>2, <1>3, <1>4, <1>5, <1>6, <1>7, <1>8, <1>9 DEF FleetRuns, BotRuns

LEMMA IngesterKeepsTypes ==
  ASSUME TypeOK, IngesterRuns, UNCHANGED measureVars
  PROVE  TypeOK'
<1>1. /\ IngesterTypeOK /\ buffered \in [Kind -> Nat] /\ window \in [Counter -> Nat]
      /\ timed \in Nat /\ ingestCtx \in BOOLEAN
  BY DEF TypeOK, FleetTypeOK, IngesterTypeOK
<1>2. ASSUME NEW k \in Kind, Ingest(k) PROVE buffered' \in [Kind -> Nat] /\ IngesterTypeOK'
  <2> DEFINE one == [j \in Kind |-> IF j = k THEN 1 ELSE 0]
  <2>1. one \in [Kind -> Nat]
    OBVIOUS
  <2>2. Ingested(one) \in [Counter -> Nat]
    BY <1>1, <2>1, IngestedTypes
  <2>3. buffered[k] - 1 \in Nat
    BY <1>1, <1>2 DEF Ingest
  <2>4. buffered' \in [Kind -> Nat]
    BY <1>1, <1>2, <2>3 DEF Ingest
  <2> QED BY <1>1, <1>2, <2>2, <2>4 DEF Ingest, IngesterTypeOK
<1>3. ASSUME Tick PROVE buffered' \in [Kind -> Nat] /\ IngesterTypeOK'
  <2>1. Flushes(window)
    BY <1>1, <1>3, FlushesWindow DEF Tick
  <2>2. ticks' \in Nat
    BY <1>1, <1>3 DEF Tick, IngesterTypeOK
  <2> QED BY <1>1, <1>3, <2>1, <2>2, ZeroIsWindow DEF Tick, Flushes, IngesterTypeOK
<1>4. ASSUME SeesStop PROVE buffered' \in [Kind -> Nat] /\ IngesterTypeOK'
  <2>1. Flushes(Ingested(buffered))
    BY <1>1, <1>4, IngestedTypes, FlushesChannel DEF SeesStop
  <2>2. buffered' \in [Kind -> Nat]
    BY <1>4 DEF SeesStop
  <2> QED BY <1>1, <1>4, <2>1, <2>2, ZeroIsWindow DEF SeesStop, Flushes, IngesterTypeOK
<1>5. ASSUME SeesClosed PROVE buffered' \in [Kind -> Nat] /\ IngesterTypeOK'
  <2>1. Flushes(window)
    BY <1>1, <1>5, FlushesWindow DEF SeesClosed
  <2> QED BY <1>1, <1>5, <2>1, ZeroIsWindow DEF SeesClosed, Flushes, IngesterTypeOK
<1>6. ASSUME SeesCancel PROVE buffered' \in [Kind -> Nat] /\ IngesterTypeOK'
  <2>1. Flushes(window)
    BY <1>1, <1>6, FlushesWindow DEF SeesCancel
  <2> QED BY <1>1, <1>6, <2>1, ZeroIsWindow DEF SeesCancel, Flushes, IngesterTypeOK
<1>7. buffered' \in [Kind -> Nat] /\ IngesterTypeOK'
  BY <1>2, <1>3, <1>4, <1>5, <1>6 DEF IngesterRuns
<1> QED BY <1>7 DEF IngesterRuns, measureVars, TypeOK, FleetTypeOK

LEMMA NextKeepsTypes == TypeOK /\ [Next]_vars => TypeOK'
<1> SUFFICES ASSUME TypeOK, [Next]_vars PROVE TypeOK'
  OBVIOUS
<1>1. CASE Measure
  BY <1>1, MeasureKeepsTypes
<1>2. CASE FleetRuns
  BY <1>2, FleetKeepsTypes
<1>3. CASE IngesterStep
  BY <1>3, IngesterKeepsTypes DEF IngesterStep
<1>4. CASE ShutDown
  BY <1>4 DEF ShutDown, TypeOK, FleetTypeOK, IngesterTypeOK
<1>5. CASE UNCHANGED vars
  BY <1>5 DEF vars, fleetVars, ingesterVars, measureVars, TypeOK, FleetTypeOK, IngesterTypeOK
<1> QED BY <1>1, <1>2, <1>3, <1>4, <1>5 DEF Next

\* Every variable of the fleet, the ingester and processRun keeps its type; no
\* count of samples or of orders goes below zero.
THEOREM MeasurementTypeCorrect == Spec => []TypeOK
BY InitTypes, NextKeepsTypes, PTL DEF Spec

-----------------------------------------------------------------------------
(* Conservation                                                               *)

\* Before Start there is no bot.
Quiet == mpc \in {"ingester", "fleet"} => ramp = "off" /\ \A b \in Bot : bot[b] = "off"

\* The ingester counts a sample as acknowledged or as failed, never as both or
\* as neither: a window flush throws away for it is empty holds no failure.
WindowAdds == window["sent"] = window["acked"] + window["fill"]

AccountInv == TypeOK /\ Quiet /\ WindowAdds /\ Conservation

\* The orders in the hands of the bots.
InFlight == Cardinality(Waiting)
Unsent == Cardinality(Publishing(Kind))
UnsentAcks == Cardinality(Publishing(Acked))
UnsentErrors == Cardinality(Publishing({"error"}))
Hands == <<InFlight, Unsent, UnsentAcks, UnsentErrors>>

LEMMA HandsAreFinite ==
  /\ IsFiniteSet(Waiting) /\ InFlight \in Nat
  /\ IsFiniteSet(Publishing(Kind)) /\ Unsent \in Nat
  /\ IsFiniteSet(Publishing(Acked)) /\ UnsentAcks \in Nat
  /\ IsFiniteSet(Publishing({"error"})) /\ UnsentErrors \in Nat
<1>1. Waiting \in SUBSET Bot /\ Publishing(Kind) \in SUBSET Bot
      /\ Publishing(Acked) \in SUBSET Bot /\ Publishing({"error"}) \in SUBSET Bot
  BY DEF Waiting, Publishing
<1>2. IsFiniteSet(Waiting) /\ IsFiniteSet(Publishing(Kind))
      /\ IsFiniteSet(Publishing(Acked)) /\ IsFiniteSet(Publishing({"error"}))
  BY <1>1, FleetAssumption, FS_Subset
<1> QED BY <1>2, FS_CardinalityType DEF InFlight, Unsent, UnsentAcks, UnsentErrors

LEMMA HandsAreNat == InFlight \in Nat /\ Unsent \in Nat /\ UnsentAcks \in Nat /\ UnsentErrors \in Nat
BY HandsAreFinite

\* A bot that neither was nor is about an order changes nothing.
LEMMA HandsUnmoved ==
  ASSUME \A b \in Bot : \/ bot'[b] = bot[b] /\ answer'[b] = answer[b]
                        \/ {bot[b], bot'[b]} \cap {"waiting", "publish"} = {}
  PROVE  Hands' = Hands
<1>1. /\ Waiting' = Waiting /\ Publishing(Kind)' = Publishing(Kind)
      /\ Publishing(Acked)' = Publishing(Acked) /\ Publishing({"error"})' = Publishing({"error"})
  BY DEF Waiting, Publishing, Kind, Acked
<1> QED BY <1>1 DEF Hands, InFlight, Unsent, UnsentAcks, UnsentErrors

LEMMA HandsOnSend ==
  ASSUME TypeOK, NEW b \in Bot, SendOrder(b)
  PROVE  /\ InFlight' = InFlight + 1
         /\ Unsent' = Unsent /\ UnsentAcks' = UnsentAcks /\ UnsentErrors' = UnsentErrors
<1>1. b \notin Waiting /\ Waiting' = Waiting \cup {b}
  BY DEF SendOrder, BotGoto, Waiting, TypeOK, FleetTypeOK
<1>2. /\ Publishing(Kind)' = Publishing(Kind) /\ Publishing(Acked)' = Publishing(Acked)
      /\ Publishing({"error"})' = Publishing({"error"})
  BY DEF SendOrder, BotGoto, Publishing, TypeOK, FleetTypeOK
<1>3. Cardinality(Waiting \cup {b}) = Cardinality(Waiting) + 1
  BY <1>1, HandsAreFinite, FS_AddElement
<1> QED BY <1>1, <1>2, <1>3 DEF InFlight, Unsent, UnsentAcks, UnsentErrors

LEMMA HandsOnAnswer ==
  ASSUME TypeOK, NEW b \in Bot, NEW k \in Kind, bot[b] = "waiting", Note(b, k)
  PROVE  /\ InFlight' = InFlight - 1
         /\ Unsent' = Unsent + 1
         /\ UnsentAcks' = UnsentAcks + (IF k \in Acked THEN 1 ELSE 0)
         /\ UnsentErrors' = UnsentErrors + (IF k \notin Acked THEN 1 ELSE 0)
<1> USE DEF Note, BotGoto, TypeOK, FleetTypeOK
<1>1. b \in Waiting /\ Waiting' = Waiting \ {b}
  BY DEF Waiting
<1>2. b \notin Publishing(Kind) /\ Publishing(Kind)' = Publishing(Kind) \cup {b}
  BY DEF Publishing
<1>3. /\ b \notin Publishing(Acked)
      /\ Publishing(Acked)' = IF k \in Acked THEN Publishing(Acked) \cup {b} ELSE Publishing(Acked)
  BY DEF Publishing
<1>4. /\ b \notin Publishing({"error"})
      /\ Publishing({"error"})' =
           IF k \notin Acked THEN Publishing({"error"}) \cup {b} ELSE Publishing({"error"})
  BY DEF Publishing, Acked, Kind
<1> USE HandsAreFinite
<1>5. Cardinality(Waiting \ {b}) = Cardinality(Waiting) - 1
  BY <1>1, FS_RemoveElement
<1>6. Cardinality(Publishing(Kind) \cup {b}) = Cardinality(Publishing(Kind)) + 1
  BY <1>2, FS_AddElement
<1>7. Cardinality(Publishing(Acked) \cup {b}) = Cardinality(Publishing(Acked)) + 1
  BY <1>3, FS_AddElement
<1>8. Cardinality(Publishing({"error"}) \cup {b}) = Cardinality(Publishing({"error"})) + 1
  BY <1>4, FS_AddElement
<1> QED BY <1>1, <1>2, <1>3, <1>4, <1>5, <1>6, <1>7, <1>8
  DEF InFlight, Unsent, UnsentAcks, UnsentErrors

LEMMA HandsOnPublish ==
  ASSUME TypeOK, NEW b \in Bot, bot[b] = "publish", BotGoto(b, "ready"),
         answer' = [answer EXCEPT ![b] = "error"]
  PROVE  /\ InFlight' = InFlight
         /\ Unsent' = Unsent - 1
         /\ UnsentAcks' = UnsentAcks - (IF answer[b] \in Acked THEN 1 ELSE 0)
         /\ UnsentErrors' = UnsentErrors - (IF answer[b] = "error" THEN 1 ELSE 0)
<1> USE DEF BotGoto, TypeOK, FleetTypeOK
<1>1. Waiting' = Waiting
  BY DEF Waiting
<1>2. b \in Publishing(Kind) /\ Publishing(Kind)' = Publishing(Kind) \ {b}
  BY DEF Publishing
<1>3. /\ b \in Publishing(Acked) <=> answer[b] \in Acked
      /\ Publishing(Acked)' = Publishing(Acked) \ {b}
  BY DEF Publishing
<1>4. /\ b \in Publishing({"error"}) <=> answer[b] = "error"
      /\ Publishing({"error"})' = Publishing({"error"}) \ {b}
  BY DEF Publishing
<1> USE HandsAreFinite
<1>5. Cardinality(Publishing(Kind) \ {b}) = Cardinality(Publishing(Kind)) - 1
  BY <1>2, FS_RemoveElement
<1>6. Cardinality(Publishing(Acked) \ {b}) =
        Cardinality(Publishing(Acked)) - (IF answer[b] \in Acked THEN 1 ELSE 0)
  <2>1. Cardinality(Publishing(Acked) \ {b}) =
          IF b \in Publishing(Acked) THEN Cardinality(Publishing(Acked)) - 1 ELSE Cardinality(Publishing(Acked))
    BY FS_RemoveElement
  <2>2. Cardinality(Publishing(Acked)) \in Nat
    BY DEF UnsentAcks
  <2> QED BY <1>3, <2>1, <2>2
<1>7. Cardinality(Publishing({"error"}) \ {b}) =
        Cardinality(Publishing({"error"})) - (IF answer[b] = "error" THEN 1 ELSE 0)
  <2>1. Cardinality(Publishing({"error"}) \ {b}) =
          IF b \in Publishing({"error"}) THEN Cardinality(Publishing({"error"})) - 1 ELSE Cardinality(Publishing({"error"}))
    BY FS_RemoveElement
  <2>2. Cardinality(Publishing({"error"})) \in Nat
    BY DEF UnsentErrors
  <2> QED BY <1>4, <2>1, <2>2
<1> QED BY <1>1, <1>2, <1>3, <1>4, <1>5, <1>6, <1>7
  DEF InFlight, Unsent, UnsentAcks, UnsentErrors

LEMMA InitAccounts == Init => Quiet /\ WindowAdds /\ Conservation
<1> SUFFICES ASSUME Init PROVE Quiet /\ WindowAdds /\ Conservation
  OBVIOUS
<1>1. Quiet /\ WindowAdds
  BY DEF Init, FleetInit, IngesterInit, Quiet, WindowAdds, Zero, Counter
<1>2. /\ Waiting = {} /\ Publishing(Kind) = {} /\ Publishing(Acked) = {}
      /\ Publishing({"error"}) = {}
  BY DEF Init, FleetInit, Waiting, Publishing
<1>3. Cardinality({}) = 0
  BY FS_EmptySet
<1>4. Total(buffered) = 0 /\ Total(dropped) = 0 /\ TotalAcked(buffered) = 0 /\ TotalAcked(dropped) = 0
      /\ buffered["error"] = 0 /\ dropped["error"] = 0
  BY DEF Init, FleetInit, Total, TotalAcked, Kind
<1>5. \A c \in {"sent", "acked", "fill"} :
         counters[c] = 0 /\ window[c] = 0 /\ stored[c] = 0 /\ lost[c] = 0
  BY DEF Init, FleetInit, IngesterInit, Zero, Counter
<1> QED BY <1>1, <1>2, <1>3, <1>4, <1>5 DEF Conservation, Kept

\* Conservation, one equation at a time and its numbers named.
SentAdds ==
  counters["sent"] = InFlight + Unsent + Total(buffered) + Total(dropped) + Kept("sent")
AckedAdds ==
  counters["acked"] = UnsentAcks + TotalAcked(buffered) + TotalAcked(dropped) + Kept("acked")
FillAdds ==
  counters["fill"] = UnsentErrors + buffered["error"] + dropped["error"] + Kept("fill")

LEMMA Equations ==
  /\ Conservation <=> SentAdds /\ AckedAdds /\ FillAdds
  /\ Conservation' <=> SentAdds' /\ AckedAdds' /\ FillAdds'
BY DEF Conservation, SentAdds, AckedAdds, FillAdds, InFlight, Unsent, UnsentAcks, UnsentErrors

LEMMA NumbersAreNat ==
  ASSUME TypeOK
  PROVE  /\ counters["sent"] \in Nat /\ counters["acked"] \in Nat /\ counters["fill"] \in Nat
         /\ window["sent"] \in Nat /\ window["acked"] \in Nat /\ window["fill"] \in Nat
         /\ stored["sent"] \in Nat /\ stored["acked"] \in Nat /\ stored["fill"] \in Nat
         /\ lost["sent"] \in Nat /\ lost["acked"] \in Nat /\ lost["fill"] \in Nat
         /\ Kept("sent") \in Nat /\ Kept("acked") \in Nat /\ Kept("fill") \in Nat
         /\ buffered["error"] \in Nat /\ dropped["error"] \in Nat
         /\ Total(buffered) \in Nat /\ TotalAcked(buffered) \in Nat
         /\ Total(dropped) \in Nat /\ TotalAcked(dropped) \in Nat
BY TotalsAreNat DEF TypeOK, FleetTypeOK, IngesterTypeOK, Counter, Kind, Kept

\* A step that moves no order moves no number.
LEMMA UnmovedAccounts ==
  ASSUME Conservation, Hands' = Hands,
         UNCHANGED <<counters, buffered, dropped, window, stored, lost>>
  PROVE  Conservation'
<1>1. InFlight' = InFlight /\ Unsent' = Unsent /\ UnsentAcks' = UnsentAcks /\ UnsentErrors' = UnsentErrors
  BY DEF Hands
<1> QED BY <1>1, Equations DEF SentAdds, AckedAdds, FillAdds, Total, TotalAcked, Kept

LEMMA SendOrderAccounts ==
  ASSUME TypeOK, Conservation, NEW b \in Bot, SendOrder(b), UNCHANGED ingesterVars
  PROVE  Conservation'
<1>1. SentAdds /\ AckedAdds /\ FillAdds
  BY Equations
<1>2. counters'["sent"] = counters["sent"] + 1
      /\ counters'["acked"] = counters["acked"] /\ counters'["fill"] = counters["fill"]
  BY DEF SendOrder, TypeOK, FleetTypeOK, Counter
<1>3. UNCHANGED <<buffered, dropped, window, stored, lost>>
  BY DEF SendOrder, ingesterVars
<1>4. Kept("sent")' = Kept("sent") /\ Kept("acked")' = Kept("acked") /\ Kept("fill")' = Kept("fill")
  BY <1>3 DEF Kept
<1>5. Total(buffered') = Total(buffered) /\ Total(dropped') = Total(dropped)
      /\ TotalAcked(buffered') = TotalAcked(buffered) /\ TotalAcked(dropped') = TotalAcked(dropped)
  BY <1>3 DEF Total, TotalAcked
<1>6. /\ InFlight' = InFlight + 1
      /\ Unsent' = Unsent /\ UnsentAcks' = UnsentAcks /\ UnsentErrors' = UnsentErrors
  BY HandsOnSend
<1>7. SentAdds'
  BY <1>1, <1>2, <1>3, <1>5, <1>6, <1>4, HandsAreNat, NumbersAreNat DEF SentAdds
<1>8. AckedAdds'
  BY <1>1, <1>2, <1>3, <1>5, <1>6, <1>4, HandsAreNat, NumbersAreNat DEF AckedAdds
<1>9. FillAdds'
  BY <1>1, <1>2, <1>3, <1>5, <1>6, <1>4, HandsAreNat, NumbersAreNat DEF FillAdds
<1> QED BY <1>7, <1>8, <1>9, Equations

LEMMA NoteAccounts ==
  ASSUME TypeOK, Conservation, NEW b \in Bot, NEW k \in Kind, bot[b] = "waiting", Note(b, k),
         UNCHANGED <<buffered, dropped>>, UNCHANGED ingesterVars
  PROVE  Conservation'
<1>1. SentAdds /\ AckedAdds /\ FillAdds
  BY Equations
<1>2. counters'["sent"] = counters["sent"]
      /\ counters'["acked"] = counters["acked"] + (IF k \in Acked THEN 1 ELSE 0)
      /\ counters'["fill"] = counters["fill"] + (IF k \notin Acked THEN 1 ELSE 0)
  BY DEF Note, TypeOK, FleetTypeOK, Counter
<1>3. UNCHANGED <<buffered, dropped, window, stored, lost>>
  BY DEF ingesterVars
<1>4. Kept("sent")' = Kept("sent") /\ Kept("acked")' = Kept("acked") /\ Kept("fill")' = Kept("fill")
  BY <1>3 DEF Kept
<1>5. Total(buffered') = Total(buffered) /\ Total(dropped') = Total(dropped)
      /\ TotalAcked(buffered') = TotalAcked(buffered) /\ TotalAcked(dropped') = TotalAcked(dropped)
  BY <1>3 DEF Total, TotalAcked
<1>6. /\ InFlight' = InFlight - 1
      /\ Unsent' = Unsent + 1
      /\ UnsentAcks' = UnsentAcks + (IF k \in Acked THEN 1 ELSE 0)
      /\ UnsentErrors' = UnsentErrors + (IF k \notin Acked THEN 1 ELSE 0)
  BY HandsOnAnswer
<1>7. SentAdds'
  BY <1>1, <1>2, <1>3, <1>5, <1>6, <1>4, HandsAreNat, NumbersAreNat DEF SentAdds
<1>8. AckedAdds'
  BY <1>1, <1>2, <1>3, <1>5, <1>6, <1>4, HandsAreNat, NumbersAreNat DEF AckedAdds
<1>9. FillAdds'
  BY <1>1, <1>2, <1>3, <1>5, <1>6, <1>4, HandsAreNat, NumbersAreNat DEF FillAdds
<1> QED BY <1>7, <1>8, <1>9, Equations

LEMMA PublishAccounts ==
  ASSUME TypeOK, Conservation, NEW b \in Bot, Publish(b), UNCHANGED ingesterVars
  PROVE  Conservation'
<1>1. SentAdds /\ AckedAdds /\ FillAdds
  BY Equations
<1> DEFINE k == answer[b]
           Plus(f) == [f EXCEPT ![k] = @ + 1]
<1>2. UNCHANGED <<counters, window, stored, lost>> /\ bot[b] = "publish"
  BY DEF Publish, ingesterVars
<1>3. Kept("sent")' = Kept("sent") /\ Kept("acked")' = Kept("acked") /\ Kept("fill")' = Kept("fill")
  BY <1>2 DEF Kept
<1>4. k \in Kind /\ buffered \in [Kind -> Nat] /\ dropped \in [Kind -> Nat]
  BY DEF TypeOK, FleetTypeOK
<1>5. ASSUME NEW f \in [Kind -> Nat]
      PROVE  /\ Total(Plus(f)) = Total(f) + 1
             /\ TotalAcked(Plus(f)) = TotalAcked(f) + (IF k \in Acked THEN 1 ELSE 0)
             /\ Plus(f)["error"] = f["error"] + (IF k = "error" THEN 1 ELSE 0)
  BY <1>4, <1>5 DEF Kind, Acked, Total, TotalAcked
<1>6. CASE panicked' = TRUE /\ UNCHANGED <<bot, answer, buffered, dropped>>
  BY <1>2, <1>6, HandsUnmoved, UnmovedAccounts
<1> DEFINE Freed == BotGoto(b, "ready") /\ answer' = [answer EXCEPT ![b] = "error"]
<1>7. CASE Freed /\ buffered' = Plus(buffered) /\ dropped' = dropped
  <2>1. /\ Total(buffered') = Total(buffered) + 1
        /\ TotalAcked(buffered') = TotalAcked(buffered) + (IF k \in Acked THEN 1 ELSE 0)
        /\ buffered'["error"] = buffered["error"] + (IF k = "error" THEN 1 ELSE 0)
    BY <1>4, <1>5, <1>7
  <2>2. Total(dropped') = Total(dropped) /\ TotalAcked(dropped') = TotalAcked(dropped)
        /\ dropped'["error"] = dropped["error"]
    BY <1>7
  <2>3. /\ InFlight' = InFlight
        /\ Unsent' = Unsent - 1
        /\ UnsentAcks' = UnsentAcks - (IF k \in Acked THEN 1 ELSE 0)
        /\ UnsentErrors' = UnsentErrors - (IF k = "error" THEN 1 ELSE 0)
    BY <1>2, <1>7, HandsOnPublish
  <2> HIDE DEF k
  <2>4. SentAdds'
    BY <1>1, <1>2, <2>1, <2>2, <2>3, <1>3, HandsAreNat, NumbersAreNat DEF SentAdds
  <2>5. AckedAdds'
    BY <1>1, <1>2, <2>1, <2>2, <2>3, <1>3, HandsAreNat, NumbersAreNat DEF AckedAdds
  <2>6. FillAdds'
    BY <1>1, <1>2, <2>1, <2>2, <2>3, <1>3, HandsAreNat, NumbersAreNat DEF FillAdds
  <2> QED BY <2>4, <2>5, <2>6, Equations
<1>8. CASE Freed /\ dropped' = Plus(dropped) /\ buffered' = buffered
  <2>1. /\ Total(dropped') = Total(dropped) + 1
        /\ TotalAcked(dropped') = TotalAcked(dropped) + (IF k \in Acked THEN 1 ELSE 0)
        /\ dropped'["error"] = dropped["error"] + (IF k = "error" THEN 1 ELSE 0)
    BY <1>4, <1>5, <1>8
  <2>2. Total(buffered') = Total(buffered) /\ TotalAcked(buffered') = TotalAcked(buffered)
        /\ buffered'["error"] = buffered["error"]
    BY <1>8
  <2>3. /\ InFlight' = InFlight
        /\ Unsent' = Unsent - 1
        /\ UnsentAcks' = UnsentAcks - (IF k \in Acked THEN 1 ELSE 0)
        /\ UnsentErrors' = UnsentErrors - (IF k = "error" THEN 1 ELSE 0)
    BY <1>2, <1>8, HandsOnPublish
  <2> HIDE DEF k
  <2>4. SentAdds'
    BY <1>1, <1>2, <2>1, <2>2, <2>3, <1>3, HandsAreNat, NumbersAreNat DEF SentAdds
  <2>5. AckedAdds'
    BY <1>1, <1>2, <2>1, <2>2, <2>3, <1>3, HandsAreNat, NumbersAreNat DEF AckedAdds
  <2>6. FillAdds'
    BY <1>1, <1>2, <2>1, <2>2, <2>3, <1>3, HandsAreNat, NumbersAreNat DEF FillAdds
  <2> QED BY <2>4, <2>5, <2>6, Equations
<1> QED BY <1>6, <1>7, <1>8 DEF Publish

LEMMA IngestAccounts ==
  ASSUME TypeOK, Conservation, WindowAdds, NEW k \in Kind, Ingest(k),
         UNCHANGED <<bot, answer, counters, dropped>>
  PROVE  Conservation' /\ WindowAdds'
<1>1. SentAdds /\ AckedAdds /\ FillAdds
  BY Equations
<1>2. Hands' = Hands
  BY HandsUnmoved
<1>3. /\ Total(buffered') = Total(buffered) - 1
      /\ TotalAcked(buffered') = TotalAcked(buffered) - (IF k \in Acked THEN 1 ELSE 0)
      /\ buffered'["error"] = buffered["error"] - (IF k = "error" THEN 1 ELSE 0)
  BY DEF Ingest, TypeOK, FleetTypeOK, Kind, Acked, Total, TotalAcked
<1>4. /\ window'["sent"] = window["sent"] + 1
      /\ window'["acked"] = window["acked"] + (IF k \in Acked THEN 1 ELSE 0)
      /\ window'["fill"] = window["fill"] + (IF k = "error" THEN 1 ELSE 0)
  <2> DEFINE one == [j \in Kind |-> IF j = k THEN 1 ELSE 0]
  <2>1. Total(one) = 1 /\ TotalAcked(one) = (IF k \in Acked THEN 1 ELSE 0)
        /\ one["error"] = (IF k = "error" THEN 1 ELSE 0)
    BY DEF Kind, Acked, Total, TotalAcked
  <2>2. window' = Ingested(one)
    BY DEF Ingest
  <2> HIDE DEF one
  <2>3. /\ window'["sent"] = window["sent"] + Total(one)
        /\ window'["acked"] = window["acked"] + TotalAcked(one)
        /\ window'["fill"] = window["fill"] + one["error"]
    BY <2>2 DEF Ingested, TypeOK, IngesterTypeOK, Counter
  <2> QED BY <2>1, <2>3
<1>5. UNCHANGED <<stored, lost>>
  BY DEF Ingest
<1>6. k \in Acked <=> k # "error"
  BY DEF Kind, Acked
<1>7. WindowAdds'
  BY <1>4, <1>6, NumbersAreNat DEF WindowAdds
<1>8. InFlight' = InFlight /\ Unsent' = Unsent /\ UnsentAcks' = UnsentAcks /\ UnsentErrors' = UnsentErrors
  BY <1>2 DEF Hands
<1>9. Total(buffered) \in Nat /\ Total(dropped) \in Nat /\ TotalAcked(buffered) \in Nat
      /\ TotalAcked(dropped) \in Nat
  BY TotalsAreNat DEF TypeOK, FleetTypeOK
<1>10. /\ Kept("sent")' = Kept("sent") + 1
       /\ Kept("acked")' = Kept("acked") + (IF k \in Acked THEN 1 ELSE 0)
       /\ Kept("fill")' = Kept("fill") + (IF k = "error" THEN 1 ELSE 0)
  BY <1>4, <1>5, NumbersAreNat DEF Kept
<1>11. Conservation'
  <2>1. SentAdds'
    BY <1>1, <1>3, <1>10, <1>8, <1>9, HandsAreNat, NumbersAreNat DEF SentAdds
  <2>2. AckedAdds'
    BY <1>1, <1>3, <1>10, <1>8, <1>9, HandsAreNat, NumbersAreNat DEF AckedAdds
  <2>3. FillAdds'
    BY <1>1, <1>3, <1>10, <1>8, <1>9, HandsAreNat, NumbersAreNat DEF FillAdds
  <2> QED BY <2>1, <2>2, <2>3, Equations
<1> QED BY <1>7, <1>11

LEMMA FlushAccounts ==
  ASSUME TypeOK, Conservation, WindowAdds, Flushes(window),
         UNCHANGED <<bot, answer, counters, buffered, dropped>>
  PROVE  Conservation' /\ WindowAdds'
<1>1. SentAdds /\ AckedAdds /\ FillAdds
  BY Equations
<1>2. InFlight' = InFlight /\ Unsent' = Unsent /\ UnsentAcks' = UnsentAcks /\ UnsentErrors' = UnsentErrors
  BY HandsUnmoved DEF Hands
<1>3. /\ window'["sent"] = 0 /\ window'["acked"] = 0 /\ window'["fill"] = 0
      /\ stored'["sent"] + lost'["sent"] = window["sent"] + stored["sent"] + lost["sent"]
      /\ stored'["acked"] + lost'["acked"] = window["acked"] + stored["acked"] + lost["acked"]
      /\ stored'["fill"] + lost'["fill"] = window["fill"] + stored["fill"] + lost["fill"]
  BY DEF Flushes, WindowAdds, Moved, Zero, Counter
<1>4. /\ stored'["sent"] \in Nat /\ stored'["acked"] \in Nat /\ stored'["fill"] \in Nat
      /\ lost'["sent"] \in Nat /\ lost'["acked"] \in Nat /\ lost'["fill"] \in Nat
  BY DEF Flushes, Counter
<1>5. WindowAdds'
  BY <1>3 DEF WindowAdds
<1>6. Total(buffered') = Total(buffered) /\ Total(dropped') = Total(dropped)
      /\ TotalAcked(buffered') = TotalAcked(buffered) /\ TotalAcked(dropped') = TotalAcked(dropped)
  BY DEF Total, TotalAcked
<1>7. Kept("sent")' = Kept("sent") /\ Kept("acked")' = Kept("acked") /\ Kept("fill")' = Kept("fill")
  BY <1>3, <1>4, NumbersAreNat DEF Kept
<1>8. Conservation'
  <2>1. SentAdds'
    BY <1>1, <1>2, <1>6, <1>7, HandsAreNat, NumbersAreNat DEF SentAdds
  <2>2. AckedAdds'
    BY <1>1, <1>2, <1>6, <1>7, HandsAreNat, NumbersAreNat DEF AckedAdds
  <2>3. FillAdds'
    BY <1>1, <1>2, <1>6, <1>7, HandsAreNat, NumbersAreNat DEF FillAdds
  <2> QED BY <2>1, <2>2, <2>3, Equations
<1> QED BY <1>5, <1>8

LEMMA DrainAccounts ==
  ASSUME TypeOK, Conservation, WindowAdds, SeesStop, UNCHANGED <<bot, answer, counters, dropped>>
  PROVE  Conservation' /\ WindowAdds'
<1>1. SentAdds /\ AckedAdds /\ FillAdds
  BY Equations
<1> DEFINE w == Ingested(buffered)
<1>2. InFlight' = InFlight /\ Unsent' = Unsent /\ UnsentAcks' = UnsentAcks /\ UnsentErrors' = UnsentErrors
  BY HandsUnmoved DEF Hands
<1>3. /\ w["sent"] = window["sent"] + Total(buffered)
      /\ w["acked"] = window["acked"] + TotalAcked(buffered)
      /\ w["fill"] = window["fill"] + buffered["error"]
  BY DEF Ingested, TypeOK, IngesterTypeOK, Counter
<1>4. Total(buffered) = TotalAcked(buffered) + buffered["error"]
  BY DEF Total, TotalAcked
<1>5. Flushes(w)
  BY IngestedTypes, FlushesChannel DEF SeesStop, TypeOK, FleetTypeOK, IngesterTypeOK
<1> HIDE DEF w
<1>6. w["sent"] = w["acked"] + w["fill"]
  BY <1>3, <1>4, NumbersAreNat DEF WindowAdds, Kind
<1>7. /\ window'["sent"] = 0 /\ window'["acked"] = 0 /\ window'["fill"] = 0
      /\ stored'["sent"] + lost'["sent"] = w["sent"] + stored["sent"] + lost["sent"]
      /\ stored'["acked"] + lost'["acked"] = w["acked"] + stored["acked"] + lost["acked"]
      /\ stored'["fill"] + lost'["fill"] = w["fill"] + stored["fill"] + lost["fill"]
  BY <1>5, <1>6 DEF Flushes, Moved, Zero, Counter
<1>8. /\ stored'["sent"] \in Nat /\ stored'["acked"] \in Nat /\ stored'["fill"] \in Nat
      /\ lost'["sent"] \in Nat /\ lost'["acked"] \in Nat /\ lost'["fill"] \in Nat
  BY <1>5 DEF Flushes, Counter
<1>9. WindowAdds'
  BY <1>7 DEF WindowAdds
<1>10. Total(buffered') = 0 /\ TotalAcked(buffered') = 0 /\ buffered'["error"] = 0
  BY DEF SeesStop, Total, TotalAcked, Kind
<1>11. /\ Kept("sent")' = Kept("sent") + Total(buffered)
       /\ Kept("acked")' = Kept("acked") + TotalAcked(buffered)
       /\ Kept("fill")' = Kept("fill") + buffered["error"]
  BY <1>3, <1>7, <1>8, NumbersAreNat DEF Kept
<1>12. Conservation'
  <2>1. SentAdds'
    BY <1>1, <1>2, <1>10, <1>11, HandsAreNat, NumbersAreNat DEF SentAdds
  <2>2. AckedAdds'
    BY <1>1, <1>2, <1>10, <1>11, HandsAreNat, NumbersAreNat DEF AckedAdds
  <2>3. FillAdds'
    BY <1>1, <1>2, <1>10, <1>11, HandsAreNat, NumbersAreNat DEF FillAdds
  <2> QED BY <2>1, <2>2, <2>3, Equations
<1> QED BY <1>9, <1>12

LEMMA NextKeepsAccounts == AccountInv /\ [Next]_vars => AccountInv'
<1> SUFFICES ASSUME TypeOK, Quiet, WindowAdds, Conservation, [Next]_vars
             PROVE  Quiet' /\ WindowAdds' /\ Conservation'
  BY NextKeepsTypes DEF AccountInv
<1>1. CASE Measure
  <2>1. UNCHANGED <<answer, counters, buffered, dropped, window, stored, lost>>
    BY <1>1 DEF Measure, StartIngester, StartFleet, Start, StopFleet, Cancel, CloseChannel, Close,
                StopIngester, AwaitIngester, fleetVars, ingesterVars
  <2>2. WindowAdds'
    BY <2>1 DEF WindowAdds
  <2>3. Hands' = Hands /\ Quiet'
    <3>1. CASE StartFleet
      <4>1. \A b \in Bot : {bot[b], bot'[b]} \cap {"waiting", "publish"} = {}
        BY <3>1 DEF StartFleet, At, Start, Quiet
      <4>2. Quiet'
        BY <3>1 DEF StartFleet, Quiet
      <4> QED BY <4>1, <4>2, HandsUnmoved
    <3>2. CASE ~StartFleet
      <4>1. UNCHANGED <<bot, answer, ramp>>
        BY <1>1, <3>2 DEF Measure, StartIngester, StopFleet, Cancel, CloseChannel, Close,
                          StopIngester, AwaitIngester, fleetVars, ingesterVars
      <4>2. Quiet'
        BY <1>1, <3>2, <4>1 DEF Measure, StartIngester, StopFleet, CloseChannel, StopIngester,
                                AwaitIngester, At, Quiet
      <4> QED BY <4>1, <4>2, HandsUnmoved
    <3> QED BY <3>1, <3>2
  <2> QED BY <2>1, <2>2, <2>3, UnmovedAccounts
<1>2. CASE FleetRuns
  <2>1. UNCHANGED ingesterVars /\ UNCHANGED measureVars /\ UNCHANGED window
    BY <1>2 DEF FleetRuns, ingesterVars
  <2>2. WindowAdds'
    BY <2>1 DEF WindowAdds
  <2>3. Quiet'
    <3>1. mpc \in {"ingester", "fleet"} => FALSE
      BY <1>2 DEF FleetRuns, BotRuns, Connect, Leave, SendOrder, Answered, ReadFails, Publish, RampUp, RampStops, Quiet
    <3> QED BY <2>1, <3>1 DEF measureVars, Quiet
  <2>4. ASSUME NEW b \in Bot, SendOrder(b) PROVE Conservation'
    BY <2>1, <2>4, SendOrderAccounts
  <2>5. ASSUME NEW b \in Bot, NEW k \in Kind, Answered(b, k) PROVE Conservation'
    BY <2>1, <2>5, NoteAccounts DEF Answered
  <2>9. ASSUME NEW b \in Bot, ReadFails(b) PROVE Conservation'
    <3>1. CASE bot[b] = "waiting" /\ Note(b, "error")
      <4>1. "error" \in Kind /\ UNCHANGED <<buffered, dropped>>
        BY <2>9 DEF Kind, ReadFails
      <4> QED BY <2>1, <3>1, <4>1, NoteAccounts
    <3>2. CASE UNCHANGED <<counters, answer, bot>>
      <4>1. UNCHANGED <<buffered, dropped, window, stored, lost>>
        BY <2>1, <2>9 DEF ReadFails, ingesterVars
      <4> QED BY <3>2, <4>1, HandsUnmoved, UnmovedAccounts
    <3> QED BY <2>9, <3>1, <3>2 DEF ReadFails
  <2>6. ASSUME NEW b \in Bot, Publish(b) PROVE Conservation'
    BY <2>1, <2>6, PublishAccounts
  <2>7. ASSUME NEW b \in Bot, Connect(b) \/ Leave(b) \/ RampUp(b) PROVE Conservation'
    <3>1. UNCHANGED <<answer, counters, buffered, dropped, window, stored, lost>>
      BY <2>1, <2>7 DEF Connect, Leave, RampUp, ingesterVars
    <3>2. \A a \in Bot : \/ bot'[a] = bot[a]
                         \/ {bot[a], bot'[a]} \cap {"waiting", "publish"} = {}
      BY <2>7 DEF Connect, Leave, RampUp, BotGoto, TypeOK, FleetTypeOK
    <3> QED BY <3>1, <3>2, HandsUnmoved, UnmovedAccounts
  <2>8. CASE RampStops
    BY <2>1, <2>2, <2>3, <2>8, HandsUnmoved, UnmovedAccounts DEF RampStops, ingesterVars
  <2> QED BY <1>2, <2>2, <2>3, <2>4, <2>5, <2>6, <2>7, <2>8, <2>9 DEF FleetRuns, BotRuns
<1>3. CASE IngesterStep
  <2>1. UNCHANGED <<bot, answer, ramp, counters, dropped, mpc>>
    BY <1>3 DEF IngesterStep, IngesterRuns, measureVars
  <2>2. Quiet'
    BY <2>1 DEF Quiet
  <2>3. IngesterTypeOK
    BY DEF TypeOK
  <2>4. ASSUME NEW k \in Kind, Ingest(k) PROVE Conservation' /\ WindowAdds'
    BY <2>1, <2>4, IngestAccounts
  <2>5. CASE SeesStop
    BY <2>1, <2>2, <2>5, DrainAccounts
  <2>6. ASSUME Tick \/ SeesClosed \/ SeesCancel PROVE Conservation' /\ WindowAdds'
    <3>1. Flushes(window)
      BY <2>3, <2>6, FlushesWindow DEF Tick, SeesClosed, SeesCancel
    <3>2. UNCHANGED buffered
      BY <2>6 DEF Tick, SeesClosed, SeesCancel
    <3> QED BY <2>1, <3>1, <3>2, FlushAccounts
  <2> QED BY <1>3, <2>2, <2>4, <2>5, <2>6 DEF IngesterStep, IngesterRuns
<1>4. CASE ShutDown
  <2>1. UNCHANGED <<bot, answer, ramp, counters, buffered, dropped, window, stored, lost, mpc>>
    BY <1>4 DEF ShutDown
  <2> QED BY <2>1, HandsUnmoved, UnmovedAccounts DEF Quiet, WindowAdds
<1>5. CASE UNCHANGED vars
  <2>1. UNCHANGED <<bot, answer, ramp, counters, buffered, dropped, window, stored, lost, mpc>>
    BY <1>5 DEF vars, fleetVars, ingesterVars, measureVars
  <2> QED BY <2>1, HandsUnmoved, UnmovedAccounts DEF Quiet, WindowAdds
<1> QED BY <1>1, <1>2, <1>3, <1>4, <1>5 DEF Next

\* Every order the fleet counts is in exactly one place, whatever the protocol,
\* however full the channel, with INSERTs failing and the process stopping.
THEOREM NothingMislaid == Spec => []Conservation
<1>1. Init => AccountInv
  BY InitTypes, InitAccounts DEF AccountInv
<1>2. AccountInv => Conservation
  BY DEF AccountInv
<1> QED BY <1>1, <1>2, NextKeepsAccounts, PTL DEF Spec

-----------------------------------------------------------------------------
(* Who outlives the window, and rows that add up                              *)

\* Once the channel is closed nobody is left who could send to it but WebSocket
\* bots with an order in hand; a panic has one of two causes, both WebSocket's.
NobodyLeft ==
  /\ closed => ramp = "off"
  /\ closed => \A b \in Bot :
       bot[b] \in {"off", "exited"} \/ (webSocket /\ bot[b] \in {"waiting", "publish"})
  /\ PanicNeedsWebSocket

\* The channel is closed before stopCh, and both before the rows are scored.
InOrder ==
  /\ closed <=> mpc \in {"stop", "await", "score", "aborted"}
  /\ stopCh => closed
  /\ mpc = "score" => ingester = "done"

\* An ingester that was not cancelled leaves nothing behind.
Settled ==
  /\ ctx => ingestCtx
  /\ ctx /\ ingester = "done" => closed /\ window = Zero /\ \A k \in Kind : buffered[k] = 0

OutlastInv == TypeOK /\ NobodyLeft /\ InOrder /\ Settled

LEMMA InitOutlast == Init => NobodyLeft /\ InOrder /\ Settled
BY DEF Init, FleetInit, IngesterInit, MeasureInit, NobodyLeft, PanicNeedsWebSocket, InOrder, Settled

LEMMA FleetKeepsNobodyLeft ==
  ASSUME TypeOK, NobodyLeft, FleetRuns
  PROVE  /\ NobodyLeft'
         /\ closed' = closed
         /\ closed => buffered' = buffered
<1> USE DEF NobodyLeft, PanicNeedsWebSocket, BotGoto, TypeOK, FleetTypeOK
<1>1. webSocket' = webSocket /\ ~panicked
  BY DEF FleetRuns, measureVars, BotRuns, Connect, Leave, SendOrder, Answered, ReadFails, Publish,
         RampUp, RampStops
<1>2. ASSUME NEW b \in Bot, Connect(b) \/ Leave(b) \/ SendOrder(b) \/ RampUp(b)
      PROVE  NobodyLeft' /\ ~closed /\ closed' = closed
  BY <1>1, <1>2 DEF Connect, Leave, SendOrder, RampUp
<1>3. ASSUME RampStops
      PROVE  NobodyLeft' /\ UNCHANGED <<closed, buffered>>
  BY <1>1, <1>3 DEF RampStops
<1>4. ASSUME NEW b \in Bot, NEW k \in Kind, Answered(b, k)
      PROVE  NobodyLeft' /\ UNCHANGED <<closed, buffered>>
  BY <1>1, <1>4 DEF Answered, Note
<1>5. ASSUME NEW b \in Bot, ReadFails(b)
      PROVE  NobodyLeft' /\ UNCHANGED <<closed, buffered>>
  <2>1. failedReads' \in [Bot -> Nat] /\ failedReads'[b] = failedReads[b] + 1 /\ webSocket
    BY <1>5 DEF ReadFails
  <2>2. \A a \in Bot : bot'[a] = bot[a] \/ (a = b /\ bot'[a] \in {"waiting", "publish"})
    BY <1>5 DEF ReadFails, Note
  <2>3. UNCHANGED <<closed, buffered, ramp>>
    BY <1>5 DEF ReadFails
  <2>4. panicked' => failedReads'[b] >= ReadLimit
    BY <1>1, <1>5, <2>1 DEF ReadFails
  <2> QED BY <1>1, <2>1, <2>2, <2>3, <2>4
<1>6. ASSUME NEW b \in Bot, Publish(b)
      PROVE  NobodyLeft' /\ closed' = closed /\ (closed => buffered' = buffered)
  BY <1>1, <1>6 DEF Publish
<1> HIDE DEF NobodyLeft, PanicNeedsWebSocket, TypeOK, FleetTypeOK
<1> QED BY <1>2, <1>3, <1>4, <1>5, <1>6 DEF FleetRuns, BotRuns

LEMMA NextKeepsOutlast == OutlastInv /\ [Next]_vars => OutlastInv'
<1> SUFFICES ASSUME TypeOK, NobodyLeft, InOrder, Settled, [Next]_vars
             PROVE  NobodyLeft' /\ InOrder' /\ Settled'
  BY NextKeepsTypes DEF OutlastInv
<1>1. CASE Measure
  <2> USE DEF NobodyLeft, PanicNeedsWebSocket, InOrder, Settled, At, fleetVars, ingesterVars
  <2>1. CASE StartIngester
    BY <2>1 DEF StartIngester
  <2>2. CASE StartFleet
    BY <2>2 DEF StartFleet, Start
  <2>3. CASE StopFleet
    BY <2>3 DEF StopFleet, Cancel
  <2>4. CASE CloseChannel
    <3>1. ramp = "off"
          /\ \A b \in Bot : bot[b] \in {"off", "exited"} \/ (webSocket /\ bot[b] = "waiting")
      BY <2>4 DEF CloseChannel, Close, Drained
    <3> QED BY <2>4, <3>1 DEF CloseChannel, Close
  <2>5. CASE StopIngester
    BY <2>5 DEF StopIngester
  <2>6. CASE AwaitIngester
    BY <2>6 DEF AwaitIngester
  <2> QED BY <1>1, <2>1, <2>2, <2>3, <2>4, <2>5, <2>6 DEF Measure
<1>2. CASE FleetRuns
  <2>1. UNCHANGED <<mpc, ctx, stopCh, ingester, ingestCtx, window, lost>>
    BY <1>2 DEF FleetRuns, ingesterVars, measureVars
  <2>2. NobodyLeft' /\ closed' = closed /\ (closed => buffered' = buffered)
    BY <1>2, FleetKeepsNobodyLeft
  <2> QED BY <2>1, <2>2 DEF InOrder, Settled
<1>3. CASE IngesterStep
  <2>1. UNCHANGED <<bot, failedReads, ramp, closed, panicked, mpc, ctx, webSocket, ingestCtx, stopCh>>
    BY <1>3 DEF IngesterStep, IngesterRuns, measureVars, Ingest, Tick, SeesStop, SeesClosed, SeesCancel
  <2>2. NobodyLeft'
    BY <2>1 DEF NobodyLeft, PanicNeedsWebSocket
  <2>3. ingester = "running" /\ IngesterTypeOK
    BY <1>3 DEF IngesterStep, IngesterRuns, Running, Ingest, Tick, SeesStop, SeesClosed, SeesCancel, TypeOK
  <2>4. InOrder'
    BY <2>1, <2>3 DEF InOrder
  <2>5. CASE (\E k \in Kind : Ingest(k))
    BY <2>1, <2>2, <2>3, <2>4, <2>5 DEF Ingest, Settled
  <2>6. CASE Tick
    <3>1. Flushes(window)
      BY <2>3, <2>6, FlushesWindow DEF Tick
    <3> QED BY <2>1, <2>2, <2>3, <2>4, <2>6, <3>1 DEF Tick, Flushes, Settled
  <2>7. CASE SeesStop
    <3>1. Flushes(Ingested(buffered))
      BY <2>3, <2>7, IngestedTypes, FlushesChannel DEF SeesStop, TypeOK, FleetTypeOK, IngesterTypeOK
    <3>2. closed /\ \A k \in Kind : buffered'[k] = 0
      BY <2>7 DEF SeesStop, InOrder
    <3> QED BY <2>1, <2>2, <2>4, <3>1, <3>2 DEF Flushes, Settled
  <2>8. CASE SeesClosed
    <3>1. Flushes(window)
      BY <2>3, <2>8, FlushesWindow DEF SeesClosed
    <3>2. closed' /\ \A k \in Kind : buffered'[k] = 0
      <4>1. buffered["ack"] \in Nat /\ buffered["misfill"] \in Nat /\ buffered["slow"] \in Nat
            /\ buffered["error"] \in Nat
        BY DEF TypeOK, FleetTypeOK, Kind
      <4>2. buffered["ack"] + buffered["misfill"] + buffered["slow"] + buffered["error"] = 0
        BY <2>8 DEF SeesClosed, Total
      <4>3. \A k \in Kind : buffered[k] = 0
        <5>1. \A m, n, p, q \in Nat : m + n + p + q = 0 => m = 0 /\ n = 0 /\ p = 0 /\ q = 0
          OBVIOUS
        <5>2. buffered["ack"] = 0 /\ buffered["misfill"] = 0 /\ buffered["slow"] = 0 /\ buffered["error"] = 0
          BY <4>1, <4>2, <5>1
        <5> QED BY <5>2 DEF Kind
      <4>4. buffered' = buffered
        BY <2>8 DEF SeesClosed
      <4>5. closed'
        BY <2>1, <2>8 DEF SeesClosed
      <4> QED BY <4>3, <4>4, <4>5
    <3> QED BY <2>1, <2>2, <2>4, <3>1, <3>2 DEF Flushes, Settled
  <2>9. CASE SeesCancel
    <3>1. ~ctx'
      BY <2>1, <2>9 DEF SeesCancel, Settled
    <3> QED BY <2>1, <2>2, <2>4, <3>1 DEF Settled
  <2> QED BY <1>3, <2>5, <2>6, <2>7, <2>8, <2>9 DEF IngesterStep, IngesterRuns
<1>4. CASE ShutDown
  BY <1>4 DEF ShutDown, NobodyLeft, PanicNeedsWebSocket, InOrder, Settled
<1>5. CASE UNCHANGED vars
  BY <1>5 DEF vars, fleetVars, ingesterVars, measureVars, NobodyLeft, PanicNeedsWebSocket, InOrder, Settled
<1> QED BY <1>1, <1>2, <1>3, <1>4, <1>5 DEF Next

\* Only WebSocket bots can bring the process down, and only in the two ways the
\* property names: with REST, whose calls end when their context is cancelled,
\* no bot sends on the channel that Stop has closed.
THEOREM OnlyWebSocketPanics == Spec => []PanicNeedsWebSocket
<1>1. Init => OutlastInv
  BY InitTypes, InitOutlast DEF OutlastInv
<1>2. OutlastInv => PanicNeedsWebSocket
  BY DEF OutlastInv, NobodyLeft
<1> QED BY <1>1, <1>2, NextKeepsOutlast, PTL DEF Spec

\* The rows that are scored on a live context, with those that could not be
\* inserted, are all the fleet did but for the samples it dropped and the orders
\* that bots outliving the window have in hand.
THEOREM ScoredRowsAddUp == Spec => []RowsAddUp
<1>1. Init => OutlastInv /\ AccountInv
  BY InitTypes, InitOutlast, InitAccounts DEF OutlastInv, AccountInv
<1>2. OutlastInv /\ AccountInv => RowsAddUp
  <2> SUFFICES ASSUME TypeOK, InOrder, Settled, Conservation, mpc = "score", ctx
               PROVE  /\ stored["sent"] + lost["sent"] =
                           counters["sent"] - Total(dropped) - InFlight - Unsent
                      /\ stored["acked"] + lost["acked"] =
                           counters["acked"] - TotalAcked(dropped) - UnsentAcks
                      /\ stored["fill"] + lost["fill"] =
                           counters["fill"] - dropped["error"] - UnsentErrors
    BY DEF OutlastInv, AccountInv, RowsAddUp, InFlight, Unsent, UnsentAcks, UnsentErrors
  <2>1. window = Zero /\ \A k \in Kind : buffered[k] = 0
    BY DEF InOrder, Settled
  <2>2. Total(buffered) = 0 /\ TotalAcked(buffered) = 0 /\ buffered["error"] = 0
    BY <2>1 DEF Total, TotalAcked, Kind
  <2>3. /\ Kept("sent") = stored["sent"] + lost["sent"]
        /\ Kept("acked") = stored["acked"] + lost["acked"]
        /\ Kept("fill") = stored["fill"] + lost["fill"]
    BY <2>1, NumbersAreNat DEF Kept, Zero, Counter
  <2>4. SentAdds /\ AckedAdds /\ FillAdds
    BY Equations
  <2>5. stored["sent"] + lost["sent"] = counters["sent"] - Total(dropped) - InFlight - Unsent
    BY <2>2, <2>3, <2>4, HandsAreNat, NumbersAreNat DEF SentAdds
  <2>6. stored["acked"] + lost["acked"] = counters["acked"] - TotalAcked(dropped) - UnsentAcks
    BY <2>2, <2>3, <2>4, HandsAreNat, NumbersAreNat DEF AckedAdds
  <2>7. stored["fill"] + lost["fill"] = counters["fill"] - dropped["error"] - UnsentErrors
    BY <2>2, <2>3, <2>4, HandsAreNat, NumbersAreNat DEF FillAdds
  <2> QED BY <2>5, <2>6, <2>7
<1> QED BY <1>1, <1>2, NextKeepsOutlast, NextKeepsAccounts, PTL DEF Spec

=============================================================================

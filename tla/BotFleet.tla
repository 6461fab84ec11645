------------------------------- MODULE BotFleet -------------------------------
(* backend/services/botfleet: the goroutines that send orders to the engine   *)
(* under test, the counters they share and the channel of samples they feed.  *)
(* A sample is its kind; the channel is the number of samples of each kind in *)
(* its buffer, for what reads it only counts.                                 *)
EXTENDS Naturals, FiniteSets

CONSTANTS
  Bot,         \* the bot workers of a fleet, MaxWorkers of them
  FirstBots,   \* those Start spawns at once, MinWorkers of them
  ChannelCap,  \* capacity of the channel of samples
  ReadLimit,   \* reads of a failed WebSocket until gorilla panics, 1000
  MaxOrders    \* bound of the model: orders sent by the whole fleet

ASSUME FleetAssumption ==
  /\ IsFiniteSet(Bot)
  /\ FirstBots \subseteq Bot
  /\ ChannelCap \in Nat
  /\ ReadLimit \in Nat \ {0}
  /\ MaxOrders \in Nat

VARIABLES
  webSocket,    \* the protocol of the run: WebSocket, or else REST
  bot,          \* where each bot's goroutine is
  answer,       \* the sample it has made of the answer it got
  failedReads,  \* reads of each bot's WebSocket that have failed
  ramp,         \* the goroutine that ramps the fleet up
  fleetCtx,     \* the context Start derived
  buffered,     \* samples in the channel, by kind
  closed,       \* the channel has been closed
  counters,     \* ordersSent, ordersAcked, fillErrors, priorityErr
  dropped,      \* samples dropped because the buffer was full, by kind (history)
  panicked      \* a goroutine has panicked: the process is gone

fleetVars == <<bot, answer, failedReads, ramp, fleetCtx, buffered, closed, counters, dropped, panicked>>

\* How an order can end: acknowledged, acknowledged with a fill at a worse
\* price than its limit, acknowledged later than the histogram can record
\* (500 ms and the rest of its last bucket), or not acknowledged.
Kind == {"ack", "misfill", "slow", "error"}
Acked == {"ack", "misfill", "slow"}
Timed == {"ack", "misfill"}
Counter == {"sent", "acked", "fill", "priority"}

BotStep == {"off", "connect", "ready", "waiting", "publish", "exited"}

FleetTypeOK ==
  /\ webSocket \in BOOLEAN
  /\ bot \in [Bot -> BotStep]
  /\ answer \in [Bot -> Kind]
  /\ failedReads \in [Bot -> Nat]
  /\ ramp \in {"off", "on"}
  /\ fleetCtx \in {"none", "live", "cancelled"}
  /\ buffered \in [Kind -> Nat]
  /\ closed \in BOOLEAN
  /\ counters \in [Counter -> Nat]
  /\ dropped \in [Kind -> Nat]
  /\ panicked \in BOOLEAN

FleetInit ==
  /\ webSocket \in BOOLEAN
  /\ bot = [b \in Bot |-> "off"]
  /\ answer = [b \in Bot |-> "error"]
  /\ failedReads = [b \in Bot |-> 0]
  /\ ramp = "off"
  /\ fleetCtx = "none"
  /\ buffered = [k \in Kind |-> 0]
  /\ closed = FALSE
  /\ counters = [n \in Counter |-> 0]
  /\ dropped = [k \in Kind |-> 0]
  /\ panicked = FALSE

Total(f) == f["ack"] + f["misfill"] + f["slow"] + f["error"]
TotalAcked(f) == f["ack"] + f["misfill"] + f["slow"]
TotalTimed(f) == f["ack"] + f["misfill"]

-----------------------------------------------------------------------------
(* Fleet                                                                      *)

\* Start, the protocol being known: the first bots, and the ramp for the rest.
Start(parentAlive) ==
  /\ fleetCtx' = IF parentAlive THEN "live" ELSE "cancelled"
  /\ bot' = [b \in Bot |-> IF b \in FirstBots THEN "connect" ELSE "off"]
  /\ ramp' = IF FirstBots = Bot THEN "off" ELSE "on"
  /\ UNCHANGED <<answer, failedReads, buffered, closed, counters, dropped, panicked>>

\* Mutant of RampUp: "spawned <= count", one bot more than MaxWorkers.
RampUpOneMore(b) ==
  /\ ~panicked
  /\ ramp = "on"
  /\ \/ /\ bot[b] = "off"
        /\ bot' = [bot EXCEPT ![b] = "connect"]
        /\ UNCHANGED ramp
     \/ /\ \A a \in Bot : bot[a] # "off"
        /\ bot' = [a \in Bot \cup {"oneMore"} |-> IF a \in Bot THEN bot[a] ELSE "connect"]
        /\ ramp' = "off"
  /\ UNCHANGED <<answer, failedReads, fleetCtx, buffered, closed, counters, dropped, panicked>>

\* rampUp spawns one more bot.  A tick and the cancellation can be ready
\* together, and either is taken.
RampUp(b) ==
  /\ ~panicked
  /\ ramp = "on"
  /\ bot[b] = "off"
  /\ bot' = [bot EXCEPT ![b] = "connect"]
  /\ ramp' = IF \E a \in Bot \ {b} : bot[a] = "off" THEN "on" ELSE "off"
  /\ UNCHANGED <<answer, failedReads, fleetCtx, buffered, closed, counters, dropped, panicked>>

RampStops ==
  /\ ~panicked
  /\ ramp = "on"
  /\ fleetCtx = "cancelled"
  /\ ramp' = "off"
  /\ UNCHANGED <<bot, answer, failedReads, fleetCtx, buffered, closed, counters, dropped, panicked>>

\* Stop, first half: cancel.
Cancel ==
  /\ fleetCtx' = "cancelled"
  /\ UNCHANGED <<bot, answer, failedReads, ramp, buffered, closed, counters, dropped, panicked>>

\* What the 500 ms Stop sleeps are enough for: every goroutine that can run
\* has run.  A REST call returns when its context is cancelled; a WebSocket
\* read does not look at the context and can last five seconds.
Drained ==
  /\ ramp = "off"
  /\ \A b \in Bot : bot[b] \in {"off", "exited"} \/ (webSocket /\ bot[b] = "waiting")

\* Mutant of Close: without the sleep.
CloseUndrained ==
  /\ closed' = TRUE
  /\ UNCHANGED <<bot, answer, failedReads, ramp, fleetCtx, buffered, counters, dropped, panicked>>

\* Stop, second half: close(f.samples), whoever may still send.
Close ==
  /\ Drained
  /\ closed' = TRUE
  /\ UNCHANGED <<bot, answer, failedReads, ramp, fleetCtx, buffered, counters, dropped, panicked>>

-----------------------------------------------------------------------------
(* Worker                                                                     *)

BotGoto(b, step) == bot' = [bot EXCEPT ![b] = step]

\* A WebSocket is dialled on the context and may be refused; REST only notes
\* the address.
Connect(b) ==
  /\ ~panicked
  /\ bot[b] = "connect"
  /\ \/ BotGoto(b, "ready")
     \/ webSocket /\ BotGoto(b, "exited")
  /\ UNCHANGED <<answer, failedReads, ramp, fleetCtx, buffered, closed, counters, dropped, panicked>>

\* The loop sees the cancellation.
Leave(b) ==
  /\ ~panicked
  /\ bot[b] = "ready"
  /\ fleetCtx = "cancelled"
  /\ BotGoto(b, "exited")
  /\ UNCHANGED <<answer, failedReads, ramp, fleetCtx, buffered, closed, counters, dropped, panicked>>

\* The loop takes a tick, even one that is ready together with the
\* cancellation: sendOrder counts the order and sends it.
SendOrder(b) ==
  /\ ~panicked
  /\ bot[b] = "ready"
  /\ counters["sent"] < MaxOrders
  /\ counters' = [counters EXCEPT !["sent"] = @ + 1]
  /\ BotGoto(b, "waiting")
  /\ UNCHANGED <<answer, failedReads, ramp, fleetCtx, buffered, closed, dropped, panicked>>

\* What sendOrder does with the answer it got.
Note(b, k) ==
  /\ counters' = [counters EXCEPT
       !["acked"] = IF k \in Acked THEN @ + 1 ELSE @,
       !["fill"] = IF k \notin Acked THEN @ + 1 ELSE @,
       !["priority"] = IF k = "misfill" THEN @ + 1 ELSE @]
  /\ answer' = [answer EXCEPT ![b] = k]
  /\ BotGoto(b, "publish")

\* The adapter returns.  A WebSocket with a failed read never answers again,
\* but writing to it, or decoding what it sent, may fail before that.
Answered(b, k) ==
  /\ ~panicked
  /\ bot[b] = "waiting"
  /\ k \in Acked => failedReads[b] = 0
  /\ Note(b, k)
  /\ UNCHANGED <<failedReads, ramp, fleetCtx, buffered, closed, dropped, panicked>>

\* A WebSocket read fails, its deadline of five seconds being over or the
\* connection gone: the bot goes on with the connection, whose reads all fail
\* from now on, and the library panics at the limit.
ReadFails(b) ==
  /\ ~panicked
  /\ webSocket
  /\ bot[b] = "waiting"
  /\ failedReads' = [failedReads EXCEPT ![b] = @ + 1]
  /\ IF failedReads[b] + 1 >= ReadLimit
     THEN panicked' = TRUE /\ UNCHANGED <<counters, answer, bot>>
     ELSE Note(b, "error") /\ UNCHANGED panicked
  /\ UNCHANGED <<ramp, fleetCtx, buffered, closed, dropped>>

\* The send to the channel never blocks: a full buffer drops the sample, and a
\* closed channel panics, in a select as anywhere else.  The sample is a local
\* variable of sendOrder.
Publish(b) ==
  /\ ~panicked
  /\ bot[b] = "publish"
  /\ \/ /\ ~closed /\ Total(buffered) < ChannelCap
        /\ buffered' = [buffered EXCEPT ![answer[b]] = @ + 1]
        /\ UNCHANGED <<dropped, panicked>>
     \/ /\ ~closed /\ Total(buffered) >= ChannelCap
        /\ dropped' = [dropped EXCEPT ![answer[b]] = @ + 1]
        /\ UNCHANGED <<buffered, panicked>>
     \/ /\ closed
        /\ panicked' = TRUE
        /\ UNCHANGED <<buffered, dropped>>
  /\ IF closed THEN UNCHANGED <<bot, answer>>
     ELSE BotGoto(b, "ready") /\ answer' = [answer EXCEPT ![b] = "error"]
  /\ UNCHANGED <<failedReads, ramp, fleetCtx, closed, counters>>

BotRuns(b) ==
  \/ Connect(b)
  \/ Leave(b)
  \/ SendOrder(b)
  \/ \E k \in Kind : Answered(b, k)
  \/ ReadFails(b)
  \/ Publish(b)

=============================================================================

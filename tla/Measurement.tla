----------------------------- MODULE Measurement -----------------------------
(* One benchmark window: the worker starts the ingester and the fleet, waits, *)
(* stops the one and the other, and scores what the ingester stored           *)
(* (processRun, backend/workers/benchmark_worker.go, from line 128).  Platform *)
(* has this as the steps "startFleet", "bench" and "aggregate".               *)
EXTENDS TelemetryIngester

CONSTANT MayShutDown   \* SIGTERM may arrive during the window

ASSUME MeasurementAssumption == MayShutDown \in BOOLEAN

VARIABLES
  mpc,      \* where processRun is
  ctx,      \* the worker's context is alive
  aborts    \* the wait ended because the context was cancelled

measureVars == <<mpc, ctx, aborts, webSocket>>
vars == <<fleetVars, ingesterVars, measureVars>>

MeasureStep == {"ingester", "fleet", "window", "close", "stop", "await", "score", "aborted"}

MeasureInit ==
  /\ mpc = "ingester"
  /\ ctx = TRUE
  /\ aborts = FALSE

Init ==
  /\ FleetInit
  /\ IngesterInit
  /\ MeasureInit

At(step) == ~panicked /\ mpc = step

\* go ingester.Run(ingesterCtx)
StartIngester ==
  /\ At("ingester")
  /\ mpc' = "fleet"
  /\ ingester' = "running"
  /\ UNCHANGED <<fleetVars, ingestCtx, stopCh, window, timed, ticks, stored, shapes, lost, ctx, aborts, webSocket>>

\* fleet.Start(ctx); the context derived from a cancelled one is cancelled.
StartFleet ==
  /\ At("fleet")
  /\ mpc' = "window"
  /\ Start(ctx)
  /\ UNCHANGED <<ingesterVars, ctx, aborts, webSocket>>

\* The window elapses, or the context is cancelled: fleet.Stop cancels...
StopFleet ==
  /\ At("window")
  /\ mpc' = "close"
  /\ aborts' \in {FALSE, ~ctx}
  /\ Cancel
  /\ UNCHANGED <<ingesterVars, ctx, webSocket>>

\* ...sleeps, and closes the channel.
CloseChannel ==
  /\ At("close")
  /\ mpc' = "stop"
  /\ Close
  /\ UNCHANGED <<ingesterVars, ctx, aborts, webSocket>>

\* ingester.Stop(): close(stopCh)...
StopIngester ==
  /\ At("stop")
  /\ mpc' = "await"
  /\ stopCh' = TRUE
  /\ UNCHANGED <<fleetVars, ingester, ingestCtx, window, timed, ticks, stored, shapes, lost, ctx, aborts, webSocket>>

\* ...and wait for doneCh.  Then the rows are scored, or the run is given up.
AwaitIngester ==
  /\ At("await")
  /\ ingester = "done"
  /\ mpc' = IF aborts THEN "aborted" ELSE "score"
  /\ UNCHANGED <<fleetVars, ingesterVars, ctx, aborts, webSocket>>

\* workerCancel(): the contexts of the fleet and of the ingester derive from
\* the worker's.
ShutDown ==
  /\ MayShutDown /\ ctx /\ ~panicked
  /\ ctx' = FALSE
  /\ ingestCtx' = FALSE
  /\ fleetCtx' = IF fleetCtx = "live" THEN "cancelled" ELSE fleetCtx
  /\ UNCHANGED <<bot, answer, failedReads, ramp, buffered, closed, counters, dropped, panicked>>
  /\ UNCHANGED <<ingester, stopCh, window, timed, ticks, stored, shapes, lost, mpc, aborts, webSocket>>

Measure ==
  \/ StartIngester \/ StartFleet \/ StopFleet \/ CloseChannel
  \/ StopIngester \/ AwaitIngester

FleetRuns ==
  /\ \/ \E b \in Bot : BotRuns(b) \/ RampUp(b)
     \/ RampStops
  /\ UNCHANGED <<ingesterVars, measureVars>>

IngesterStep == IngesterRuns /\ UNCHANGED measureVars

Next == Measure \/ FleetRuns \/ IngesterStep \/ ShutDown

Spec == Init /\ [][Next]_vars

\* Every goroutine that can run runs, calls to the engine return (REST has a
\* time-out of five seconds, a WebSocket read a deadline of five), the window
\* elapses.
Fairness ==
  /\ WF_vars(Measure)
  /\ \A b \in Bot : WF_vars(BotRuns(b) /\ UNCHANGED <<ingesterVars, measureVars>>)
  /\ WF_vars((RampStops \/ \E b \in Bot : RampUp(b)) /\ UNCHANGED <<ingesterVars, measureVars>>)
  /\ WF_vars(IngesterStep)

FairSpec == Spec /\ Fairness

-----------------------------------------------------------------------------
TypeOK ==
  /\ FleetTypeOK
  /\ IngesterTypeOK
  /\ mpc \in MeasureStep
  /\ ctx \in BOOLEAN
  /\ aborts \in BOOLEAN

Waiting == {b \in Bot : bot[b] = "waiting"}
Publishing(kinds) == {b \in Bot : bot[b] = "publish" /\ answer[b] \in kinds}

\* What the ingester has counted: in its window, in the rows, or in the rows it
\* could not insert.
Kept(c) == window[c] + stored[c] + lost[c]

\* Every order the fleet counts as sent, as acknowledged or as failed is in
\* exactly one place: on its way, in the channel, dropped, in the ingester's
\* window, in the rows, or lost with a row that could not be inserted.
Conservation ==
  /\ counters["sent"] = Cardinality(Waiting) + Cardinality(Publishing(Kind)) + Total(buffered)
       + Total(dropped) + Kept("sent")
  /\ counters["acked"] = Cardinality(Publishing(Acked)) + TotalAcked(buffered)
       + TotalAcked(dropped) + Kept("acked")
  /\ counters["fill"] = Cardinality(Publishing({"error"})) + buffered["error"]
       + dropped["error"] + Kept("fill")

\* When scoring begins on a live context, the rows, with those that could not be
\* inserted, say what the fleet measured but for the samples it had to drop and
\* the orders that WebSocket bots still have in hand.
RowsAddUp == mpc = "score" /\ ctx =>
  /\ stored["sent"] + lost["sent"] = counters["sent"] - Total(dropped)
       - Cardinality(Waiting) - Cardinality(Publishing(Kind))
  /\ stored["acked"] + lost["acked"] = counters["acked"] - TotalAcked(dropped)
       - Cardinality(Publishing(Acked))
  /\ stored["fill"] + lost["fill"] = counters["fill"] - dropped["error"]
       - Cardinality(Publishing({"error"}))

\* It takes a WebSocket bot to panic: one that outlives Stop, or one that reads
\* from a failed connection up to the limit.  REST bots do neither.
PanicNeedsWebSocket == panicked =>
  /\ webSocket
  /\ closed \/ \E b \in Bot : failedReads[b] >= ReadLimit

\* No bot sends a sample once Stop has closed the channel.
NoPanic == ~panicked

\* Once the window has begun the worker gets past it, unless a panic ends the
\* process: ingester.Stop finds an ingester that has finished or will.
WindowEnds == (mpc = "window") ~> (mpc \in {"score", "aborted"} \/ panicked)

-----------------------------------------------------------------------------
(* What the documentation says and the code does not do                       *)

\* docs/architecture.md:86: "Latency: 100 at <=1ms p99, 0 at >=100ms p99".
\* A row of acknowledged orders has the p99 of an acknowledged order, and not
\* the 0 ms that scores 100.
AckedIsTimed == \A row \in shapes : row.up => row.measured

=============================================================================

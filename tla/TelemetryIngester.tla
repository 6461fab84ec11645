--------------------------- MODULE TelemetryIngester ---------------------------
(* backend/services/telemetry_ingester.go: the goroutine that turns samples   *)
(* into rows of metric_snapshots, one per flush.  The table is kept as the    *)
(* sums of its columns and the shapes its rows have, which is what            *)
(* computeAggregate makes of it (backend/services/scoring_service.go).        *)
EXTENDS BotFleet

CONSTANTS
  MaxTicks,     \* bound of the model: ticks of the flush interval
  InsertFails   \* an INSERT may fail

ASSUME IngesterAssumption == MaxTicks \in Nat /\ InsertFails \in BOOLEAN

VARIABLES
  ingester,   \* the goroutine: not started, running, finished
  ingestCtx,  \* its context is alive
  stopCh,     \* Stop has closed stopCh
  window,     \* windowSent, windowAcked, windowFillErr, windowPrioErr
  timed,      \* latencies in the histogram
  ticks,      \* ticks so far
  stored,     \* sums over the rows: orders_sent, orders_acked, fill_errors, priority_errors
  shapes,     \* shapes of the rows
  lost        \* the windows whose INSERT failed, summed likewise (history)

ingesterVars == <<ingester, ingestCtx, stopCh, window, timed, ticks, stored, shapes, lost>>

\* A row as the aggregate sees it, of window w with n latencies: some order
\* was acknowledged (it counts as uptime), and p99_ms is that of a recorded
\* latency, not 0.
Shape == [up : BOOLEAN, measured : BOOLEAN]

Row(w, n) == [up |-> w["acked"] > 0, measured |-> n > 0]

Zero == [n \in Counter |-> 0]

IngesterTypeOK ==
  /\ ingester \in {"off", "running", "done"}
  /\ ingestCtx \in BOOLEAN
  /\ stopCh \in BOOLEAN
  /\ window \in [Counter -> Nat]
  /\ timed \in Nat
  /\ ticks \in Nat
  /\ stored \in [Counter -> Nat]
  /\ shapes \subseteq Shape
  /\ lost \in [Counter -> Nat]

IngesterInit ==
  /\ ingester = "off"
  /\ ingestCtx = TRUE
  /\ stopCh = FALSE
  /\ window = Zero
  /\ timed = 0
  /\ ticks = 0
  /\ stored = Zero
  /\ shapes = {}
  /\ lost = Zero

Running == ~panicked /\ ingester = "running"

\* The window after ingesting the samples taken, by kind.  Nothing increments
\* windowPrioErr.
Ingested(taken) ==
  [window EXCEPT !["sent"] = @ + Total(taken),
                 !["acked"] = @ + TotalAcked(taken),
                 !["fill"] = @ + taken["error"]]

\* persistSnapshot of a window w with n latencies in its histogram; an error
\* is logged and the window is gone.
Persist(w, n, ctxAlive) ==
  \/ /\ ctxAlive
     /\ stored' = [c \in Counter |-> stored[c] + w[c]]
     /\ shapes' = shapes \cup {Row(w, n)}
     /\ UNCHANGED lost
  \/ /\ InsertFails \/ ~ctxAlive
     /\ lost' = [c \in Counter |-> lost[c] + w[c]]
     /\ UNCHANGED <<stored, shapes>>

\* flush: the counters and the histogram are reset; an empty window leaves no
\* row.
Flush(w, n, ctxAlive) ==
  /\ window' = Zero
  /\ timed' = 0
  /\ IF w["sent"] = 0 /\ w["acked"] = 0
     THEN UNCHANGED <<stored, shapes, lost>>
     ELSE Persist(w, n, ctxAlive)

\* Mutant of Ingest: "sample := <-t.samples", without ok; what a closed and
\* empty channel gives is counted as an order that failed.
IngestUnchecked(k) ==
  /\ Running
  /\ \/ /\ buffered[k] > 0
        /\ buffered' = [buffered EXCEPT ![k] = @ - 1]
     \/ /\ closed /\ Total(buffered) = 0 /\ k = "error"
        /\ UNCHANGED buffered
  /\ window' = Ingested([j \in Kind |-> IF j = k THEN 1 ELSE 0])
  /\ timed' = IF k \in Timed THEN timed + 1 ELSE timed
  /\ UNCHANGED <<ingester, ingestCtx, stopCh, ticks, stored, shapes, lost>>

\* One sample: counted, and recorded in the histogram if it is in its range;
\* the error of RecordValue is ignored.
Ingest(k) ==
  /\ Running
  /\ buffered[k] > 0
  /\ buffered' = [buffered EXCEPT ![k] = @ - 1]
  /\ window' = Ingested([j \in Kind |-> IF j = k THEN 1 ELSE 0])
  /\ timed' = IF k \in Timed THEN timed + 1 ELSE timed
  /\ UNCHANGED <<ingester, ingestCtx, stopCh, ticks, stored, shapes, lost>>

Tick ==
  /\ Running
  /\ ticks < MaxTicks
  /\ ticks' = ticks + 1
  /\ Flush(window, timed, ingestCtx)
  /\ UNCHANGED <<buffered, ingester, ingestCtx, stopCh>>

\* Mutant of SeesStop: without drainRemaining.
SeesStopUndrained ==
  /\ Running
  /\ stopCh
  /\ Flush(window, timed, ingestCtx)
  /\ ingester' = "done"
  /\ UNCHANGED <<buffered, ingestCtx, stopCh, ticks>>

\* stopCh is closed: drainRemaining, then the final flush.
SeesStop ==
  /\ Running
  /\ stopCh
  /\ buffered' = [k \in Kind |-> 0]
  /\ Flush(Ingested(buffered), timed + TotalTimed(buffered), ingestCtx)
  /\ ingester' = "done"
  /\ UNCHANGED <<ingestCtx, stopCh, ticks>>

\* Mutant of SeesClosed: doneCh is closed on the way out of Stop only.
SeesClosedNotDone ==
  /\ Running
  /\ closed /\ Total(buffered) = 0
  /\ Flush(window, timed, ingestCtx)
  /\ ingester' = "off"
  /\ UNCHANGED <<buffered, ingestCtx, stopCh, ticks>>

\* The channel is closed and empty: the final flush.
SeesClosed ==
  /\ Running
  /\ closed /\ Total(buffered) = 0
  /\ Flush(window, timed, ingestCtx)
  /\ ingester' = "done"
  /\ UNCHANGED <<buffered, ingestCtx, stopCh, ticks>>

\* The context is cancelled: a flush on the cancelled context, no drain.
SeesCancel ==
  /\ Running
  /\ ~ingestCtx
  /\ Flush(window, timed, FALSE)
  /\ ingester' = "done"
  /\ UNCHANGED <<buffered, ingestCtx, stopCh, ticks>>

IngesterRuns ==
  /\ \/ \E k \in Kind : Ingest(k)
     \/ Tick
     \/ SeesStop
     \/ SeesClosed
     \/ SeesCancel
  /\ UNCHANGED <<bot, answer, failedReads, ramp, fleetCtx, closed, counters, dropped, panicked>>

=============================================================================

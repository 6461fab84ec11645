---------------------------- MODULE BenchmarkWorker ----------------------------
(* backend/workers/benchmark_worker.go and the database side of               *)
(* backend/services/scoring_service.go: the one goroutine that takes runs off *)
(* the queue and drives each through the pipeline.  One step per call to      *)
(* Postgres, Redis or Docker.                                                 *)
(*                                                                            *)
(* All calls share the worker's context.  It is cancelled when the process    *)
(* begins to stop; a call made after that fails at once and has no effect.    *)
(* Statements that store only container ids, addresses and times write        *)
(* columns nothing here reads and are not steps.                              *)
EXTENDS QueueService, SandboxService

VARIABLES
  wpc,    \* the call the worker makes next
  wrun,   \* the run id it has dequeued
  wsub    \* the submission it has loaded for it

workerVars == <<wpc, wrun, wsub>>

\* From the dequeue to the load the submission is not known.
Loading == {"load"}
\* The submission is loaded and no container has been launched.
Preparing == {"setRunning", "setBuilding", "build", "launch"}
\* The worker holds a launched container.
Holding == {"health", "setSubRunning", "startFleet", "bench", "aggregate",
            "upsert", "teardown", "failTearDown"}
\* The container has been torn down and the run is closed as completed.
Closing == {"completeRun", "completeSub"}
\* The run is closed as failed.
Failing == {"failRun", "failSub", "deadLetter"}
\* No run in hand.
Free == {"loop", "brpop", "returned", "off"}

WorkerStep == Loading \cup Preparing \cup Holding \cup Closing \cup Failing \cup Free

WorkerTypeOK ==
  /\ wpc \in WorkerStep
  /\ wrun \in Run \cup {NoRun}
  /\ wsub \in Sub \cup {NoSub}

WorkerInit == wpc = "loop" /\ wrun = NoRun /\ wsub = NoSub

Live == proc = "up"
\* A statement returns an error.
StatementFails == "db" \in Faults \/ proc = "stopping"

WorkerAt(step) == proc # "down" /\ wpc = step
WorkerGoto(step) == wpc' = step /\ UNCHANGED <<wrun, wsub>>
Release == wpc' = "loop" /\ wrun' = NoRun /\ wsub' = NoSub

-----------------------------------------------------------------------------
(* Run: the loop                                                              *)

\* The test of ctx.Done() that opens every round.
CheckContext ==
  /\ WorkerAt("loop")
  /\ WorkerGoto(IF proc = "stopping" THEN "returned" ELSE "brpop")
  /\ UNCHANGED <<dbVars, queueVars, staged, containers, proc>>

\* The reply to a BRPOP brings a run.  A blocked BRPOP does not see its
\* context being cancelled and still delivers while the process stops.
Dequeue ==
  /\ WorkerAt("brpop")
  /\ \E r \in Run : BRPop(r) /\ wrun' = r
  /\ wpc' = "load"
  /\ UNCHANGED <<wsub, dbVars, staged, containers, proc>>

\* The element is popped and the reply is lost: an error to the worker.
DequeueLost ==
  /\ WorkerAt("brpop")
  /\ "redis" \in Faults
  /\ \E r \in Run : BRPop(r)
  /\ WorkerGoto("loop")
  /\ UNCHANGED <<dbVars, staged, containers, proc>>

\* Mutant: the empty run id of a time-out is processed.
DequeueEmptyProceeds ==
  /\ WorkerAt("brpop")
  /\ queue = <<>> \/ "redis" \in Faults \/ proc = "stopping"
  /\ WorkerGoto("load")
  /\ UNCHANGED <<dbVars, queueVars, staged, containers, proc>>

\* Nothing came within five seconds, or the call failed.
DequeueEmpty ==
  /\ WorkerAt("brpop")
  /\ queue = <<>> \/ "redis" \in Faults \/ proc = "stopping"
  /\ WorkerGoto("loop")
  /\ UNCHANGED <<dbVars, queueVars, staged, containers, proc>>

-----------------------------------------------------------------------------
(* processRun up to the container                                             *)

\* loadRunAndSubmission: neither status is looked at.
Load ==
  /\ WorkerAt("load")
  /\ \/ /\ Live /\ RunExists(wrun) /\ SubExists(runSub[wrun])
        /\ wsub' = runSub[wrun]
        /\ wpc' = "setRunning"
     \/ /\ StatementFails \/ ~RunExists(wrun)
        /\ wpc' = "failRun"
        /\ UNCHANGED wsub
  /\ UNCHANGED <<wrun, dbVars, queueVars, staged, containers, proc>>

\* An error of either of these two updates returns without failRun.
SetRunning ==
  /\ WorkerAt("setRunning")
  /\ \/ Live /\ UpdateRunStatus(wrun, "running")
        /\ \/ WorkerGoto("setBuilding")
           \/ "db" \in Faults /\ WorkerGoto("deadLetter")
     \/ StatementFails /\ UNCHANGED runs /\ WorkerGoto("deadLetter")
  /\ UNCHANGED <<subs, runSub, boardVars, queueVars, staged, containers, proc>>

SetBuilding ==
  /\ WorkerAt("setBuilding")
  /\ \/ Live /\ UpdateSubStatus(wsub, "building")
        /\ \/ WorkerGoto("build")
           \/ "db" \in Faults /\ WorkerGoto("deadLetter")
     \/ StatementFails /\ UNCHANGED subs /\ WorkerGoto("deadLetter")
  /\ UNCHANGED <<runs, runSub, boardVars, queueVars, staged, containers, proc>>

\* Mutant: a failed build returns its error without failRun.
BuildReturnsError ==
  /\ WorkerAt("build")
  /\ \/ BuildCanSucceed(wsub) /\ WorkerGoto("launch")
     \/ WorkerGoto("deadLetter")
  /\ UNCHANGED <<dbVars, queueVars, staged, containers, proc>>

Build ==
  /\ WorkerAt("build")
  /\ \/ BuildCanSucceed(wsub) /\ WorkerGoto("launch")
     \/ WorkerGoto("failRun")
  /\ UNCHANGED <<dbVars, queueVars, staged, containers, proc>>

Launch ==
  /\ WorkerAt("launch")
  /\ \/ LaunchOk(wsub) /\ WorkerGoto("health")
     \/ LaunchFails /\ WorkerGoto("failRun")
     \/ LaunchLeaks(wsub) /\ WorkerGoto("failRun")
  /\ UNCHANGED <<dbVars, queueVars, staged, proc>>

\* Mutant: an engine that never becomes healthy is not torn down.
WaitForHealthyKeepsContainer ==
  /\ WorkerAt("health")
  /\ \/ WorkerGoto("setSubRunning")
     \/ WorkerGoto("failRun")
  /\ UNCHANGED <<dbVars, queueVars, staged, containers, proc>>

\* WaitForHealthy polls without a context, so that a healthy answer and the
\* cancellation race; the engine may never become healthy.
WaitForHealthy ==
  /\ WorkerAt("health")
  /\ \/ WorkerGoto("setSubRunning")
     \/ WorkerGoto("failTearDown")
  /\ UNCHANGED <<dbVars, queueVars, staged, containers, proc>>

\* The error is ignored.
SetSubRunning ==
  /\ WorkerAt("setSubRunning")
  /\ \/ Live /\ UpdateSubStatus(wsub, "running")
     \/ StatementFails /\ UNCHANGED subs
  /\ WorkerGoto("startFleet")
  /\ UNCHANGED <<runs, runSub, boardVars, queueVars, staged, containers, proc>>

\* Mutant: the error of fleet.Start is returned without failRun.
StartFleetReturnsError ==
  /\ WorkerAt("startFleet")
  /\ \/ WorkerGoto("bench")
     \/ WorkerGoto("deadLetter")
  /\ UNCHANGED <<dbVars, queueVars, staged, containers, proc>>

\* fleet.Start refuses a protocol it does not know.
StartFleet ==
  /\ WorkerAt("startFleet")
  /\ \/ WorkerGoto("bench")
     \/ WorkerGoto("failTearDown")
  /\ UNCHANGED <<dbVars, queueVars, staged, containers, proc>>

-----------------------------------------------------------------------------
(* processRun from the benchmark window to the end                            *)

\* The window ends, or the context is cancelled first: then TearDown, with
\* the cancelled context, removes nothing, and processRun returns ctx.Err().
Bench ==
  /\ WorkerAt("bench")
  /\ \/ WorkerGoto("aggregate")
     \/ proc = "stopping" /\ WorkerGoto("deadLetter")
  /\ UNCHANGED <<dbVars, queueVars, staged, containers, proc>>

\* computeAggregate and storeAggregate: one row per run, overwritten on a
\* conflict; the foreign key wants the run.  What was measured is any score.
Aggregate ==
  /\ WorkerAt("aggregate")
  /\ \/ /\ Live /\ RunExists(wrun)
        /\ \E v \in Score : agg' = [agg EXCEPT ![wrun] = v]
        /\ \/ WorkerGoto("upsert")
           \/ "db" \in Faults /\ WorkerGoto("teardown")
     \/ /\ StatementFails \/ ~RunExists(wrun)
        /\ UNCHANGED agg
        /\ WorkerGoto("teardown")
  /\ UNCHANGED <<subs, runs, runSub, boardRun, boardScore, queueVars, staged, containers, proc>>

\* Mutant: the upsert has no WHERE, the last run wins.
UpsertLatest ==
  /\ WorkerAt("upsert")
  /\ \/ /\ Live /\ RunExists(wrun)
        /\ boardRun' = [boardRun EXCEPT ![runSub[wrun]] = wrun]
        /\ boardScore' = [boardScore EXCEPT ![runSub[wrun]] = agg[wrun]]
     \/ /\ StatementFails \/ ~RunExists(wrun)
        /\ UNCHANGED <<boardRun, boardScore>>
  /\ WorkerGoto("teardown")
  /\ UNCHANGED <<subs, runs, runSub, agg, queueVars, staged, containers, proc>>

\* upsertLeaderboard: find the submission through the run, insert its row, or
\* replace it where the new composite score is not lower.
Upsert ==
  /\ WorkerAt("upsert")
  /\ \/ /\ Live /\ RunExists(wrun)
        /\ LET s == runSub[wrun] IN
             IF agg[wrun] >= boardScore[s]
             THEN /\ boardRun' = [boardRun EXCEPT ![s] = wrun]
                  /\ boardScore' = [boardScore EXCEPT ![s] = agg[wrun]]
             ELSE UNCHANGED <<boardRun, boardScore>>
     \/ /\ StatementFails \/ ~RunExists(wrun)
        /\ UNCHANGED <<boardRun, boardScore>>
  /\ WorkerGoto("teardown")
  /\ UNCHANGED <<subs, runs, runSub, agg, queueVars, staged, containers, proc>>

TearDownDone ==
  /\ WorkerAt("teardown")
  /\ TearDown(wsub)
  /\ WorkerGoto("completeRun")
  /\ UNCHANGED <<dbVars, queueVars, staged, proc>>

\* completeRun and the update after it ignore their errors; processRun
\* returns nil and the run is forgotten.
CompleteRun ==
  /\ WorkerAt("completeRun")
  /\ \/ Live /\ UpdateRunStatus(wrun, "completed")
     \/ StatementFails /\ UNCHANGED runs
  /\ WorkerGoto("completeSub")
  /\ UNCHANGED <<subs, runSub, boardVars, queueVars, staged, containers, proc>>

\* Mutant: the submission of a completed run keeps its status.
CompleteSubForgotten ==
  /\ WorkerAt("completeSub")
  /\ Release
  /\ UNCHANGED <<dbVars, queueVars, staged, containers, proc>>

CompleteSub ==
  /\ WorkerAt("completeSub")
  /\ \/ Live /\ UpdateSubStatus(wsub, "completed")
     \/ StatementFails /\ UNCHANGED subs
  /\ Release
  /\ UNCHANGED <<runs, runSub, boardVars, queueVars, staged, containers, proc>>

-----------------------------------------------------------------------------
(* The error path                                                             *)

TearDownFailed ==
  /\ WorkerAt("failTearDown")
  /\ TearDown(wsub)
  /\ WorkerGoto("failRun")
  /\ UNCHANGED <<dbVars, queueVars, staged, proc>>

\* Mutant: a failed run goes back to "queued".
FailRunRequeues ==
  /\ WorkerAt("failRun")
  /\ UpdateRunStatus(wrun, "queued")
  /\ WorkerGoto("failSub")
  /\ UNCHANGED <<subs, runSub, boardVars, queueVars, staged, containers, proc>>

\* failRun: the run's row, then the row of the submission it names.
FailRun ==
  /\ WorkerAt("failRun")
  /\ \/ Live /\ UpdateRunStatus(wrun, "failed")
     \/ StatementFails /\ UNCHANGED runs
  /\ WorkerGoto("failSub")
  /\ UNCHANGED <<subs, runSub, boardVars, queueVars, staged, containers, proc>>

\* Mutant: the run is failed and its submission is left as it is.
FailSubForgotten ==
  /\ WorkerAt("failSub")
  /\ WorkerGoto("deadLetter")
  /\ UNCHANGED <<dbVars, queueVars, staged, containers, proc>>

FailSub ==
  /\ WorkerAt("failSub")
  /\ \/ Live /\ RunExists(wrun) /\ UpdateSubStatus(runSub[wrun], "failed")
     \/ (StatementFails \/ ~RunExists(wrun)) /\ UNCHANGED subs
  /\ WorkerGoto("deadLetter")
  /\ UNCHANGED <<runs, runSub, boardVars, queueVars, staged, containers, proc>>

DeadLetter ==
  /\ WorkerAt("deadLetter")
  /\ MoveToDeadLetter(wrun)
  /\ Release
  /\ UNCHANGED <<dbVars, staged, containers, proc>>

-----------------------------------------------------------------------------
Work ==
  \/ CheckContext \/ Dequeue \/ DequeueLost \/ DequeueEmpty
  \/ Load \/ SetRunning \/ SetBuilding \/ Build \/ Launch
  \/ WaitForHealthy \/ SetSubRunning \/ StartFleet \/ Bench
  \/ Aggregate \/ Upsert \/ TearDownDone \/ CompleteRun \/ CompleteSub
  \/ TearDownFailed \/ FailRun \/ FailSub \/ DeadLetter

=============================================================================

----------------------------- MODULE LedgerProofs -----------------------------
(* The promises of the control plane when Postgres answers and the process is *)
(* not stopped, for every set of submissions, runs and requests: what the     *)
(* statuses and the leaderboard say is so, and Platform implements RunLedger. *)
EXTENDS PlatformProofs

-----------------------------------------------------------------------------
(* What a step may do to the runs' rows                                       *)

\* The worker never inserts or deletes a run.
LEMMA WorkKeepsRuns ==
  ASSUME TypeOK, Work
  PROVE  /\ runSub' = runSub
         /\ \A r \in Run : runs'[r] = runs[r] \/ (runs[r] \in RunStatus /\ runs'[r] \in RunStatus)
<1> USE DEF dbVars, boardVars, UpdateRunStatus, RunExists, RunStatus, TypeOK, StateTypeOK
<1>1. CASE UNCHANGED <<runs, runSub>>
  BY <1>1
<1>2. CASE SetRunning
  BY <1>2 DEF SetRunning
<1>3. CASE CompleteRun
  BY <1>3 DEF CompleteRun
<1>4. CASE FailRun
  BY <1>4 DEF FailRun
<1> QED
  BY <1>1, <1>2, <1>3, <1>4
  DEF Work, CheckContext, Dequeue, DequeueLost, DequeueEmpty, Load, SetBuilding, Build,
      Launch, WaitForHealthy, SetSubRunning, StartFleet, Bench, Aggregate, Upsert,
      TearDownDone, CompleteSub, TearDownFailed, FailSub, DeadLetter

\* A new request writes no table.
LEMMA RequestKeepsTables ==
  ASSUME NEW c \in Client, Request(c)
  PROVE  UNCHANGED <<dbVars, queueVars, hrun, proc>>
BY DEF Request, CreateStage, CreateStageFails, DeleteRead, TriggerRead, Begin, apiVars

LEMMA ProcessKeepsTables ==
  ASSUME Process
  PROVE  UNCHANGED <<dbVars, queueVars>>
BY DEF Process, Crash, Exit, Die, Shutdown, Restart

\* DELETE, as what becomes of each row.
LEMMA RowDeleted ==
  ASSUME TypeOK, NEW s \in Sub, DeleteSubRow(s)
  PROVE  /\ runSub' = runSub
         /\ \A t \in Sub : subs'[t] = IF t = s /\ SubExists(s) THEN "deleted" ELSE subs[t]
         /\ \A r \in Run : runs'[r] = IF RunExists(r) /\ runSub[r] = s THEN "deleted" ELSE runs[r]
         /\ \A r \in Run : agg'[r] = IF runSub[r] = s THEN NoScore ELSE agg[r]
         /\ \A t \in Sub : boardRun'[t] = IF t = s THEN NoRun ELSE boardRun[t]
         /\ \A t \in Sub : boardScore'[t] = IF t = s THEN NoScore ELSE boardScore[t]
BY DEF DeleteSubRow, TypeOK, StateTypeOK

\* The worker's hands, with what they are known to hold.
LEMMA Hands ==
  ASSUME TypeOK, KnownInv
  PROVE  /\ wpc \notin Free => wrun \in Run /\ runs[wrun] # "absent"
         /\ wsub # NoSub => wsub \in Sub /\ wpc \notin Free
         /\ wpc \in Preparing \cup Holding \cup Closing => wsub \in Sub
         /\ \A c \in Client : hpc[c] # "idle" => hsub[c] \in Sub
<1> USE PlatformAssumption DEF TypeOK, WorkerTypeOK, WorkerHandsOK
<1>1. wpc \notin Free => wrun \in Run /\ runs[wrun] # "absent"
  BY DEF KnownInv, Places, HeldByWorker
<1>2. \A c \in Client : hpc[c] # "idle" => hsub[c] \in Sub
  BY DEF ApiTypeOK, RequestHandsOK
<1> QED BY <1>1, <1>2

-----------------------------------------------------------------------------
(* The foreign keys' other half                                               *)

LEMMA ContinueKeepsCascade ==
  ASSUME TypeOK, KnownInv, StagedInv, ReferenceInv, CascadeInv,
         NEW c \in Client, Continue(c), UNCHANGED workerVars
  PROVE  CascadeInv'
<1> USE Hands DEF At, boardVars, workerVars
<1>1. \A r \in Run : runs[r] # "absent" => runSub[r] \in Sub
  BY DEF TypeOK, StateTypeOK
<1>2. ASSUME UNCHANGED <<subs, runs, runSub>> PROVE CascadeInv'
  BY <1>2 DEF CascadeInv
<1>3. CASE CreateInsert(c)
  <2>1. hsub[c] \in Sub /\ subs[hsub[c]] = "absent"
    BY <1>3 DEF CreateInsert, StagedInv
  <2>2. \A s \in Sub : subs[s] = "deleted" => subs'[s] = "deleted"
    BY <1>3, <2>1 DEF CreateInsert, TypeOK, StateTypeOK
  <2>3. UNCHANGED <<runs, runSub>>
    BY <1>3 DEF CreateInsert
  <2> QED BY <1>1, <2>2, <2>3 DEF CascadeInv
<1>4. CASE DeleteRow(c)
  <2>1. hsub[c] \in Sub /\ subs[hsub[c]] # "absent" /\ DeleteSubRow(hsub[c])
    BY <1>4 DEF DeleteRow, StagedInv
  <2>2. subs'[hsub[c]] = "deleted"
    BY <2>1, RowDeleted DEF SubExists, TypeOK, StateTypeOK, NoRow
  <2>3. \A s \in Sub : subs[s] = "deleted" => subs'[s] = "deleted"
    BY <2>1, RowDeleted
  <2> QED BY <1>1, <2>1, <2>2, <2>3, RowDeleted DEF CascadeInv, RunExists, RunStatus
<1>5. ASSUME NEW r \in Run, InsertRun(c, r) PROVE CascadeInv'
  <2>1. runs[r] = "absent" /\ UNCHANGED subs
        /\ runs' = [runs EXCEPT ![r] = "queued"] /\ runSub' = [runSub EXCEPT ![r] = hsub[c]]
    BY <1>5 DEF InsertRun
  <2>2. \A q \in Run : /\ runs'[q] = IF q = r THEN "queued" ELSE runs[q]
                       /\ runSub'[q] = IF q = r THEN hsub[c] ELSE runSub[q]
    BY <2>1 DEF TypeOK, StateTypeOK
  <2>3. wsub # NoSub => wrun \in Run /\ wrun # r
    BY <2>1
  <2> QED BY <2>1, <2>2, <2>3 DEF CascadeInv
<1> QED
  BY <1>2, <1>3, <1>4, <1>5
  DEF Continue, DeleteRowFails, RemoveFiles, InsertRunFails, Enqueue, dbVars

LEMMA WorkKeepsCascade ==
  ASSUME TypeOK, KnownInv, CascadeInv, Work
  PROVE  CascadeInv'
<1>1. \A r \in Run : runs[r] # "absent" => runSub[r] \in Sub
  BY DEF TypeOK, StateTypeOK
<1>2. /\ \A r \in Run : runs'[r] = "deleted" => subs'[runSub'[r]] = "deleted"
      /\ \A r \in Run : runs'[r] = "absent" => runSub'[r] = NoSub
  BY <1>1, WorkKeepsRuns, WorkKeepsSubs DEF CascadeInv, RunStatus, SubStatus
<1>3. wsub' # NoSub => wrun' # NoRun /\ runSub'[wrun'] = wsub'
  <2>1. CASE Load
    BY <2>1, Hands, PlatformAssumption, WorkKeepsRuns DEF Load, WorkerAt, Free, CascadeInv
  <2>2. CASE wsub' = NoSub
    BY <2>2
  <2>3. CASE UNCHANGED <<wrun, wsub>>
    BY <2>3, WorkKeepsRuns DEF CascadeInv
  <2>4. CASE Dequeue
    BY <2>4 DEF Dequeue, WorkerAt, TypeOK, WorkerHandsOK, Free
  <2> QED
    BY <2>1, <2>2, <2>3, <2>4
    DEF Work, CheckContext, DequeueLost, DequeueEmpty, SetRunning, SetBuilding, Build,
        Launch, WaitForHealthy, SetSubRunning, StartFleet, Bench, Aggregate, Upsert,
        TearDownDone, CompleteRun, CompleteSub, TearDownFailed, FailRun, FailSub,
        DeadLetter, WorkerGoto, Release
<1> QED BY <1>2, <1>3 DEF CascadeInv

\* A run is deleted only with its submission, under every fault.
LEMMA CascadeHolds == Spec => []CascadeInv
<1>1. Init => CascadeInv
  BY DEF Init, StateInit, WorkerInit, CascadeInv
<1>2. TypeOK /\ KnownInv /\ StagedInv /\ ReferenceInv /\ CascadeInv /\ [Next]_vars => CascadeInv'
  <2> SUFFICES ASSUME TypeOK, KnownInv, StagedInv, ReferenceInv, CascadeInv, [Next]_vars
               PROVE  CascadeInv'
    OBVIOUS
  <2>1. ASSUME NEW c \in Client, Request(c), UNCHANGED workerVars PROVE CascadeInv'
    BY <2>1, RequestKeepsTables DEF CascadeInv, dbVars, workerVars
  <2>2. CASE Process
    BY <2>2 DEF Process, Crash, Exit, Die, Shutdown, Restart, CascadeInv, dbVars, workerVars
  <2>3. CASE UNCHANGED vars
    BY <2>3 DEF vars, dbVars, workerVars, CascadeInv
  <2> QED BY <2>1, <2>2, <2>3, ContinueKeepsCascade, WorkKeepsCascade DEF Next
<1> QED BY <1>1, <1>2, TypeCorrect, KnownRuns, StagedHolds, ReferencesHold, PTL DEF Spec

-----------------------------------------------------------------------------
(* The process                                                                *)

\* Only a crash or SIGTERM takes the process from "up".
LEMMA StaysUp ==
  ASSUME Faults \cap {"crash", "shutdown"} = {}, proc = "up", [Next]_vars
  PROVE  proc' = "up" /\ ~Process
<1>1. ~Process
  BY DEF Process, Crash, Exit, Shutdown, Restart
<1>2. ASSUME NEW c \in Client, Request(c) \/ Continue(c) PROVE proc' = proc
  BY <1>2, RequestKeepsTables
  DEF Continue, CreateInsert, DeleteRow, DeleteRowFails, RemoveFiles, InsertRun,
      InsertRunFails, Enqueue
<1>3. ASSUME Work PROVE proc' = proc
  BY <1>3
  DEF Work, CheckContext, Dequeue, DequeueLost, DequeueEmpty, Load, SetRunning, SetBuilding,
      Build, Launch, WaitForHealthy, SetSubRunning, StartFleet, Bench, Aggregate, Upsert,
      TearDownDone, CompleteRun, CompleteSub, TearDownFailed, FailRun, FailSub, DeadLetter
<1> QED BY <1>1, <1>2, <1>3 DEF Next, vars

\* Nothing comes between the worker and the tables.
Undisturbed == Faults \cap {"retry", "db", "crash", "shutdown"} = {}

-----------------------------------------------------------------------------
(* What the statuses say                                                      *)

\* StatusAgreement needs the two steps from which its last conjunct is
\* reached: at the start of the fleet the submission says so, and a run that
\* is failed had begun.
SteadyInv ==
  /\ proc = "up"
  /\ StatusAgreement
  /\ wpc = "startFleet" => subs[wsub] \in {"running", "deleted"}
  /\ wpc = "failRun" => runs[wrun] \in {"running", "deleted"}

\* The steps that change no row, and leave the hands as they are.
LEMMA SteadyKept ==
  ASSUME TypeOK, KnownInv, SteadyInv, proc' = "up",
         UNCHANGED <<wpc, wrun, wsub>>,
         \A s \in Sub : subs'[s] = subs[s] \/ subs'[s] = "deleted" \/ (subs[s] = "absent" /\ subs'[s] = "pending"),
         \A r \in Run : runs'[r] = runs[r] \/ runs'[r] = "deleted" \/ (runs[r] = "absent" /\ runs'[r] = "queued")
  PROVE  SteadyInv'
<1>1. \A s \in Sub : subs'[s] \in {"building", "running"} => subs'[s] = subs[s]
  OBVIOUS
<1>2. \A r \in Run : runs'[r] = "running" => runs'[r] = runs[r]
  OBVIOUS
<1>3. \A s \in Sub : subs[s] \in {"running", "deleted"} => subs'[s] \in {"running", "deleted"}
  OBVIOUS
<1>4. \A r \in Run : runs[r] \in {"running", "deleted"} => runs'[r] \in {"running", "deleted"}
  OBVIOUS
<1>5. /\ wpc \in {"startFleet", "bench", "aggregate", "upsert", "teardown"} => wsub \in Sub
      /\ wpc \in {"failRun", "bench", "aggregate", "upsert", "teardown"} => wrun \in Run
  BY Hands DEF Holding, Free
<1> QED BY <1>1, <1>2, <1>3, <1>4, <1>5 DEF SteadyInv, StatusAgreement

LEMMA ContinueKeepsSteady ==
  ASSUME TypeOK, KnownInv, StagedInv, SteadyInv, proc' = "up",
         NEW c \in Client, Continue(c), UNCHANGED workerVars
  PROVE  SteadyInv'
<1> USE SteadyKept, Hands DEF At, boardVars, workerVars
<1>1. CASE UNCHANGED <<subs, runs>>
  BY <1>1
<1>2. CASE CreateInsert(c)
  <2>1. hsub[c] \in Sub /\ subs[hsub[c]] = "absent"
    BY <1>2 DEF CreateInsert, StagedInv
  <2>2. UNCHANGED runs /\ \A s \in Sub : subs'[s] = subs[s] \/ (subs[s] = "absent" /\ subs'[s] = "pending")
    BY <1>2, <2>1 DEF CreateInsert, TypeOK, StateTypeOK
  <2> QED BY <2>2
<1>3. CASE DeleteRow(c)
  <2>1. hsub[c] \in Sub /\ DeleteSubRow(hsub[c])
    BY <1>3 DEF DeleteRow
  <2> QED BY <2>1, RowDeleted
<1>4. ASSUME NEW r \in Run, InsertRun(c, r) PROVE SteadyInv'
  <2>1. UNCHANGED subs /\ \A q \in Run : runs'[q] = runs[q] \/ (runs[q] = "absent" /\ runs'[q] = "queued")
    BY <1>4 DEF InsertRun, TypeOK, StateTypeOK
  <2> QED BY <2>1
<1> QED
  BY <1>1, <1>2, <1>3, <1>4
  DEF Continue, DeleteRowFails, RemoveFiles, InsertRunFails, Enqueue, dbVars

\* A run in hand that has no row was deleted, and its submission with it.
LEMMA HandsExist ==
  ASSUME TypeOK, KnownInv, ReferenceInv, CascadeInv
  PROVE  /\ wpc \notin Free /\ ~RunExists(wrun) => runs[wrun] = "deleted"
         /\ wpc \notin Free /\ wsub # NoSub =>
              /\ runSub[wrun] = wsub
              /\ RunExists(wrun) => SubExists(wsub)
              /\ ~RunExists(wrun) => subs[wsub] = "deleted"
              /\ SubExists(wsub) \/ subs[wsub] = "deleted"
<1>1. wpc \notin Free => wrun \in Run /\ runs[wrun] # "absent"
  BY Hands
<1>2. wpc \notin Free /\ ~RunExists(wrun) => runs[wrun] = "deleted"
  BY <1>1 DEF RunExists, NoRow, TypeOK, StateTypeOK
<1> QED BY <1>1, <1>2 DEF ReferenceInv, CascadeInv

LEMMA WorkKeepsSteady ==
  ASSUME Undisturbed, TypeOK, KnownInv, ReferenceInv, CascadeInv, StageInv, SteadyInv,
         proc' = "up", Work
  PROVE  SteadyInv'
<1> USE PlatformAssumption
    DEF TypeOK, StateTypeOK, WorkerTypeOK, WorkerHandsOK, WorkerAt, WorkerGoto, Release,
        dbVars, boardVars, SteadyInv, StatusAgreement, Started, Built, Measured,
        Loading, Preparing, Holding, Closing, Free
<1>1. StatementFails = FALSE /\ Live = TRUE
  BY DEF StatementFails, Live, Undisturbed
<1>2. CASE CheckContext \/ Dequeue \/ DequeueLost \/ DequeueEmpty \/ DeadLetter
  BY <1>2 DEF CheckContext, Dequeue, DequeueLost, DequeueEmpty, DeadLetter
<1>3. CASE Load
  BY <1>1, <1>3, HandsExist DEF Load
<1>4. CASE SetRunning
  <2>1. wrun \in Run /\ wpc = "setRunning" /\ wpc' = "setBuilding" /\ UNCHANGED <<subs, wrun, wsub>>
    BY <1>1, <1>4 DEF SetRunning, Undisturbed
  <2>2. \A r \in Run : runs'[r] = IF r = wrun /\ RunExists(r) THEN "running" ELSE runs[r]
    BY <1>1, <1>4 DEF SetRunning, UpdateRunStatus
  <2> QED BY <2>1, <2>2
<1>5. CASE SetBuilding
  <2>1. wpc = "setBuilding" /\ wpc' = "build" /\ UNCHANGED <<runs, wrun, wsub>>
    BY <1>1, <1>5 DEF SetBuilding, Undisturbed
  <2>2. \A s \in Sub : subs'[s] = IF s = wsub /\ SubExists(s) THEN "building" ELSE subs[s]
    BY <1>1, <1>5 DEF SetBuilding, UpdateSubStatus
  <2> QED BY <2>1, <2>2
<1>6. CASE Build \/ Launch \/ WaitForHealthy \/ StartFleet
  BY <1>6 DEF Build, Launch, WaitForHealthy, StartFleet, StageInv
<1>7. CASE SetSubRunning
  <2>1. wpc = "setSubRunning" /\ wpc' = "startFleet" /\ UNCHANGED <<runs, wrun, wsub>> /\ wsub \in Sub
    BY <1>1, <1>7 DEF SetSubRunning
  <2>2. \A s \in Sub : subs'[s] = IF s = wsub /\ SubExists(s) THEN "running" ELSE subs[s]
    BY <1>1, <1>7 DEF SetSubRunning, UpdateSubStatus
  <2>3. subs'[wsub] \in {"running", "deleted"}
    BY <2>1, <2>2, HandsExist
  <2> QED BY <2>1, <2>2, <2>3
<1>8. CASE Bench \/ Aggregate \/ Upsert \/ TearDownDone \/ TearDownFailed
  BY <1>1, <1>8 DEF Bench, Aggregate, Upsert, TearDownDone, TearDownFailed, StageInv
<1>9. CASE CompleteRun
  <2>1. wrun \in Run /\ wpc = "completeRun" /\ wpc' = "completeSub" /\ UNCHANGED <<subs, wrun, wsub>>
    BY <1>1, <1>9 DEF CompleteRun
  <2>2. \A r \in Run : runs'[r] = IF r = wrun /\ RunExists(r) THEN "completed" ELSE runs[r]
    BY <1>1, <1>9 DEF CompleteRun, UpdateRunStatus
  <2> QED BY <2>1, <2>2 DEF RunExists, RunStatus
<1>10. CASE CompleteSub
  <2>1. wpc = "completeSub" /\ wpc' = "loop" /\ UNCHANGED runs
    BY <1>10 DEF CompleteSub
  <2>2. \A s \in Sub : subs'[s] = IF s = wsub /\ SubExists(s) THEN "completed" ELSE subs[s]
    BY <1>1, <1>10 DEF CompleteSub, UpdateSubStatus
  <2> QED BY <2>1, <2>2 DEF SubExists, SubStatus
<1>11. CASE FailRun
  <2>1. wrun \in Run /\ wpc = "failRun" /\ wpc' = "failSub" /\ UNCHANGED <<subs, wrun, wsub>>
    BY <1>1, <1>11 DEF FailRun
  <2>2. \A r \in Run : runs'[r] = IF r = wrun /\ RunExists(r) THEN "failed" ELSE runs[r]
    BY <1>1, <1>11 DEF FailRun, UpdateRunStatus
  <2> QED BY <2>1, <2>2 DEF RunExists, RunStatus
<1>12. CASE FailSub
  <2>1. wpc = "failSub" /\ wpc' = "deadLetter" /\ UNCHANGED <<runs, wrun, wsub>> /\ wrun \in Run
    BY <1>12 DEF FailSub
  <2>2. \A s \in Sub : subs[s] \in {"building", "running"} => s = wsub /\ wsub # NoSub
    BY <2>1
  <2>3. CASE RunExists(wrun) /\ UpdateSubStatus(runSub[wrun], "failed")
    <3>1. \A s \in Sub : subs'[s] = IF s = runSub[wrun] /\ SubExists(s) THEN "failed" ELSE subs[s]
      BY <2>3 DEF UpdateSubStatus
    <3>2. \A s \in Sub : s = wsub => s = runSub[wrun]
      BY <2>1, HandsExist
    <3>3. \A s \in Sub : subs'[s] \notin {"building", "running"}
      BY <2>2, <3>1, <3>2 DEF SubExists, SubStatus
    <3> QED BY <2>1, <3>3
  <2>4. CASE ~RunExists(wrun) /\ UNCHANGED subs
    <3>1. \A s \in Sub : subs[s] \notin {"building", "running"}
      BY <2>1, <2>2, <2>4, HandsExist
    <3> QED BY <2>1, <2>4, <3>1
  <2> QED BY <1>1, <1>12, <2>3, <2>4 DEF FailSub
<1> QED BY <1>2, <1>3, <1>4, <1>5, <1>6, <1>7, <1>8, <1>9, <1>10, <1>11, <1>12 DEF Work

LEMMA SteadyHolds ==
  ASSUME Undisturbed
  PROVE  Spec => []SteadyInv
<1>1. Init => SteadyInv
  BY DEF Init, StateInit, WorkerInit, SteadyInv, StatusAgreement
<1>2. TypeOK /\ KnownInv /\ StagedInv /\ ReferenceInv /\ CascadeInv /\ StageInv /\ SteadyInv
        /\ [Next]_vars => SteadyInv'
  <2> SUFFICES ASSUME TypeOK, KnownInv, StagedInv, ReferenceInv, CascadeInv, StageInv, SteadyInv,
                      [Next]_vars
               PROVE  SteadyInv'
    OBVIOUS
  <2>1. proc' = "up" /\ ~Process
    BY StaysUp DEF Undisturbed, SteadyInv
  <2>2. ASSUME NEW c \in Client, Request(c), UNCHANGED workerVars PROVE SteadyInv'
    BY <2>1, <2>2, RequestKeepsTables, SteadyKept DEF dbVars, workerVars
  <2>3. CASE UNCHANGED vars
    BY <2>1, <2>3, SteadyKept DEF vars, dbVars, workerVars
  <2> QED BY <2>1, <2>2, <2>3, ContinueKeepsSteady, WorkKeepsSteady DEF Next
<1>3. "retry" \notin Faults
  BY DEF Undisturbed
<1> QED
  BY <1>1, <1>2, <1>3, TypeCorrect, KnownRuns, StagedHolds, ReferencesHold, CascadeHolds,
     StagesHold, PTL DEF Spec

\* When Postgres answers and the process is not stopped, a row that says
\* "building" or "running" is that of the run in the worker's hands, at the
\* steps of the pipeline the status names, whatever is deleted meanwhile.
THEOREM StatusesAgree ==
  ASSUME Undisturbed
  PROVE  Spec => []StatusAgreement
<1>1. SteadyInv => StatusAgreement
  BY DEF SteadyInv
<1> QED BY <1>1, SteadyHolds, PTL

-----------------------------------------------------------------------------
(* What the leaderboard says                                                  *)

\* The steps at which the run in hand has not been scored.
Unscored == (Preparing \ {"setRunning"}) \cup
            {"health", "setSubRunning", "startFleet", "bench", "aggregate"}

LEMMA UnscoredHolds ==
  ASSUME "retry" \notin Faults
  PROVE  Spec => []UnscoredInv
<1>1. Init => UnscoredInv
  BY DEF Init, StateInit, WorkerInit, UnscoredInv, Preparing
<1>2. TypeOK /\ KnownInv /\ ReferenceInv /\ Custody /\ StageInv /\ UnscoredInv /\ [Next]_vars
        => UnscoredInv'
  <2> SUFFICES ASSUME TypeOK, KnownInv, ReferenceInv, Custody, StageInv, UnscoredInv, [Next]_vars
               PROVE  UnscoredInv'
    OBVIOUS
  <2>1. \A r \in Run : runs'[r] = "queued" => runs[r] = "queued" \/ runs[r] = "absent"
    BY NextMovesForward DEF Forward
  <2>2. \A r \in Run : runs[r] \in {"absent", "deleted", "queued"} => agg[r] = NoScore
    BY DEF ReferenceInv, RunExists, RunStatus, UnscoredInv
  <2>3. wpc \in Unscored \cup {"load", "setRunning"} => wrun \in Run
    BY Hands DEF Unscored, Preparing, Free
  <2>4. ASSUME \A r \in Run : agg'[r] \in {agg[r], NoScore},
               \/ UNCHANGED <<wpc, wrun>>
               \/ wpc' \notin Unscored
               \/ UNCHANGED wrun /\ wpc \in Unscored \cup {"setRunning"}
        PROVE  UnscoredInv'
    <3>1. wpc = "setRunning" => runs[wrun] \in {"queued", "deleted"}
      BY DEF StageInv
    <3>2. wpc \in Unscored \cup {"setRunning"} => agg[wrun] = NoScore
      BY <2>2, <2>3, <3>1 DEF UnscoredInv, Unscored
    <3>3. \A r \in Run : agg[r] = NoScore => agg'[r] = NoScore
      BY <2>4
    <3>4. wpc' \in Unscored => agg'[wrun'] = NoScore
      BY <2>3, <2>4, <3>2, <3>3
    <3>5. \A r \in Run : runs'[r] = "queued" => agg'[r] = NoScore
      BY <2>1, <2>2, <3>3
    <3> QED BY <3>4, <3>5 DEF UnscoredInv, Unscored
  <2>5. ASSUME NEW c \in Client, Request(c), UNCHANGED workerVars PROVE UnscoredInv'
    BY <2>4, <2>5, RequestKeepsTables DEF dbVars, boardVars, workerVars
  <2>6. ASSUME NEW c \in Client, Continue(c), UNCHANGED workerVars PROVE UnscoredInv'
    <3>1. UNCHANGED agg \/ DeleteRow(c)
      BY <2>6 DEF Continue, CreateInsert, DeleteRowFails, RemoveFiles, InsertRun, InsertRunFails,
                  Enqueue, dbVars, boardVars
    <3>2. ASSUME DeleteRow(c) PROVE \A r \in Run : agg'[r] \in {agg[r], NoScore}
      BY <3>2 DEF DeleteRow, DeleteSubRow
    <3> QED BY <2>4, <2>6, <3>1, <3>2 DEF workerVars
  <2>7. CASE Aggregate
    <3>1. wpc = "aggregate" /\ wpc' \notin Unscored /\ wrun \in Run
      BY <2>3, <2>7 DEF Aggregate, WorkerAt, WorkerGoto, Unscored, Preparing
    <3>2. runs[wrun] \in {"running", "deleted"}
      BY <3>1 DEF StageInv, Holding
    <3>3. UNCHANGED runs /\ \A r \in Run : r # wrun => agg'[r] = agg[r]
      BY <2>7 DEF Aggregate, TypeOK, StateTypeOK
    <3> QED BY <3>1, <3>2, <3>3 DEF UnscoredInv, Unscored
  <2>8. ASSUME Work, ~Aggregate PROVE UnscoredInv'
    <3> USE DEF WorkerAt, WorkerGoto, Release, Unscored, Preparing, dbVars, boardVars
    <3>1. UNCHANGED agg
      BY <2>8
      DEF Work, CheckContext, Dequeue, DequeueLost, DequeueEmpty, Load, SetRunning, SetBuilding,
          Build, Launch, WaitForHealthy, SetSubRunning, StartFleet, Bench, Upsert, TearDownDone,
          CompleteRun, CompleteSub, TearDownFailed, FailRun, FailSub, DeadLetter
    <3>2. \/ wpc' \notin Unscored
          \/ UNCHANGED wrun /\ wpc \in Unscored \cup {"setRunning"}
      BY <2>8
      DEF Work, CheckContext, Dequeue, DequeueLost, DequeueEmpty, Load, SetRunning, SetBuilding,
          Build, Launch, WaitForHealthy, SetSubRunning, StartFleet, Bench, Upsert, TearDownDone,
          CompleteRun, CompleteSub, TearDownFailed, FailRun, FailSub, DeadLetter
    <3> QED BY <2>4, <3>1, <3>2
  <2>9. CASE Process
    <3>1. UNCHANGED agg /\ (wpc' \notin Unscored \/ UNCHANGED <<wpc, wrun>>)
      BY <2>9 DEF Process, Crash, Exit, Die, Shutdown, Restart, dbVars, boardVars, workerVars,
                  Unscored, Preparing
    <3> QED BY <2>4, <3>1
  <2>10. CASE UNCHANGED vars
    BY <2>4, <2>10 DEF vars, dbVars, boardVars, workerVars
  <2> QED BY <2>5, <2>6, <2>7, <2>8, <2>9, <2>10 DEF Next
<1> QED BY <1>1, <1>2, TypeCorrect, KnownRuns, ReferencesHold, OnePlace, StagesHold, PTL DEF Spec

LEMMA ContinueKeepsBest ==
  ASSUME TypeOK, KnownInv, ReferenceInv, BoardIsBest,
         NEW c \in Client, Continue(c), UNCHANGED workerVars
  PROVE  BoardIsBest'
<1> USE Hands DEF At, boardVars, workerVars, TypeOK, StateTypeOK
<1>1. CASE UNCHANGED <<runSub, boardVars>>
  BY <1>1 DEF BoardIsBest
<1>2. CASE DeleteRow(c)
  <2>1. hsub[c] \in Sub /\ DeleteSubRow(hsub[c])
    BY <1>2 DEF DeleteRow
  <2>2. ASSUME NEW s \in Sub, boardRun'[s] # NoRun PROVE boardScore'[s] = agg'[boardRun'[s]]
    <3>1. s # hsub[c] /\ boardRun'[s] = boardRun[s] /\ boardScore'[s] = boardScore[s]
      BY <2>1, <2>2, RowDeleted
    <3>2. boardRun[s] \in Run /\ runSub[boardRun[s]] = s
      BY <2>2, <3>1 DEF ReferenceInv, BoardBacked
    <3> QED BY <2>1, <2>2, <3>1, <3>2, RowDeleted DEF BoardIsBest
  <2>3. ASSUME NEW s \in Sub, NEW r \in Run, runSub'[r] = s, agg'[r] > boardScore'[s]
        PROVE  r = wrun /\ wpc = "upsert"
    <3>1. s # hsub[c]
      BY <2>1, <2>3, RowDeleted DEF NoScore
    <3> QED BY <2>1, <2>3, <3>1, RowDeleted DEF BoardIsBest
  <2> QED BY <2>2, <2>3 DEF BoardIsBest
<1>3. ASSUME NEW q \in Run, InsertRun(c, q) PROVE BoardIsBest'
  <2>1. hsub[c] \in Sub /\ ~RunExists(q) /\ UNCHANGED <<agg, boardRun, boardScore>>
        /\ runSub' = [runSub EXCEPT ![q] = hsub[c]]
    BY <1>3 DEF InsertRun, RunExists, RunStatus
  <2>2. agg[q] = NoScore
    BY <2>1 DEF ReferenceInv
  <2>3. \A s \in Sub : ~(agg[q] > boardScore[s])
    BY <2>2, PlatformAssumption DEF NoScore, Score
  <2> QED BY <2>1, <2>3 DEF BoardIsBest
<1> QED
  BY <1>1, <1>2, <1>3
  DEF Continue, CreateInsert, DeleteRowFails, RemoveFiles, InsertRunFails, Enqueue, dbVars

LEMMA WorkKeepsBest ==
  ASSUME Undisturbed, proc = "up", TypeOK, KnownInv, ReferenceInv, UnscoredInv, BoardIsBest, Work
  PROVE  BoardIsBest'
<1> USE DEF TypeOK, StateTypeOK, WorkerAt, WorkerGoto, Release, dbVars, boardVars
<1>1. StatementFails = FALSE /\ Live = TRUE
  BY DEF StatementFails, Live, Undisturbed
<1>2. CASE Aggregate
  <2>1. wrun \in Run /\ wpc = "aggregate" /\ agg[wrun] = NoScore
        /\ UNCHANGED <<runSub, boardRun, boardScore, wrun>>
    BY <1>2, Hands DEF Aggregate, UnscoredInv, Free
  <2>2. UNCHANGED agg \/ wpc' = "upsert"
    BY <1>1, <1>2 DEF Aggregate, Undisturbed
  <2>3. \A r \in Run : r # wrun => agg'[r] = agg[r]
    BY <1>2 DEF Aggregate
  <2>4. ASSUME NEW s \in Sub, boardRun[s] # NoRun PROVE boardRun[s] \in Run /\ boardRun[s] # wrun
    BY <2>1, <2>4 DEF ReferenceInv, BoardBacked
  <2> QED BY <2>1, <2>2, <2>3, <2>4 DEF BoardIsBest
<1>3. CASE Upsert
  <2>1. wrun \in Run /\ wpc = "upsert" /\ UNCHANGED <<runSub, agg>>
    BY <1>3, Hands DEF Upsert, Free
  <2>2. CASE ~RunExists(wrun) /\ UNCHANGED <<boardRun, boardScore>>
    <3>1. agg[wrun] = NoScore
      BY <2>1, <2>2 DEF ReferenceInv
    <3>2. \A s \in Sub : ~(agg[wrun] > boardScore[s])
      BY <3>1, PlatformAssumption DEF NoScore, Score
    <3> QED BY <2>1, <2>2, <3>2 DEF BoardIsBest
  <2>3. ASSUME RunExists(wrun), NEW t \in Sub, t = runSub[wrun],
               IF agg[wrun] >= boardScore[t]
               THEN /\ boardRun' = [boardRun EXCEPT ![t] = wrun]
                    /\ boardScore' = [boardScore EXCEPT ![t] = agg[wrun]]
               ELSE UNCHANGED <<boardRun, boardScore>>
        PROVE  BoardIsBest'
    <3>1. agg \in [Run -> Int] /\ boardScore \in [Sub -> Int]
      BY PlatformAssumption DEF NoScore, Score
    <3>2. CASE agg[wrun] >= boardScore[t]
      <4>1. \A s \in Sub : /\ boardRun'[s] = IF s = t THEN wrun ELSE boardRun[s]
                           /\ boardScore'[s] = IF s = t THEN agg[wrun] ELSE boardScore[s]
        BY <2>3, <3>2
      <4>2. ASSUME NEW s \in Sub, NEW r \in Run, runSub[r] = s, agg[r] > boardScore'[s]
            PROVE  FALSE
        BY <2>1, <2>3, <3>1, <3>2, <4>1, <4>2 DEF BoardIsBest
      <4> QED BY <2>1, <4>1, <4>2 DEF BoardIsBest
    <3>3. CASE ~(agg[wrun] >= boardScore[t])
      BY <2>1, <2>3, <3>1, <3>3 DEF BoardIsBest
    <3> QED BY <3>2, <3>3
  <2>4. RunExists(wrun) => runSub[wrun] \in Sub
    BY <2>1 DEF RunExists, RunStatus
  <2> QED BY <1>1, <1>3, <2>2, <2>3, <2>4 DEF Upsert
<1>4. CASE UNCHANGED boardVars /\ wpc # "upsert"
  BY <1>4, WorkKeepsRuns DEF BoardIsBest
<1> QED
  BY <1>2, <1>3, <1>4
  DEF Work, CheckContext, Dequeue, DequeueLost, DequeueEmpty, Load, SetRunning, SetBuilding,
      Build, Launch, WaitForHealthy, SetSubRunning, StartFleet, Bench, TearDownDone,
      CompleteRun, CompleteSub, TearDownFailed, FailRun, FailSub, DeadLetter

\* When Postgres answers and the process is not stopped, the leaderboard shows
\* each submission's best run, whatever runs and deletions are interleaved.
THEOREM BoardShowsBest ==
  ASSUME Undisturbed
  PROVE  Spec => []BoardIsBest
<1>1. Init => BoardIsBest
  BY DEF Init, StateInit, BoardIsBest, NoScore
<1>2. TypeOK /\ KnownInv /\ ReferenceInv /\ UnscoredInv /\ SteadyInv /\ BoardIsBest /\ [Next]_vars
        => BoardIsBest'
  <2> SUFFICES ASSUME TypeOK, KnownInv, ReferenceInv, UnscoredInv, SteadyInv, BoardIsBest, [Next]_vars
               PROVE  BoardIsBest'
    OBVIOUS
  <2>1. proc = "up" /\ ~Process
    BY StaysUp DEF Undisturbed, SteadyInv
  <2>2. ASSUME NEW c \in Client, Request(c), UNCHANGED workerVars PROVE BoardIsBest'
    BY <2>2, RequestKeepsTables DEF dbVars, workerVars, BoardIsBest
  <2>3. CASE UNCHANGED vars
    BY <2>3 DEF vars, dbVars, workerVars, BoardIsBest
  <2> QED BY <2>1, <2>2, <2>3, ContinueKeepsBest, WorkKeepsBest DEF Next
<1>3. "retry" \notin Faults
  BY DEF Undisturbed
<1> QED
  BY <1>1, <1>2, <1>3, TypeCorrect, KnownRuns, ReferencesHold, UnscoredHolds, SteadyHolds, PTL
  DEF Spec

-----------------------------------------------------------------------------
(* Platform implements RunLedger                                              *)

\* What a run row's UPDATE is to the ledger.
LEMMA UpdateSeen ==
  ASSUME TypeOK, NEW r \in Run, NEW v, UpdateRunStatus(r, v)
  PROVE  runs' = IF RunExists(r) THEN [runs EXCEPT ![r] = v] ELSE runs
BY DEF UpdateRunStatus, TypeOK, StateTypeOK

\* A request accepts a run, withdraws a submission, or is not seen.
LEMMA ContinueKeepsLedger ==
  ASSUME TypeOK, KnownInv, ReferenceInv, CascadeInv, NEW c \in Client, Continue(c)
  PROVE  Ledger!Next \/ UNCHANGED Ledger!ledgerVars
<1> USE Hands DEF At, boardVars, Ledger!ledgerVars
<1>1. CASE UNCHANGED <<runs, runSub, boardScore>>
  BY <1>1
<1>2. CASE DeleteRow(c)
  <2>1. hsub[c] \in Sub /\ DeleteSubRow(hsub[c])
    BY <1>2 DEF DeleteRow
  <2>2. \A r \in Run : runSub[r] = hsub[c] /\ ~RunExists(r) => runs[r] = "deleted"
    BY <2>1, PlatformAssumption DEF CascadeInv, RunExists, NoRow, TypeOK, StateTypeOK
  <2>3. runs' = [r \in Run |-> IF runSub[r] = hsub[c] THEN "deleted" ELSE runs[r]]
    BY <2>1, <2>2 DEF DeleteSubRow
  <2>4. Ledger!Withdraw(hsub[c])
    BY <2>1, <2>3 DEF DeleteSubRow, Ledger!Withdraw, NoScore
  <2> QED BY <2>1, <2>4 DEF Ledger!Next
<1>3. ASSUME NEW r \in Run, InsertRun(c, r) PROVE Ledger!Next
  <2>1. hsub[c] \in Sub /\ Ledger!Accept(r, hsub[c])
    BY <1>3 DEF InsertRun, Ledger!Accept
  <2> QED BY <2>1 DEF Ledger!Next
<1> QED
  BY <1>1, <1>2, <1>3
  DEF Continue, CreateInsert, DeleteRowFails, RemoveFiles, InsertRunFails, Enqueue, dbVars

\* The worker begins, ranks or ends the run in its hands, or is not seen.
LEMMA WorkKeepsLedger ==
  ASSUME Undisturbed, TypeOK, KnownInv, ReferenceInv, StageInv, SteadyInv, Work
  PROVE  Ledger!Next \/ UNCHANGED Ledger!ledgerVars
<1> USE DEF WorkerAt, WorkerGoto, Release, dbVars, boardVars, Ledger!ledgerVars
<1>1. StatementFails = FALSE /\ Live = TRUE
  BY DEF StatementFails, Live, Undisturbed, SteadyInv
<1>2. CASE SetRunning
  <2>1. wrun \in Run /\ wpc = "setRunning" /\ UNCHANGED <<runSub, boardScore>>
    BY <1>2, Hands DEF SetRunning, Free
  <2>2. runs' = IF RunExists(wrun) THEN [runs EXCEPT ![wrun] = "running"] ELSE runs
    BY <1>1, <1>2, <2>1, UpdateSeen DEF SetRunning
  <2>3. RunExists(wrun) => runs[wrun] = "queued"
    BY <2>1 DEF StageInv, RunExists, RunStatus
  <2>4. \A q \in Run : runs[q] # "running"
    BY <2>1 DEF SteadyInv, StatusAgreement, Started, Preparing, Holding
  <2>5. CASE RunExists(wrun)
    BY <2>1, <2>2, <2>3, <2>4, <2>5 DEF Ledger!Next, Ledger!Begin
  <2> QED BY <2>1, <2>2, <2>5
<1>3. CASE CompleteRun \/ FailRun
  <2>1. wrun \in Run /\ wpc \in {"completeRun", "failRun"} /\ UNCHANGED <<runSub, boardScore>>
    BY <1>3, Hands DEF CompleteRun, FailRun, Free
  <2>2. RunExists(wrun) => runs[wrun] = "running"
    BY <2>1 DEF StageInv, SteadyInv, RunExists, RunStatus
  <2>3. ASSUME NEW v \in {"completed", "failed"}, UpdateRunStatus(wrun, v)
        PROVE  Ledger!Next \/ UNCHANGED Ledger!ledgerVars
    <3>1. runs' = IF RunExists(wrun) THEN [runs EXCEPT ![wrun] = v] ELSE runs
      BY <2>1, <2>3, UpdateSeen
    <3>2. CASE RunExists(wrun)
      BY <2>1, <2>2, <3>1, <3>2 DEF Ledger!Next, Ledger!End
    <3> QED BY <2>1, <3>1, <3>2
  <2> QED BY <1>1, <1>3, <2>3 DEF CompleteRun, FailRun
<1>4. CASE Upsert
  <2>1. wrun \in Run /\ wpc = "upsert" /\ UNCHANGED <<runs, runSub>>
    BY <1>4, Hands DEF Upsert, Free
  <2>2. ASSUME RunExists(wrun), NEW s \in Sub, s = runSub[wrun], agg[wrun] >= boardScore[s],
               boardScore' = [boardScore EXCEPT ![s] = agg[wrun]]
        PROVE  Ledger!Next \/ UNCHANGED Ledger!ledgerVars
    <3>1. runs[wrun] = "running"
      BY <2>1, <2>2 DEF StageInv, Holding, RunExists, RunStatus
    <3>2. agg[wrun] \in Score
      BY <2>1, <2>2 DEF ReferenceInv, TypeOK, StateTypeOK
    <3>3. CASE agg[wrun] = boardScore[s]
      <4>1. boardScore' = boardScore
        BY <2>2, <3>3 DEF TypeOK, StateTypeOK
      <4> QED BY <2>1, <4>1
    <3>4. CASE agg[wrun] # boardScore[s]
      <4>1. agg[wrun] > boardScore[s]
        BY <2>1, <2>2, <3>2, <3>4, PlatformAssumption DEF Score, NoScore, TypeOK, StateTypeOK
      <4>2. Ledger!Rank(wrun, agg[wrun])
        BY <2>1, <2>2, <3>1, <4>1 DEF Ledger!Rank
      <4> QED BY <2>1, <3>2, <4>2 DEF Ledger!Next, Score
    <3> QED BY <3>3, <3>4
  <2>3. RunExists(wrun) => runSub[wrun] \in Sub
    BY <2>1 DEF RunExists, RunStatus, TypeOK, StateTypeOK
  <2>4. CASE UNCHANGED boardScore
    BY <2>1, <2>4
  <2> QED BY <1>4, <2>2, <2>3, <2>4 DEF Upsert
<1>5. CASE UNCHANGED <<runs, runSub, boardScore>>
  BY <1>5
<1> QED
  BY <1>2, <1>3, <1>4, <1>5
  DEF Work, CheckContext, Dequeue, DequeueLost, DequeueEmpty, Load, SetBuilding, Build,
      Launch, WaitForHealthy, SetSubRunning, StartFleet, Bench, Aggregate, TearDownDone,
      CompleteSub, TearDownFailed, FailSub, DeadLetter

\* When Postgres answers and the process is not stopped, every step of the
\* control plane is one of RunLedger or is not seen there: runs are carried
\* out one at a time, at most once each, and end at most once; only the run in
\* progress raises a score, and only a deletion lowers it.
THEOREM ImplementsLedger ==
  ASSUME Undisturbed
  PROVE  Spec => KeepsLedger
<1>1. Init => Ledger!Init
  BY DEF Init, StateInit, Ledger!Init, NoScore
<1>2. TypeOK /\ KnownInv /\ ReferenceInv /\ CascadeInv /\ StageInv /\ SteadyInv /\ [Next]_vars
        => [Ledger!Next]_Ledger!ledgerVars
  <2> SUFFICES ASSUME TypeOK, KnownInv, ReferenceInv, CascadeInv, StageInv, SteadyInv, [Next]_vars
               PROVE  Ledger!Next \/ UNCHANGED Ledger!ledgerVars
    OBVIOUS
  <2>1. ~Process
    BY StaysUp DEF Undisturbed, SteadyInv
  <2>2. ASSUME NEW c \in Client, Request(c) PROVE UNCHANGED Ledger!ledgerVars
    BY <2>2, RequestKeepsTables DEF dbVars, Ledger!ledgerVars
  <2>3. CASE UNCHANGED vars
    BY <2>3 DEF vars, dbVars, Ledger!ledgerVars
  <2> QED BY <2>1, <2>2, <2>3, ContinueKeepsLedger, WorkKeepsLedger DEF Next
<1>3. "retry" \notin Faults
  BY DEF Undisturbed
<1> QED
  BY <1>1, <1>2, <1>3, TypeCorrect, KnownRuns, ReferencesHold, CascadeHolds, StagesHold,
     SteadyHolds, PTL DEF Spec, KeepsLedger, Ledger!Spec

-----------------------------------------------------------------------------
(* Queued runs                                                                *)

\* When Postgres and Redis answer, no client goes away and the process is not
\* stopped, a run that says "queued" is on its way to the worker, even if the
\* Redis client repeats a push.
THEOREM QueuedRunsAreHeld ==
  ASSUME Faults \cap {"db", "redis", "disconnect", "crash", "shutdown"} = {}
  PROVE  Spec => []QueuedIsHeld
<1> DEFINE Inv == proc = "up" /\ QueuedIsHeld
<1>1. Init => Inv
  BY DEF Init, StateInit, QueuedIsHeld
<1>2. TypeOK /\ KnownInv /\ Inv /\ [Next]_vars => Inv'
  <2> SUFFICES ASSUME TypeOK, KnownInv, proc = "up", QueuedIsHeld, [Next]_vars PROVE QueuedIsHeld'
    BY StaysUp
  <2>1. ~Process
    BY StaysUp
  <2>2. ~RequestFails /\ ~StatementFails
    BY DEF RequestFails, StatementFails
  <2>3. ASSUME \A r \in Run : runs'[r] = "queued" => runs[r] = "queued",
               UNCHANGED <<wpc, wrun>>, Queued \cup HeldByRequests \subseteq Queued' \cup HeldByRequests'
        PROVE  QueuedIsHeld'
    BY <2>3 DEF QueuedIsHeld
  <2>4. ASSUME NEW c \in Client, Request(c), UNCHANGED workerVars PROVE QueuedIsHeld'
    <3>1. UNCHANGED <<runs, queue, hrun>>
      BY <2>4, RequestKeepsTables DEF dbVars, queueVars
    <3>2. \A d \in Client : hpc[d] = "enqueue" => hpc'[d] = "enqueue"
      BY <2>4 DEF Request, CreateStage, CreateStageFails, DeleteRead, TriggerRead, Begin,
                  apiVars, TypeOK, ApiTypeOK
    <3> QED BY <2>3, <2>4, <3>1, <3>2 DEF HeldByRequests, Queued, workerVars
  <2>5. ASSUME NEW c \in Client, Continue(c), UNCHANGED workerVars PROVE QueuedIsHeld'
    <3> USE DEF Answer, Goto, At, dbVars, queueVars, workerVars, TypeOK, ApiTypeOK
    <3>1. CASE CreateInsert(c) \/ DeleteRowFails(c) \/ RemoveFiles(c) \/ InsertRunFails(c)
      <4>1. UNCHANGED <<runs, queue>> /\ \A d \in Client : hpc[d] = "enqueue" =>
              hpc'[d] = "enqueue" /\ hrun'[d] = hrun[d]
        BY <3>1 DEF CreateInsert, DeleteRowFails, RemoveFiles, InsertRunFails
      <4> QED BY <2>3, <2>5, <4>1 DEF HeldByRequests, Queued
    <3>2. CASE DeleteRow(c)
      <4>1. UNCHANGED queue /\ \A d \in Client : hpc[d] = "enqueue" =>
              hpc'[d] = "enqueue" /\ hrun'[d] = hrun[d]
        BY <3>2 DEF DeleteRow
      <4>2. \A r \in Run : runs'[r] = "queued" => runs[r] = "queued"
        BY <3>2 DEF DeleteRow, DeleteSubRow
      <4> QED BY <2>3, <2>5, <4>1, <4>2 DEF HeldByRequests, Queued
    <3>3. ASSUME NEW q \in Run, InsertRun(c, q) PROVE QueuedIsHeld'
      <4>1. UNCHANGED queue /\ hpc'[c] = "enqueue" /\ hrun'[c] = q
            /\ \A d \in Client : hpc[d] = "enqueue" => hpc'[d] = "enqueue" /\ hrun'[d] = hrun[d]
        BY <2>2, <3>3 DEF InsertRun
      <4>2. \A r \in Run : runs'[r] = "queued" => runs[r] = "queued" \/ r = q
        BY <3>3 DEF InsertRun, StateTypeOK
      <4>3. Queued' = Queued /\ HeldByRequests \cup {q} \subseteq HeldByRequests'
        BY <4>1 DEF Queued, HeldByRequests
      <4> QED BY <2>5, <4>2, <4>3 DEF QueuedIsHeld
    <3>4. CASE Enqueue(c)
      <4>1. hrun[c] \in Run /\ UNCHANGED runs
        BY <3>4 DEF Enqueue, RequestHandsOK
      <4>2. Queued' = Queued \cup {hrun[c]}
        <5>1. CASE queue' = Append(queue, hrun[c])
          BY <4>1, <5>1, QueuedAppend DEF QueueTypeOK
        <5>2. CASE queue' = Append(Append(queue, hrun[c]), hrun[c])
          BY <4>1, <5>2, TwiceAppended DEF QueueTypeOK
        <5> QED BY <3>4, <5>1, <5>2 DEF Enqueue, EnqueueRun, LPush
      <4>3. \A d \in Client : d # c => hpc'[d] = hpc[d] /\ hrun'[d] = hrun[d]
        BY <3>4 DEF Enqueue
      <4>4. HeldByRequests \subseteq HeldByRequests' \cup {hrun[c]}
        BY <4>3 DEF HeldByRequests
      <4> QED BY <2>3, <2>5, <4>1, <4>2, <4>4
    <3> QED BY <2>5, <3>1, <3>2, <3>3, <3>4 DEF Continue
  <2>6. ASSUME Work, UNCHANGED apiVars PROVE QueuedIsHeld'
    <3> USE DEF WorkerAt, WorkerGoto, Release, dbVars, queueVars
    <3>1. HeldByRequests' = HeldByRequests
      BY <2>6 DEF HeldByRequests, apiVars
    <3>2. CASE Dequeue
      <4>1. queue # <<>> /\ queue' = Tail(queue) /\ wrun' = Head(queue) /\ wpc' = "load"
            /\ UNCHANGED runs /\ wpc = "brpop"
        BY <3>2 DEF Dequeue, BRPop
      <4>2. Queued = Queued' \cup {Head(queue)}
        BY <4>1, QueuedTail DEF TypeOK
      <4> QED BY <3>1, <4>1, <4>2 DEF QueuedIsHeld
    <3>3. CASE SetRunning
      <4>1. wrun \in Run /\ UNCHANGED <<wrun, queue>>
        BY <3>3, Hands DEF SetRunning, Free
      <4>2. runs' = IF RunExists(wrun) THEN [runs EXCEPT ![wrun] = "running"] ELSE runs
        BY <2>2, <3>3, <4>1, UpdateSeen DEF SetRunning
      <4>3. \A r \in Run : runs'[r] = "queued" => runs[r] = "queued" /\ r # wrun
        BY <4>1, <4>2 DEF RunExists, RunStatus, TypeOK, StateTypeOK
      <4> QED BY <3>1, <4>1, <4>3 DEF QueuedIsHeld, Queued
    <3>4. CASE Load
      <4>1. UNCHANGED <<runs, queue, wrun>> /\ wpc = "load"
            /\ (wpc' = "setRunning" \/ ~RunExists(wrun))
        BY <2>2, <3>4 DEF Load
      <4> QED BY <3>1, <4>1 DEF QueuedIsHeld, Queued, RunExists, RunStatus
    <3>5. CASE CompleteRun \/ FailRun
      <4>1. wrun \in Run /\ UNCHANGED <<wrun, queue>> /\ wpc \notin {"load", "setRunning"}
        BY <3>5, Hands DEF CompleteRun, FailRun, Free
      <4>2. \A r \in Run : runs'[r] = "queued" => runs[r] = "queued"
        BY <3>5 DEF CompleteRun, FailRun, UpdateRunStatus, TypeOK, StateTypeOK
      <4> QED BY <3>1, <4>1, <4>2 DEF QueuedIsHeld, Queued
    <3>6. CASE UNCHANGED <<runs, queue>> /\ wpc \notin {"load", "setRunning"}
      BY <3>1, <3>6 DEF QueuedIsHeld, Queued
    <3>7. ~DequeueLost
      BY DEF DequeueLost
    <3> QED
      BY <2>6, <3>2, <3>3, <3>4, <3>5, <3>6, <3>7
      DEF Work, CheckContext, DequeueEmpty, SetBuilding, Build, Launch, WaitForHealthy,
          SetSubRunning, StartFleet, Bench, Aggregate, Upsert, TearDownDone, CompleteSub,
          TearDownFailed, FailSub, DeadLetter, MoveToDeadLetter
  <2>7. CASE UNCHANGED vars
    BY <2>7 DEF vars, dbVars, queueVars, apiVars, workerVars, QueuedIsHeld, Queued, HeldByRequests
  <2> QED BY <2>1, <2>4, <2>5, <2>6, <2>7 DEF Next
<1>3. Inv => QueuedIsHeld
  OBVIOUS
<1> QED BY <1>1, <1>2, <1>3, TypeCorrect, KnownRuns, PTL DEF Spec

=============================================================================

------------------------------- MODULE Platform -------------------------------
(* The control plane: any number of requests and the one worker over the      *)
(* shared state, and the life of the process that runs them                   *)
(* (backend/cmd/main.go; docker-compose.yml restarts it).                     *)
EXTENDS SubmissionAPI, BenchmarkWorker

vars == <<dbVars, queueVars, staged, containers, proc, apiVars, workerVars>>

Init ==
  /\ StateInit
  /\ QueueInit
  /\ ApiInit
  /\ WorkerInit

-----------------------------------------------------------------------------
(* The process                                                                *)

\* What the process holds in memory is lost; tables, lists, files and
\* containers are outside it and stay.
Die ==
  /\ proc' = "down"
  /\ wpc' = "off" /\ wrun' = NoRun /\ wsub' = NoSub
  /\ hpc' = [c \in Client |-> "idle"]
  /\ hsub' = [c \in Client |-> NoSub]
  /\ hrun' = [c \in Client |-> NoRun]
  /\ UNCHANGED <<dbVars, queueVars, staged, containers>>

Crash ==
  /\ "crash" \in Faults
  /\ proc # "down"
  /\ Die

\* SIGTERM: workerCancel(), before anything else.
Shutdown ==
  /\ "shutdown" \in Faults
  /\ proc = "up"
  /\ proc' = "stopping"
  /\ UNCHANGED <<dbVars, queueVars, staged, containers, apiVars, workerVars>>

\* srv.Shutdown waits for the requests for thirty seconds at most, and main
\* returns; it does not wait for the worker.
Exit ==
  /\ proc = "stopping"
  /\ Die

\* main starts the worker's loop and the server; nothing is recovered.
Restart ==
  /\ proc = "down"
  /\ proc' = "up"
  /\ wpc' = "loop"
  /\ UNCHANGED <<dbVars, queueVars, staged, containers, apiVars, wrun, wsub>>

Process == Crash \/ Shutdown \/ Exit \/ Restart

-----------------------------------------------------------------------------
Next ==
  \/ \E c \in Client : (Request(c) \/ Continue(c)) /\ UNCHANGED workerVars
  \/ Work /\ UNCHANGED apiVars
  \/ Process

Spec == Init /\ [][Next]_vars

\* The Go scheduler runs every goroutine that can run, calls to the services
\* return (they have time-outs), and Docker restarts the backend.  Nothing
\* obliges a client to send a request or a fault to happen.
Fairness ==
  /\ \A c \in Client : WF_vars(Continue(c) /\ UNCHANGED workerVars)
  /\ WF_vars(Work /\ UNCHANGED apiVars)
  /\ WF_vars(Exit)
  /\ WF_vars(Restart)

FairSpec == Spec /\ Fairness

-----------------------------------------------------------------------------
(* Types.  A step that works on a submission or a run has one in hand.        *)

RequestHandsOK == \A c \in Client :
  /\ (hsub[c] = NoSub) = (hpc[c] = "idle")
  /\ (hrun[c] = NoRun) = (hpc[c] # "enqueue")

WorkerHandsOK ==
  /\ (wrun = NoRun) = (wpc \in Free)
  /\ wpc \in Preparing \cup Holding \cup Closing => wsub \in Sub
  /\ wpc \in Free \cup Loading => wsub = NoSub
  /\ (wpc = "off") = (proc = "down")

\* Every variable keeps its type, and the worker and the requests never reach
\* a step without the run and the submission the step uses.
TypeOK ==
  /\ StateTypeOK
  /\ QueueTypeOK
  /\ ApiTypeOK /\ RequestHandsOK
  /\ WorkerTypeOK /\ WorkerHandsOK

-----------------------------------------------------------------------------
(* Safety, whatever the environment does                                      *)

\* Create stages the files before the row and Delete drops the row before the
\* files, so that a submission anyone can see or benchmark has its files, in
\* every interleaving and after every failure or crash between the two.
StagedBeforeRow == \A s \in Sub : SubExists(s) => s \in staged

\* A leaderboard row stands for a submission that exists and is backed by an
\* existing run of that very submission, with its aggregate, even when the
\* submission is deleted while its run is being scored.
BoardBacked == \A s \in Sub :
  /\ (boardRun[s] = NoRun) = (boardScore[s] = NoScore)
  /\ boardRun[s] # NoRun =>
       /\ SubExists(s)
       /\ RunExists(boardRun[s])
       /\ runSub[boardRun[s]] = s
       /\ agg[boardRun[s]] # NoScore

-----------------------------------------------------------------------------
(* The inductive invariants the theorems of PlatformProofs rest on.           *)

\* What the requests in progress know of the submission they work on: its
\* files are staged and its row is still to come, once; or its row was there,
\* and is gone when the files are removed.
StagedInv ==
  /\ StagedBeforeRow
  /\ \A c \in Client : hpc[c] = "insertSub" => hsub[c] \in staged /\ subs[hsub[c]] = "absent"
  /\ \A c, d \in Client :
       hpc[c] = "insertSub" /\ hpc[d] = "insertSub" /\ hsub[c] = hsub[d] => c = d
  /\ \A c \in Client : hpc[c] = "deleteRow" => subs[hsub[c]] # "absent"
  /\ \A c \in Client : hpc[c] = "removeFiles" => subs[hsub[c]] = "deleted"

\* The foreign keys: a run has its submission, an aggregate its run, and the
\* upsert that comes next finds an aggregate or no run.
ReferenceInv ==
  /\ BoardBacked
  /\ \A r \in Run : RunExists(r) => SubExists(runSub[r])
  /\ \A r \in Run : agg[r] # NoScore => RunExists(r)
  /\ wpc = "upsert" /\ RunExists(wrun) => agg[wrun] # NoScore

HeldByRequests == {hrun[c] : c \in {d \in Client : hpc[d] = "enqueue"}}
HeldByWorker == {wrun} \ {NoRun}
Places == Queued \cup HeldByRequests \cup HeldByWorker \cup deadLetter

\* A run id is anywhere only after its row was inserted.
KnownInv == \A r \in Places : runs[r] # "absent"

\* The foreign keys' other half: a run is deleted with its submission alone, a
\* fresh id names none, and the worker has loaded its run's own submission.
CascadeInv ==
  /\ \A r \in Run : runs[r] = "deleted" => subs[runSub[r]] = "deleted"
  /\ \A r \in Run : runs[r] = "absent" => runSub[r] = NoSub
  /\ wsub # NoSub => wrun # NoRun /\ runSub[wrun] = wsub

\* A run that is not retried has no aggregate before it is scored: the first
\* one it gets is the one the upsert compares.
UnscoredInv ==
  /\ \A r \in Run : runs[r] = "queued" => agg[r] = NoScore
  /\ wpc \in (Preparing \ {"setRunning"}) \cup
             {"health", "setSubRunning", "startFleet", "bench", "aggregate"} =>
       agg[wrun] = NoScore

-----------------------------------------------------------------------------
(* Safety when the Redis client does not repeat a push                        *)

\* A run is in one place: on the queue once, or with the request that is about
\* to push it, or with the worker, or in the dead letters.  This is what makes
\* the worker's pipeline run at most once per run, for its UPDATEs test no
\* status.
Custody ==
  /\ \A i, j \in 1 .. Len(queue) : queue[i] = queue[j] => i = j
  /\ \A c, d \in Client : hpc[c] = "enqueue" /\ hpc[d] = "enqueue" /\ hrun[c] = hrun[d] => c = d
  /\ HeldByRequests \cap Queued = {}
  /\ HeldByWorker \cap (Queued \cup HeldByRequests) = {}
  /\ deadLetter \cap (Queued \cup HeldByRequests \cup HeldByWorker) = {}

\* A run that has ended never changes again except by deletion, and a run that
\* has begun never goes back to the queue, although no UPDATE tests the status.
RunsNeverReopen == [][\A r \in Run :
  /\ runs[r] \in Terminal => runs'[r] \in {runs[r], "deleted"}
  /\ runs[r] = "running" => runs'[r] # "queued"
  /\ runs[r] = "deleted" => runs'[r] = "deleted"]_vars

\* Where a run is tells what its row may say.  (Inductive with Custody.)
StageInv ==
  /\ \A r \in Queued \cup HeldByRequests : runs[r] \in {"queued", "deleted"}
  /\ wpc \in {"load", "setRunning"} => runs[wrun] \in {"queued", "deleted"}
  /\ wpc \in (Preparing \ {"setRunning"}) \cup Holding \cup {"completeRun"} =>
       runs[wrun] \in {"running", "deleted"}
  /\ wpc = "failRun" => runs[wrun] \in {"queued", "running", "deleted"}

-----------------------------------------------------------------------------
(* Safety when Postgres answers and the process is not stopped                *)

Started == (Preparing \ {"setRunning"}) \cup Holding \cup {"completeRun", "failRun"}
Built == {"build", "launch", "health", "setSubRunning", "failTearDown", "failRun", "failSub"}
Measured == {"startFleet", "bench", "aggregate", "upsert", "teardown", "completeRun",
             "completeSub", "failTearDown", "failRun", "failSub"}

\* The statuses in the tables say what the worker is doing: a row that says
\* "running" or "building" is the worker's current one, and while the engine
\* is measured both rows say "running", unless they have been deleted.
StatusAgreement ==
  /\ \A r \in Run : runs[r] = "running" => r = wrun /\ wpc \in Started
  /\ \A s \in Sub : subs[s] = "building" => s = wsub /\ wpc \in Built
  /\ \A s \in Sub : subs[s] = "running" => s = wsub /\ wpc \in Measured
  /\ wpc \in {"bench", "aggregate", "upsert", "teardown"} =>
       /\ runs[wrun] \in {"running", "deleted"}
       /\ subs[wsub] \in {"running", "deleted"}

\* The leaderboard shows a submission's best run: no aggregated run of it has
\* a better score, except the one whose upsert is next.
BoardIsBest == \A s \in Sub :
  /\ boardRun[s] # NoRun => boardScore[s] = agg[boardRun[s]]
  /\ \A r \in Run :
       runSub[r] = s /\ agg[r] > boardScore[s] => r = wrun /\ wpc = "upsert"

\* The control plane keeps the promise of RunLedger.
Ledger == INSTANCE RunLedger WITH ledger <- runs, owner <- runSub, best <- boardScore

KeepsLedger == Ledger!Spec
KeepsLedgerFairly == Ledger!FairSpec

-----------------------------------------------------------------------------
(* Containers                                                                 *)

\* The containers that exist and that the worker does not hold: nobody will
\* ever remove them, and their names are taken.
Abandoned == containers \ (IF wpc \in Holding THEN {wsub} ELSE {})

\* Every way out of the pipeline, failed, scored or unscored, tears its
\* container down.  A container is left behind only when Docker fails at the
\* launch or at the tear-down, when the process begins to stop before it is
\* torn down, or when the process dies.
NoneLeftBehind == [][
  \/ Abandoned' \subseteq Abandoned
  \/ DockerFails /\ wpc \in {"launch", "teardown", "failTearDown"}
  \/ proc = "stopping" /\ wpc = "bench"
  \/ proc' = "down"]_vars

\* When Docker answers and the process is not stopped, the containers that
\* exist are exactly the one the worker holds.
ContainersOwned == containers = IF wpc \in Holding THEN {wsub} ELSE {}

-----------------------------------------------------------------------------
(* Progress, when Postgres and Redis answer and the process is not stopped    *)

\* A run that says "queued" is on its way to the worker.
QueuedIsHeld == \A r \in Run : runs[r] = "queued" =>
  \/ r \in Queued \cup HeldByRequests
  \/ r = wrun /\ wpc \in {"load", "setRunning"}

\* Every accepted run ends, whatever the engines under test do.
RunsEnd == \A r \in Run : (runs[r] = "queued") ~> (runs[r] \in Terminal \cup {"deleted"})

\* No submission stays "building" or "running".
SubmissionsSettle == \A s \in Sub :
  (subs[s] \in {"building", "running"}) ~> (subs[s] \in {"completed", "failed", "deleted"})

-----------------------------------------------------------------------------
(* What comments of the code say and the code does not do                     *)

\* submission_handler.go:257: "Prevent deletion while a benchmark is active".
NoDeleteWhileActive == [][\A s \in Sub :
  wpc = "bench" /\ wsub = s /\ SubExists(s) => subs'[s] # "deleted"]_vars

\* benchmark_worker.go:271, on why failRun flips the submission: "Without this
\* the submission stays stuck in 'building' forever."
NotStuckInBuilding == \A s \in Sub : (subs[s] = "building") ~> (subs[s] # "building")

=============================================================================

---------------------------- MODULE PlatformState ----------------------------
(* The state the backend shares between its HTTP handlers, the benchmark      *)
(* worker and the services they call: the Postgres tables, the files staged   *)
(* on disk, the containers Docker holds and the state of the process.         *)
(*                                                                            *)
(* Every table is a function from the identifiers that may ever be drawn      *)
(* (fresh UUIDs in the code) to the columns the properties tell apart.  An    *)
(* identifier that has never been inserted is "absent", a deleted row is      *)
(* "deleted": the two behave alike for SQL and differ only in that a fresh    *)
(* identifier is never one that was used before.                              *)
EXTENDS Naturals, Integers, Sequences, FiniteSets

CONSTANTS
  Sub,       \* identifiers of submissions
  Run,       \* identifiers of benchmark runs
  Client,    \* HTTP requests the server can have in progress at once
  NoSub,     \* no submission
  NoRun,     \* no run
  MaxScore,  \* composite scores are 0 .. MaxScore
  Faults     \* what the environment of this instance may do wrong

(* db: a statement fails, before or after it took effect.  redis: a Redis     *)
(* call fails, a popped element may be lost with the reply.  retry: the Redis *)
(* client repeats an LPUSH whose first answer it lost.  docker: a call to the *)
(* Docker daemon fails.  disk: a file operation fails.  disconnect: a client  *)
(* goes away and its request's context is cancelled.  crash: the process is   *)
(* killed.  shutdown: it receives SIGTERM.                                    *)
FaultKinds == {"db", "redis", "retry", "docker", "disk", "disconnect", "crash", "shutdown"}

ASSUME PlatformAssumption ==
  /\ NoSub \notin Sub
  /\ NoRun \notin Run
  /\ MaxScore \in Nat
  /\ Faults \subseteq FaultKinds

VARIABLES
  subs,        \* submissions.status
  runs,        \* benchmark_runs.status
  runSub,      \* benchmark_runs.submission_id
  agg,         \* metric_aggregates: the composite score its columns give
  boardRun,    \* leaderboard.run_id
  boardScore,  \* leaderboard.composite_score
  staged,      \* submissions with a directory under SubmissionsDir
  containers,  \* submissions whose container name exists in Docker
  proc         \* the backend process

dbVars == <<subs, runs, runSub, agg, boardRun, boardScore>>
boardVars == <<agg, boardRun, boardScore>>

SubStatus == {"pending", "building", "ready", "running", "completed", "failed"}
\* There is a timed_out, too (models/benchmark.go:13), which nothing writes.
RunStatus == {"queued", "running", "completed", "failed"}
NoRow == {"absent", "deleted"}
Terminal == {"completed", "failed"}

NoScore == -1
Score == 0 .. MaxScore

StateTypeOK ==
  /\ subs \in [Sub -> SubStatus \cup NoRow]
  /\ runs \in [Run -> RunStatus \cup NoRow]
  /\ runSub \in [Run -> Sub \cup {NoSub}]
  /\ \A r \in Run : runs[r] # "absent" => runSub[r] \in Sub
  /\ agg \in [Run -> Score \cup {NoScore}]
  /\ boardRun \in [Sub -> Run \cup {NoRun}]
  /\ boardScore \in [Sub -> Score \cup {NoScore}]
  /\ staged \subseteq Sub
  /\ containers \subseteq Sub
  /\ proc \in {"up", "stopping", "down"}

StateInit ==
  /\ subs = [s \in Sub |-> "absent"]
  /\ runs = [r \in Run |-> "absent"]
  /\ runSub = [r \in Run |-> NoSub]
  /\ agg = [r \in Run |-> NoScore]
  /\ boardRun = [s \in Sub |-> NoRun]
  /\ boardScore = [s \in Sub |-> NoScore]
  /\ staged = {}
  /\ containers = {}
  /\ proc = "up"

-----------------------------------------------------------------------------
(* The tables                                                                 *)

SubExists(s) == subs[s] \in SubStatus
RunExists(r) == runs[r] \in RunStatus

\* UPDATE submissions SET status = v WHERE id = s: no row, no effect, no error.
UpdateSubStatus(s, v) ==
  subs' = [subs EXCEPT ![s] = IF SubExists(s) THEN v ELSE @]

\* UPDATE benchmark_runs SET status = v WHERE id = r.
UpdateRunStatus(r, v) ==
  runs' = [runs EXCEPT ![r] = IF RunExists(r) THEN v ELSE @]

\* Mutant: the leaderboard's foreign keys do not cascade.
DeleteSubRowKeepsBoard(s) ==
  /\ subs' = [subs EXCEPT ![s] = IF SubExists(s) THEN "deleted" ELSE @]
  /\ runs' = [r \in Run |-> IF RunExists(r) /\ runSub[r] = s THEN "deleted" ELSE runs[r]]
  /\ agg' = [r \in Run |-> IF runSub[r] = s THEN NoScore ELSE agg[r]]
  /\ UNCHANGED <<runSub, boardRun, boardScore>>

\* DELETE FROM submissions WHERE id = s, with the foreign keys that cascade:
\* the submission's runs, their aggregates and its leaderboard row go with it.
DeleteSubRow(s) ==
  /\ subs' = [subs EXCEPT ![s] = IF SubExists(s) THEN "deleted" ELSE @]
  /\ runs' = [r \in Run |-> IF RunExists(r) /\ runSub[r] = s THEN "deleted" ELSE runs[r]]
  /\ agg' = [r \in Run |-> IF runSub[r] = s THEN NoScore ELSE agg[r]]
  /\ boardRun' = [boardRun EXCEPT ![s] = NoRun]
  /\ boardScore' = [boardScore EXCEPT ![s] = NoScore]
  /\ UNCHANGED runSub

=============================================================================

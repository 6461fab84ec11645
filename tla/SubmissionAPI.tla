----------------------------- MODULE SubmissionAPI -----------------------------
(* backend/api/submission_handler.go: the handlers that change state.  Each   *)
(* request runs in a goroutine of its own, so a handler is a sequence of      *)
(* steps, one per call to Postgres, Redis or the disk, and the steps of       *)
(* different requests and of the worker interleave.  A handler that gives up  *)
(* answers with an error and keeps nothing.  List, Get and ListRuns only      *)
(* read and are not actions.                                                  *)
EXTENDS QueueService

VARIABLES
  hpc,    \* the call the request in this slot makes next
  hsub,   \* the submission it is about
  hrun    \* the run it has inserted

apiVars == <<hpc, hsub, hrun>>

HandlerStep == {"idle", "insertSub", "deleteRow", "removeFiles", "insertRun", "enqueue"}

ApiTypeOK ==
  /\ hpc \in [Client -> HandlerStep]
  /\ hsub \in [Client -> Sub \cup {NoSub}]
  /\ hrun \in [Client -> Run \cup {NoRun}]

ApiInit ==
  /\ hpc = [c \in Client |-> "idle"]
  /\ hsub = [c \in Client |-> NoSub]
  /\ hrun = [c \in Client |-> NoRun]

\* A statement on the request's context can fail before or after its effect.
RequestFails == Faults \cap {"db", "disconnect"} # {}

\* The listener is closed by srv.Shutdown, which main calls after it has
\* cancelled the worker: until the process is gone a request may still come in.
Begin(c, step, s) ==
  /\ proc # "down"
  /\ hpc[c] = "idle"
  /\ hpc' = [hpc EXCEPT ![c] = step]
  /\ hsub' = [hsub EXCEPT ![c] = s]
  /\ UNCHANGED hrun

At(c, step) == proc # "down" /\ hpc[c] = step

Goto(c, step) ==
  /\ hpc' = [hpc EXCEPT ![c] = step]
  /\ UNCHANGED <<hsub, hrun>>

Answer(c) ==
  /\ hpc' = [hpc EXCEPT ![c] = "idle"]
  /\ hsub' = [hsub EXCEPT ![c] = NoSub]
  /\ hrun' = [hrun EXCEPT ![c] = NoRun]

-----------------------------------------------------------------------------
(* Create                                                                     *)

FreshSub(s) == subs[s] = "absent" /\ s \notin staged

\* MkdirAll and saveUpload under a fresh id.
CreateStage(c, s) ==
  /\ FreshSub(s)
  /\ Begin(c, "insertSub", s)
  /\ staged' = staged \cup {s}
  /\ UNCHANGED <<dbVars, queueVars, containers, proc>>

\* Staging fails half-way: the request ends and what was written stays.
CreateStageFails(c, s) ==
  /\ "disk" \in Faults
  /\ proc # "down" /\ hpc[c] = "idle"
  /\ FreshSub(s)
  /\ staged' = staged \cup {s}
  /\ UNCHANGED <<dbVars, queueVars, apiVars, containers, proc>>

\* INSERT INTO submissions; on an error the files are left behind.
CreateInsert(c) ==
  /\ At(c, "insertSub")
  /\ \/ subs' = [subs EXCEPT ![hsub[c]] = "pending"]
     \/ RequestFails /\ UNCHANGED subs
  /\ Answer(c)
  /\ UNCHANGED <<runs, runSub, boardVars, queueVars, staged, containers, proc>>

-----------------------------------------------------------------------------
(* Delete                                                                     *)

\* Mutant: the files are removed before the row, and the row is kept.
DeleteReadFilesFirst(c, s) ==
  /\ SubExists(s)
  /\ subs[s] # "running"
  /\ Begin(c, "removeFiles", s)
  /\ UNCHANGED <<dbVars, queueVars, staged, containers, proc>>

\* SELECT status; only "running" is refused.
DeleteRead(c, s) ==
  /\ SubExists(s)
  /\ subs[s] # "running"
  /\ Begin(c, "deleteRow", s)
  /\ UNCHANGED <<dbVars, queueVars, staged, containers, proc>>

\* DELETE FROM submissions, which does not look at the status again.
DeleteRow(c) ==
  /\ At(c, "deleteRow")
  /\ DeleteSubRow(hsub[c])
  /\ \/ Goto(c, "removeFiles")
     \/ RequestFails /\ Answer(c)
  /\ UNCHANGED <<queueVars, staged, containers, proc>>

DeleteRowFails(c) ==
  /\ At(c, "deleteRow")
  /\ RequestFails
  /\ Answer(c)
  /\ UNCHANGED <<dbVars, queueVars, staged, containers, proc>>

\* os.RemoveAll, best effort.
RemoveFiles(c) ==
  /\ At(c, "removeFiles")
  /\ \/ staged' = staged \ {hsub[c]}
     \/ "disk" \in Faults /\ UNCHANGED staged
  /\ Answer(c)
  /\ UNCHANGED <<dbVars, queueVars, containers, proc>>

-----------------------------------------------------------------------------
(* TriggerRun                                                                 *)

Runnable == {"pending", "ready", "completed"}

\* SELECT status; any other status is a conflict.
TriggerRead(c, s) ==
  /\ subs[s] \in Runnable
  /\ Begin(c, "insertRun", s)
  /\ UNCHANGED <<dbVars, queueVars, staged, containers, proc>>

\* Mutant: the run is inserted and never pushed.
InsertRunOnly(c, r) ==
  /\ At(c, "insertRun")
  /\ runs[r] = "absent"
  /\ SubExists(hsub[c])
  /\ runs' = [runs EXCEPT ![r] = "queued"]
  /\ runSub' = [runSub EXCEPT ![r] = hsub[c]]
  /\ Answer(c)
  /\ UNCHANGED <<subs, boardVars, queueVars, staged, containers, proc>>

\* INSERT INTO benchmark_runs under a fresh id; the foreign key wants the
\* submission.  A request whose insert took effect and was then cancelled ends
\* without pushing the run.
InsertRun(c, r) ==
  /\ At(c, "insertRun")
  /\ runs[r] = "absent"
  /\ SubExists(hsub[c])
  /\ runs' = [runs EXCEPT ![r] = "queued"]
  /\ runSub' = [runSub EXCEPT ![r] = hsub[c]]
  /\ \/ /\ hpc' = [hpc EXCEPT ![c] = "enqueue"]
        /\ hrun' = [hrun EXCEPT ![c] = r]
        /\ UNCHANGED hsub
     \/ RequestFails /\ Answer(c)
  /\ UNCHANGED <<subs, boardVars, queueVars, staged, containers, proc>>

\* The submission is gone, or the statement fails.
InsertRunFails(c) ==
  /\ At(c, "insertRun")
  /\ RequestFails \/ ~SubExists(hsub[c])
  /\ Answer(c)
  /\ UNCHANGED <<dbVars, queueVars, staged, containers, proc>>

\* LPUSH; a failure is logged and the request succeeds all the same.
Enqueue(c) ==
  /\ At(c, "enqueue")
  /\ EnqueueRun(hrun[c])
  /\ Answer(c)
  /\ UNCHANGED <<dbVars, staged, containers, proc>>

-----------------------------------------------------------------------------
\* A request in progress takes its next step.
Continue(c) ==
  \/ CreateInsert(c)
  \/ DeleteRow(c)
  \/ DeleteRowFails(c)
  \/ RemoveFiles(c)
  \/ \E r \in Run : InsertRun(c, r)
  \/ InsertRunFails(c)
  \/ Enqueue(c)

\* A client sends a request.
Request(c) == \E s \in Sub :
  \/ CreateStage(c, s)
  \/ CreateStageFails(c, s)
  \/ DeleteRead(c, s)
  \/ TriggerRead(c, s)

=============================================================================

---------------------------- MODULE PlatformProofs ----------------------------
(* Theorems about Platform, for every set of submissions, runs and requests   *)
(* and every choice of faults the statement does not exclude.                 *)
EXTENDS Platform, TLAPS

-----------------------------------------------------------------------------
(* The type invariant                                                         *)

LEMMA InitTypes == Init => TypeOK
BY PlatformAssumption
DEF Init, StateInit, QueueInit, ApiInit, WorkerInit, TypeOK, StateTypeOK, QueueTypeOK,
    ApiTypeOK, RequestHandsOK, WorkerTypeOK, WorkerHandsOK, SubStatus, RunStatus, NoRow,
    Score, NoScore, HandlerStep, WorkerStep, Loading, Preparing, Holding, Closing, Failing, Free

\* A new request.
LEMMA RequestKeepsTypes ==
  ASSUME TypeOK, NEW c \in Client, Request(c), UNCHANGED workerVars
  PROVE  TypeOK'
<1> USE PlatformAssumption
    DEF TypeOK, StateTypeOK, QueueTypeOK, ApiTypeOK, RequestHandsOK, WorkerTypeOK,
        WorkerHandsOK, HandlerStep, Begin, dbVars, queueVars, apiVars, workerVars
<1> PICK s \in Sub : CreateStage(c, s) \/ CreateStageFails(c, s) \/ DeleteRead(c, s) \/ TriggerRead(c, s)
  BY DEF Request
<1>1. CASE CreateStage(c, s)
  BY <1>1 DEF CreateStage
<1>2. CASE CreateStageFails(c, s)
  BY <1>2 DEF CreateStageFails
<1>3. CASE DeleteRead(c, s)
  BY <1>3 DEF DeleteRead
<1>4. CASE TriggerRead(c, s)
  BY <1>4 DEF TriggerRead
<1> QED BY <1>1, <1>2, <1>3, <1>4

\* A request in progress.
LEMMA ContinueKeepsTypes ==
  ASSUME TypeOK, NEW c \in Client, Continue(c), UNCHANGED workerVars
  PROVE  TypeOK'
<1> USE PlatformAssumption
    DEF TypeOK, StateTypeOK, QueueTypeOK, ApiTypeOK, RequestHandsOK, WorkerTypeOK,
        WorkerHandsOK, HandlerStep, Answer, Goto, At, dbVars, boardVars, queueVars,
        apiVars, workerVars, SubStatus, RunStatus, NoRow
<1>1. CASE CreateInsert(c)
  BY <1>1 DEF CreateInsert
<1>2. CASE DeleteRow(c)
  <2>1. hsub[c] \in Sub
    BY <1>2 DEF DeleteRow
  <2>2. StateTypeOK'
    BY <1>2, <2>1 DEF DeleteRow, DeleteSubRow, Score, RunExists, SubExists
  <2>3. ApiTypeOK' /\ RequestHandsOK'
    BY <1>2 DEF DeleteRow
  <2> QED BY <1>2, <2>2, <2>3 DEF DeleteRow
<1>3. CASE DeleteRowFails(c)
  BY <1>3 DEF DeleteRowFails
<1>4. CASE RemoveFiles(c)
  BY <1>4 DEF RemoveFiles
<1>5. ASSUME NEW r \in Run, InsertRun(c, r) PROVE TypeOK'
  <2>1. hsub[c] \in Sub
    BY <1>5 DEF InsertRun
  <2>2. StateTypeOK'
    BY <1>5, <2>1 DEF InsertRun
  <2>3. ApiTypeOK' /\ RequestHandsOK'
    <3>1. CASE hpc' = [hpc EXCEPT ![c] = "enqueue"] /\ hrun' = [hrun EXCEPT ![c] = r] /\ UNCHANGED hsub
      <4>1. r # NoRun /\ hpc[c] = "insertRun"
        BY <1>5 DEF InsertRun
      <4>2. ApiTypeOK'
        BY <3>1
      <4>3. ASSUME NEW d \in Client
            PROVE  ((hsub[d] = NoSub) = (hpc[d] = "idle"))' /\ ((hrun[d] = NoRun) = (hpc[d] # "enqueue"))'
        BY <3>1, <4>1
      <4> QED BY <4>2, <4>3
    <3>2. CASE Answer(c)
      BY <3>2
    <3> QED BY <1>5, <3>1, <3>2 DEF InsertRun
  <2> QED BY <1>5, <2>2, <2>3 DEF InsertRun
<1>6. CASE InsertRunFails(c)
  BY <1>6 DEF InsertRunFails
<1>7. CASE Enqueue(c)
  <2>1. hrun[c] \in Run
    BY <1>7 DEF Enqueue
  <2>2. Append(queue, hrun[c]) \in Seq(Run) /\ Append(Append(queue, hrun[c]), hrun[c]) \in Seq(Run)
    BY <2>1
  <2>3. QueueTypeOK'
    BY <1>7, <2>2 DEF Enqueue, EnqueueRun, LPush
  <2>4. ApiTypeOK' /\ RequestHandsOK'
    BY <1>7 DEF Enqueue
  <2> QED BY <1>7, <2>3, <2>4 DEF Enqueue
<1> QED BY <1>1, <1>2, <1>3, <1>4, <1>5, <1>6, <1>7 DEF Continue

\* The worker.
LEMMA WorkKeepsTypes ==
  ASSUME TypeOK, Work, UNCHANGED apiVars
  PROVE  TypeOK'
<1> USE PlatformAssumption
    DEF TypeOK, StateTypeOK, QueueTypeOK, ApiTypeOK, RequestHandsOK, WorkerTypeOK,
        WorkerHandsOK, WorkerStep, Loading, Preparing, Holding, Closing, Failing, Free,
        WorkerAt, WorkerGoto, Release, dbVars, boardVars, queueVars, apiVars, workerVars
<1>1. CASE CheckContext
  BY <1>1 DEF CheckContext
<1>2. CASE Dequeue
  BY <1>2 DEF Dequeue, BRPop
<1>3. CASE DequeueLost
  BY <1>3 DEF DequeueLost, BRPop
<1>4. CASE DequeueEmpty
  BY <1>4 DEF DequeueEmpty
<1>5. CASE Load
  <2>1. wrun \in Run
    BY <1>5 DEF Load
  <2> QED BY <1>5, <2>1 DEF Load, RunExists, RunStatus
<1>6. CASE SetRunning
  BY <1>6 DEF SetRunning, UpdateRunStatus, RunExists, RunStatus
<1>7. CASE SetBuilding
  <2>1. StateTypeOK'
    BY <1>7 DEF SetBuilding, UpdateSubStatus, SubStatus
  <2>2. WorkerTypeOK' /\ WorkerHandsOK'
    BY <1>7 DEF SetBuilding
  <2> QED BY <1>7, <2>1, <2>2 DEF SetBuilding
<1>8. CASE Build
  BY <1>8 DEF Build
<1>9. CASE Launch
  BY <1>9 DEF Launch, LaunchOk, LaunchFails, LaunchLeaks
<1>10. CASE WaitForHealthy
  BY <1>10 DEF WaitForHealthy
<1>11. CASE SetSubRunning
  BY <1>11 DEF SetSubRunning, UpdateSubStatus, SubStatus
<1>12. CASE StartFleet
  BY <1>12 DEF StartFleet
<1>13. CASE Bench
  BY <1>13 DEF Bench
<1>14. CASE Aggregate
  BY <1>14 DEF Aggregate
<1>15. CASE Upsert
  BY <1>15 DEF Upsert
<1>16. CASE TearDownDone
  BY <1>16 DEF TearDownDone, TearDown
<1>17. CASE CompleteRun
  BY <1>17 DEF CompleteRun, UpdateRunStatus, RunExists, RunStatus
<1>18. CASE CompleteSub
  BY <1>18 DEF CompleteSub, UpdateSubStatus, SubStatus
<1>19. CASE TearDownFailed
  BY <1>19 DEF TearDownFailed, TearDown
<1>20. CASE FailRun
  BY <1>20 DEF FailRun, UpdateRunStatus, RunExists, RunStatus
<1>21. CASE FailSub
  BY <1>21 DEF FailSub, UpdateSubStatus, SubStatus
<1>22. CASE DeadLetter
  BY <1>22 DEF DeadLetter, MoveToDeadLetter
<1> QED
  BY <1>1, <1>2, <1>3, <1>4, <1>5, <1>6, <1>7, <1>8, <1>9, <1>10, <1>11, <1>12, <1>13,
     <1>14, <1>15, <1>16, <1>17, <1>18, <1>19, <1>20, <1>21, <1>22 DEF Work

\* The process.
LEMMA ProcessKeepsTypes ==
  ASSUME TypeOK, Process
  PROVE  TypeOK'
<1> USE PlatformAssumption
    DEF TypeOK, StateTypeOK, QueueTypeOK, ApiTypeOK, RequestHandsOK, WorkerTypeOK,
        WorkerHandsOK, HandlerStep, WorkerStep, Loading, Preparing, Holding, Closing,
        Failing, Free, dbVars, queueVars, apiVars, workerVars
<1>1. CASE Die
  BY <1>1 DEF Die
<1>2. CASE Shutdown
  BY <1>2 DEF Shutdown
<1>3. CASE Restart
  BY <1>3 DEF Restart
<1> QED BY <1>1, <1>2, <1>3 DEF Process, Crash, Exit

LEMMA StutterKeepsTypes ==
  ASSUME TypeOK, UNCHANGED vars
  PROVE  TypeOK'
BY DEF vars, TypeOK, StateTypeOK, QueueTypeOK, ApiTypeOK, RequestHandsOK, WorkerTypeOK,
       WorkerHandsOK, dbVars, queueVars, apiVars, workerVars

\* The type invariant holds, with the worker and every request always in hand
\* of the run and the submission their next step works on.
THEOREM TypeCorrect == Spec => []TypeOK
<1>1. Init => TypeOK
  BY InitTypes
<1>2. TypeOK /\ [Next]_vars => TypeOK'
  BY RequestKeepsTypes, ContinueKeepsTypes, WorkKeepsTypes, ProcessKeepsTypes,
     StutterKeepsTypes DEF Next
<1> QED BY <1>1, <1>2, PTL DEF Spec

-----------------------------------------------------------------------------
(* What the worker may do to the tables                                       *)

\* The worker never inserts or deletes a submission and touches no file.
LEMMA WorkKeepsSubs ==
  ASSUME TypeOK, Work
  PROVE  /\ staged' = staged
         /\ \A s \in Sub : subs'[s] = subs[s] \/ (subs[s] \in SubStatus /\ subs'[s] \in SubStatus)
<1> USE DEF dbVars, boardVars, queueVars
<1>1. CASE UNCHANGED <<subs, staged>>
  BY <1>1
<1>2. CASE SetBuilding
  BY <1>2 DEF SetBuilding, UpdateSubStatus, SubExists, SubStatus, TypeOK, StateTypeOK
<1>3. CASE SetSubRunning
  BY <1>3 DEF SetSubRunning, UpdateSubStatus, SubExists, SubStatus, TypeOK, StateTypeOK
<1>4. CASE CompleteSub
  BY <1>4 DEF CompleteSub, UpdateSubStatus, SubExists, SubStatus, TypeOK, StateTypeOK
<1>5. CASE FailSub
  BY <1>5 DEF FailSub, UpdateSubStatus, SubExists, SubStatus, TypeOK, StateTypeOK
<1> QED
  BY <1>1, <1>2, <1>3, <1>4, <1>5
  DEF Work, CheckContext, Dequeue, DequeueLost, DequeueEmpty, Load, SetRunning, Build,
      Launch, WaitForHealthy, StartFleet, Bench, Aggregate, Upsert, TearDownDone,
      CompleteRun, TearDownFailed, FailRun, DeadLetter

-----------------------------------------------------------------------------
(* Files before the row                                                       *)

LEMMA RequestKeepsStaged ==
  ASSUME TypeOK, StagedInv, NEW c \in Client, Request(c)
  PROVE  StagedInv'
<1> USE DEF StagedInv, StagedBeforeRow, SubExists, TypeOK, StateTypeOK, ApiTypeOK, Begin, dbVars
<1> PICK s \in Sub : CreateStage(c, s) \/ CreateStageFails(c, s) \/ DeleteRead(c, s) \/ TriggerRead(c, s)
  BY DEF Request
<1>1. CASE CreateStage(c, s)
  BY <1>1 DEF CreateStage, FreshSub
<1>2. CASE CreateStageFails(c, s)
  BY <1>2 DEF CreateStageFails, apiVars
<1>3. CASE DeleteRead(c, s)
  BY <1>3 DEF DeleteRead, SubStatus
<1>4. CASE TriggerRead(c, s)
  BY <1>4 DEF TriggerRead
<1> QED BY <1>1, <1>2, <1>3, <1>4

LEMMA ContinueKeepsStaged ==
  ASSUME TypeOK, StagedInv, NEW c \in Client, Continue(c)
  PROVE  StagedInv'
<1> USE PlatformAssumption
    DEF StagedInv, StagedBeforeRow, SubExists, TypeOK, StateTypeOK, ApiTypeOK, RequestHandsOK,
        HandlerStep, Answer, Goto, At, dbVars
<1>1. CASE CreateInsert(c)
  BY <1>1 DEF CreateInsert
<1>2. CASE DeleteRow(c)
  BY <1>2 DEF DeleteRow, DeleteSubRow, SubStatus, NoRow
<1>3. CASE DeleteRowFails(c)
  BY <1>3 DEF DeleteRowFails
<1>4. CASE RemoveFiles(c)
  BY <1>4 DEF RemoveFiles, SubStatus
<1>5. ASSUME NEW r \in Run, InsertRun(c, r) PROVE StagedInv'
  BY <1>5 DEF InsertRun
<1>6. CASE InsertRunFails(c)
  BY <1>6 DEF InsertRunFails
<1>7. CASE Enqueue(c)
  BY <1>7 DEF Enqueue
<1> QED BY <1>1, <1>2, <1>3, <1>4, <1>5, <1>6, <1>7 DEF Continue

LEMMA WorkKeepsStaged ==
  ASSUME TypeOK, StagedInv, Work, UNCHANGED apiVars
  PROVE  StagedInv'
<1>1. /\ staged' = staged
      /\ \A s \in Sub : subs'[s] = subs[s] \/ (subs[s] \in SubStatus /\ subs'[s] \in SubStatus)
  BY WorkKeepsSubs
<1>2. \A c \in Client : hpc[c] # "idle" => hsub[c] \in Sub
  BY DEF TypeOK, ApiTypeOK, RequestHandsOK
<1> QED
  BY <1>1, <1>2
  DEF StagedInv, StagedBeforeRow, SubExists, apiVars, SubStatus, TypeOK, ApiTypeOK, HandlerStep

LEMMA ProcessKeepsStaged ==
  ASSUME StagedInv, Process
  PROVE  StagedInv'
BY DEF StagedInv, StagedBeforeRow, SubExists, Process, Crash, Exit, Die, Shutdown, Restart,
       dbVars, apiVars

LEMMA StagedHolds == Spec => []StagedInv
<1>1. Init => StagedInv
  BY DEF Init, StateInit, ApiInit, StagedInv, StagedBeforeRow, SubExists, SubStatus
<1>2. TypeOK /\ StagedInv /\ [Next]_vars => StagedInv'
  <2>1. ASSUME TypeOK, StagedInv, UNCHANGED vars PROVE StagedInv'
    BY <2>1 DEF StagedInv, StagedBeforeRow, SubExists, vars, dbVars, apiVars
  <2> QED BY <2>1, RequestKeepsStaged, ContinueKeepsStaged, WorkKeepsStaged, ProcessKeepsStaged DEF Next
<1> QED BY <1>1, <1>2, TypeCorrect, PTL DEF Spec

\* A submission's row never exists without its files, whatever fails or is
\* killed between the two steps of Create and the three of Delete.
THEOREM FilesBeforeRow == Spec => []StagedBeforeRow
<1>1. StagedInv => StagedBeforeRow
  BY DEF StagedInv
<1> QED BY <1>1, StagedHolds, PTL

-----------------------------------------------------------------------------
(* The work queue as a set                                                    *)

LEMMA QueuedAppend ==
  ASSUME NEW q \in Seq(Run), NEW r \in Run, queue = q, queue' = Append(q, r)
  PROVE  Queued' = Queued \cup {r}
<1>1. Len(queue') = Len(q) + 1 /\ Len(q) \in Nat
  OBVIOUS
<1>2. \A i \in 1 .. Len(q) : queue'[i] = q[i]
  OBVIOUS
<1>3. queue'[Len(q) + 1] = r
  OBVIOUS
<1> QED BY <1>1, <1>2, <1>3 DEF Queued

LEMMA TwiceAppended ==
  ASSUME NEW q \in Seq(Run), NEW r \in Run, queue = q, queue' = Append(Append(q, r), r)
  PROVE  Queued' = Queued \cup {r}
<1> DEFINE p == Append(q, r)
<1>1. p \in Seq(Run) /\ Len(p) = Len(q) + 1 /\ Len(q) \in Nat
  OBVIOUS
<1>2. Len(queue') = Len(p) + 1
  BY <1>1
<1>3. \A i \in 1 .. Len(q) : queue'[i] = q[i]
  BY <1>1
<1>4. queue'[Len(q) + 1] = r /\ queue'[Len(q) + 2] = r
  BY <1>1
<1> HIDE DEF p
<1> QED BY <1>1, <1>2, <1>3, <1>4 DEF Queued

LEMMA QueuedTail ==
  ASSUME QueueTypeOK, queue # <<>>, queue' = Tail(queue)
  PROVE  /\ Head(queue) \in Run
         /\ Queued = Queued' \cup {Head(queue)}
<1> USE DEF QueueTypeOK
<1>1. Len(queue') = Len(queue) - 1 /\ Len(queue) \in Nat \ {0}
  OBVIOUS
<1>2. \A i \in 1 .. Len(queue') : queue'[i] = queue[i + 1]
  OBVIOUS
<1>3. Head(queue) = queue[1] /\ Head(queue) \in Run
  OBVIOUS
<1>4. Queued' \cup {Head(queue)} \subseteq Queued
  BY <1>1, <1>2, <1>3 DEF Queued
<1>5. ASSUME NEW i \in 1 .. Len(queue) PROVE queue[i] \in Queued' \cup {Head(queue)}
  <2>1. CASE i = 1
    BY <2>1, <1>3
  <2>2. CASE i # 1
    <3>1. i - 1 \in 1 .. Len(queue') /\ queue'[i - 1] = queue[i]
      BY <2>2, <1>1, <1>2
    <3> QED BY <3>1 DEF Queued
  <2> QED BY <2>1, <2>2
<1> QED BY <1>3, <1>4, <1>5 DEF Queued

-----------------------------------------------------------------------------
(* A run id is known before it is anywhere                                    *)

\* Rows are inserted by InsertRun alone, and never become absent again.
LEMMA RunsStayKnown ==
  ASSUME TypeOK, [Next]_vars, NEW r \in Run, runs[r] # "absent"
  PROVE  runs'[r] # "absent"
<1> USE DEF TypeOK, StateTypeOK, dbVars, boardVars, queueVars, UpdateRunStatus, RunExists, RunStatus
<1>1. CASE UNCHANGED runs
  BY <1>1
<1>2. ASSUME NEW c \in Client, DeleteRow(c) PROVE runs'[r] # "absent"
  BY <1>2 DEF DeleteRow, DeleteSubRow
<1>3. ASSUME NEW c \in Client, NEW q \in Run, InsertRun(c, q) PROVE runs'[r] # "absent"
  BY <1>3 DEF InsertRun
<1>4. CASE SetRunning
  BY <1>4 DEF SetRunning
<1>5. CASE CompleteRun
  BY <1>5 DEF CompleteRun
<1>6. CASE FailRun
  BY <1>6 DEF FailRun
<1>7. ASSUME NEW c \in Client, Request(c) PROVE UNCHANGED runs
  BY <1>7 DEF Request, CreateStage, CreateStageFails, DeleteRead, TriggerRead
<1>8. ASSUME NEW c \in Client, Continue(c) PROVE runs'[r] # "absent"
  BY <1>1, <1>2, <1>3, <1>8
  DEF Continue, CreateInsert, DeleteRowFails, RemoveFiles, InsertRunFails, Enqueue
<1>9. CASE Work
  BY <1>1, <1>4, <1>5, <1>6, <1>9
  DEF Work, CheckContext, Dequeue, DequeueLost, DequeueEmpty, Load, SetBuilding, Build,
      Launch, WaitForHealthy, SetSubRunning, StartFleet, Bench, Aggregate, Upsert,
      TearDownDone, CompleteSub, TearDownFailed, FailSub, DeadLetter
<1>10. CASE Process
  BY <1>10 DEF Process, Crash, Exit, Die, Shutdown, Restart
<1> QED BY <1>1, <1>7, <1>8, <1>9, <1>10 DEF Next, vars

\* A run id comes to a new place only from another, or when it is inserted.
LEMMA PlacesGrow ==
  ASSUME TypeOK, TypeOK', [Next]_vars, NEW r \in Places', r \notin Places
  PROVE  runs'[r] # "absent"
<1> USE DEF TypeOK, StateTypeOK, QueueTypeOK
<1>1. ASSUME UNCHANGED <<queue, deadLetter, hpc, hrun, wrun>> PROVE FALSE
  BY <1>1 DEF Places, Queued, HeldByRequests, HeldByWorker
<1>2. ASSUME NEW c \in Client, Request(c), UNCHANGED workerVars PROVE FALSE
  <2>1. UNCHANGED <<queue, deadLetter, hrun, wrun>>
    BY <1>2 DEF Request, CreateStage, CreateStageFails, DeleteRead, TriggerRead, Begin,
                queueVars, apiVars, workerVars
  <2>2. \A d \in Client : hpc'[d] = "enqueue" => hpc[d] = "enqueue"
    BY <1>2 DEF Request, CreateStage, CreateStageFails, DeleteRead, TriggerRead, Begin,
                apiVars, ApiTypeOK
  <2> QED BY <2>1, <2>2 DEF Places, Queued, HeldByRequests, HeldByWorker
<1>3. ASSUME NEW c \in Client, Continue(c), UNCHANGED workerVars PROVE runs'[r] # "absent"
  <2> USE DEF ApiTypeOK, HandlerStep, Answer, Goto, At, queueVars, workerVars
  <2>1. ASSUME NEW q \in Run, InsertRun(c, q) PROVE runs'[r] # "absent"
    <3>1. UNCHANGED <<queue, deadLetter, wrun>> /\ runs'[q] = "queued"
      BY <1>3, <2>1 DEF InsertRun
    <3>2. \A d \in Client : hpc'[d] = "enqueue" =>
            hrun'[d] = q \/ (hpc[d] = "enqueue" /\ hrun'[d] = hrun[d])
      BY <2>1 DEF InsertRun
    <3> QED BY <3>1, <3>2 DEF Places, Queued, HeldByRequests, HeldByWorker
  <2>2. ASSUME Enqueue(c) PROVE FALSE
    <3>1. hrun[c] \in HeldByRequests /\ hrun[c] \in Run
      BY <2>2 DEF Enqueue, HeldByRequests, RequestHandsOK
    <3>2. Queued' \subseteq Queued \cup {hrun[c]}
      <4>1. CASE queue' = Append(queue, hrun[c])
        BY <4>1, <3>1, QueuedAppend
      <4>2. CASE queue' = Append(Append(queue, hrun[c]), hrun[c])
        BY <4>2, <3>1, TwiceAppended
      <4>3. CASE UNCHANGED queue
        BY <4>3 DEF Queued
      <4> QED BY <2>2, <4>1, <4>2, <4>3 DEF Enqueue, EnqueueRun, LPush
    <3>3. UNCHANGED <<deadLetter, wrun>>
      BY <1>3, <2>2 DEF Enqueue, EnqueueRun
    <3>4. \A d \in Client : hpc'[d] = "enqueue" => hpc[d] = "enqueue" /\ hrun'[d] = hrun[d]
      BY <2>2 DEF Enqueue
    <3> QED BY <3>1, <3>2, <3>3, <3>4 DEF Places, HeldByRequests, HeldByWorker
  <2>3. ASSUME UNCHANGED <<queue, deadLetter, wrun>>,
               \A d \in Client : hpc'[d] = "enqueue" => hpc[d] = "enqueue" /\ hrun'[d] = hrun[d]
        PROVE  FALSE
    BY <2>3 DEF Places, Queued, HeldByRequests, HeldByWorker
  <2>4. CASE CreateInsert(c)
    BY <1>3, <2>3, <2>4 DEF CreateInsert
  <2>5. CASE DeleteRow(c)
    BY <1>3, <2>3, <2>5 DEF DeleteRow
  <2>6. CASE DeleteRowFails(c)
    BY <1>3, <2>3, <2>6 DEF DeleteRowFails
  <2>7. CASE RemoveFiles(c)
    BY <1>3, <2>3, <2>7 DEF RemoveFiles
  <2>8. CASE InsertRunFails(c)
    BY <1>3, <2>3, <2>8 DEF InsertRunFails
  <2> QED BY <1>3, <2>1, <2>2, <2>4, <2>5, <2>6, <2>7, <2>8 DEF Continue
<1>4. ASSUME Work, UNCHANGED apiVars PROVE FALSE
  <2> USE DEF apiVars, queueVars, WorkerGoto, Release
  <2>1. HeldByRequests' = HeldByRequests
    BY <1>4 DEF HeldByRequests
  <2>2. CASE Dequeue
    <3>1. queue # <<>> /\ queue' = Tail(queue) /\ wrun' = Head(queue) /\ UNCHANGED deadLetter
      BY <2>2 DEF Dequeue, BRPop
    <3> QED BY <2>1, <3>1, QueuedTail DEF Places, HeldByWorker
  <2>3. CASE DequeueLost
    <3>1. queue # <<>> /\ queue' = Tail(queue) /\ UNCHANGED <<wrun, deadLetter>>
      BY <2>3 DEF DequeueLost, BRPop
    <3> QED BY <2>1, <3>1, QueuedTail DEF Places, HeldByWorker
  <2>4. CASE DeadLetter
    <3>1. UNCHANGED queue /\ deadLetter' \subseteq deadLetter \cup {wrun} /\ wrun' = NoRun /\ wrun # NoRun
      BY <2>4 DEF DeadLetter, MoveToDeadLetter, WorkerAt, WorkerHandsOK, Free
    <3> QED BY <2>1, <3>1 DEF Places, HeldByWorker, Queued
  <2>5. CASE UNCHANGED <<queue, deadLetter>> /\ wrun' \in {wrun, NoRun}
    BY <2>1, <2>5 DEF Places, HeldByWorker, Queued
  <2> QED
    BY <1>4, <2>2, <2>3, <2>4, <2>5
    DEF Work, CheckContext, DequeueEmpty, Load, SetRunning, SetBuilding, Build, Launch,
        WaitForHealthy, SetSubRunning, StartFleet, Bench, Aggregate, Upsert, TearDownDone,
        CompleteRun, CompleteSub, TearDownFailed, FailRun, FailSub
<1>5. ASSUME Process PROVE FALSE
  BY <1>5 DEF Process, Crash, Exit, Die, Shutdown, Restart, Places, Queued, HeldByRequests,
              HeldByWorker, queueVars, apiVars, workerVars
<1> QED
  BY <1>1, <1>2, <1>3, <1>4, <1>5 DEF Next, vars, queueVars, apiVars, workerVars

\* Whatever list, request or worker holds a run id, the run's row was inserted.
THEOREM KnownRuns == Spec => []KnownInv
<1>1. Init => KnownInv
  BY DEF Init, QueueInit, ApiInit, WorkerInit, KnownInv, Places, Queued, HeldByRequests, HeldByWorker
<1>2. TypeOK /\ TypeOK' /\ KnownInv /\ [Next]_vars => KnownInv'
  <2> SUFFICES ASSUME TypeOK, TypeOK', KnownInv, [Next]_vars, NEW r \in Places'
               PROVE  runs'[r] # "absent"
    BY DEF KnownInv
  <2>1. CASE r \in Places
    <3>1. r \in Run
      BY <2>1 DEF Places, Queued, HeldByRequests, HeldByWorker, TypeOK, QueueTypeOK, ApiTypeOK,
                  RequestHandsOK, WorkerTypeOK
    <3> QED BY <2>1, <3>1, RunsStayKnown DEF KnownInv
  <2>2. CASE r \notin Places
    BY <2>2, PlacesGrow
  <2> QED BY <2>1, <2>2
<1> QED BY <1>1, <1>2, TypeCorrect, PTL DEF Spec

-----------------------------------------------------------------------------
(* The foreign keys and the leaderboard                                       *)

\* A step that leaves the tables alone and does not come to the upsert.
LEMMA TablesUnchanged ==
  ASSUME ReferenceInv, UNCHANGED dbVars, UNCHANGED wrun \/ wpc' # "upsert", wpc' = "upsert" => wpc = "upsert"
  PROVE  ReferenceInv'
BY DEF ReferenceInv, BoardBacked, SubExists, RunExists, dbVars

\* Neither does a change of status by UPDATE, which needs the row.
LEMMA StatusChanges ==
  ASSUME TypeOK, ReferenceInv, TypeOK', UNCHANGED <<runSub, boardVars>>,
         \A s \in Sub : subs'[s] = subs[s] \/ (subs[s] \in SubStatus /\ subs'[s] \in SubStatus),
         \A r \in Run : runs'[r] = runs[r] \/ (runs[r] \in RunStatus /\ runs'[r] \in RunStatus),
         wpc' # "upsert"
  PROVE  ReferenceInv'
<1>1. \A s \in Sub : SubExists(s)' = SubExists(s)
  BY DEF SubExists
<1>2. \A r \in Run : RunExists(r)' = RunExists(r)
  BY DEF RunExists
<1>3. \A r \in Run : RunExists(r) => runSub[r] \in Sub
  BY DEF RunExists, RunStatus, TypeOK, StateTypeOK
<1>4. \A s \in Sub : boardRun[s] \in Run \cup {NoRun}
  BY DEF TypeOK, StateTypeOK
<1> QED BY <1>1, <1>2, <1>3, <1>4 DEF ReferenceInv, BoardBacked, boardVars

LEMMA ContinueKeepsReferences ==
  ASSUME TypeOK, TypeOK', KnownInv, ReferenceInv, NEW c \in Client, Continue(c), UNCHANGED workerVars
  PROVE  ReferenceInv'
<1> USE DEF boardVars, workerVars
<1>1. hpc[c] # "idle" => hsub[c] \in Sub
  BY DEF TypeOK, ApiTypeOK, RequestHandsOK
<1>2. CASE CreateInsert(c)
  BY <1>1, <1>2 DEF CreateInsert, At, ReferenceInv, BoardBacked, SubExists, RunExists, SubStatus,
                    RunStatus, TypeOK, StateTypeOK
<1>3. CASE DeleteRow(c)
  <2>1. hsub[c] \in Sub
    BY <1>1, <1>3 DEF DeleteRow, At
  <2>2. \A r \in Run : RunExists(r)' = (RunExists(r) /\ runSub[r] # hsub[c])
    BY <1>3 DEF DeleteRow, DeleteSubRow, RunExists, RunStatus
  <2>3. \A s \in Sub : SubExists(s)' = (SubExists(s) /\ s # hsub[c])
    BY <1>3, <2>1 DEF DeleteRow, DeleteSubRow, SubExists, SubStatus, TypeOK, StateTypeOK
  <2>4. \A r \in Run : agg'[r] = IF runSub[r] = hsub[c] THEN NoScore ELSE agg[r]
    BY <1>3 DEF DeleteRow, DeleteSubRow
  <2>5. \A s \in Sub : /\ boardRun'[s] = IF s = hsub[c] THEN NoRun ELSE boardRun[s]
                       /\ boardScore'[s] = IF s = hsub[c] THEN NoScore ELSE boardScore[s]
    BY <1>3, <2>1 DEF DeleteRow, DeleteSubRow, TypeOK, StateTypeOK
  <2>6. runSub' = runSub
    BY <1>3 DEF DeleteRow, DeleteSubRow
  <2>7. BoardBacked'
    BY <2>2, <2>3, <2>4, <2>5, <2>6 DEF ReferenceInv, BoardBacked, SubExists, RunExists, TypeOK, StateTypeOK
  <2>8. \A r \in Run : RunExists(r)' => SubExists(runSub[r])'
    BY <2>2, <2>3, <2>6 DEF ReferenceInv, SubExists, RunExists, RunStatus, TypeOK, StateTypeOK
  <2>9. \A r \in Run : agg'[r] # NoScore => RunExists(r)'
    BY <2>2, <2>4 DEF ReferenceInv
  <2>10. wpc' = "upsert" /\ RunExists(wrun)' => agg'[wrun'] # NoScore
    <3>1. wpc = "upsert" => wrun \in Run
      BY DEF TypeOK, WorkerTypeOK, WorkerHandsOK, Free
    <3> QED BY <3>1, <2>2, <2>4 DEF ReferenceInv
  <2> QED BY <2>7, <2>8, <2>9, <2>10 DEF ReferenceInv
<1>4. CASE DeleteRowFails(c)
  BY <1>4, TablesUnchanged DEF DeleteRowFails
<1>5. CASE RemoveFiles(c)
  BY <1>5, TablesUnchanged DEF RemoveFiles
<1>6. ASSUME NEW r \in Run, InsertRun(c, r) PROVE ReferenceInv'
  <2>1. hsub[c] \in Sub /\ SubExists(hsub[c]) /\ ~RunExists(r) /\ runs[r] = "absent"
    BY <1>1, <1>6 DEF InsertRun, At, RunExists, RunStatus
  <2>2. wpc = "upsert" => wrun \in Run /\ wrun # r
    BY <2>1 DEF TypeOK, WorkerTypeOK, WorkerHandsOK, Free, KnownInv, Places, HeldByWorker
  <2>3. UNCHANGED <<subs, agg, boardRun, boardScore>> /\ runSub' = [runSub EXCEPT ![r] = hsub[c]]
        /\ runs' = [runs EXCEPT ![r] = "queued"]
    BY <1>6 DEF InsertRun
  <2>4. \A q \in Run : RunExists(q)' = (RunExists(q) \/ q = r)
    BY <2>3 DEF RunExists, RunStatus, TypeOK, StateTypeOK
  <2>5. \A q \in Run : runSub'[q] = IF q = r THEN hsub[c] ELSE runSub[q]
    BY <2>3 DEF TypeOK, StateTypeOK
  <2>6. BoardBacked'
    BY <2>1, <2>3, <2>4, <2>5 DEF ReferenceInv, BoardBacked, SubExists, RunExists, TypeOK, StateTypeOK
  <2> QED BY <2>1, <2>2, <2>3, <2>4, <2>5, <2>6 DEF ReferenceInv, SubExists
<1>7. CASE InsertRunFails(c)
  BY <1>7, TablesUnchanged DEF InsertRunFails
<1>8. CASE Enqueue(c)
  BY <1>8, TablesUnchanged DEF Enqueue
<1> QED BY <1>2, <1>3, <1>4, <1>5, <1>6, <1>7, <1>8 DEF Continue

LEMMA WorkKeepsReferences ==
  ASSUME TypeOK, TypeOK', ReferenceInv, Work
  PROVE  ReferenceInv'
<1>1. \A s \in Sub : subs'[s] = subs[s] \/ (subs[s] \in SubStatus /\ subs'[s] \in SubStatus)
  BY WorkKeepsSubs
<1>2. CASE SetRunning \/ CompleteRun \/ FailRun
  <2>1. \A r \in Run : runs'[r] = runs[r] \/ (runs[r] \in RunStatus /\ runs'[r] \in RunStatus)
    BY <1>2 DEF SetRunning, CompleteRun, FailRun, UpdateRunStatus, RunExists, RunStatus, TypeOK, StateTypeOK
  <2>2. UNCHANGED <<runSub, boardVars>> /\ wpc' # "upsert"
    BY <1>2 DEF SetRunning, CompleteRun, FailRun, WorkerGoto
  <2> QED BY <1>1, <2>1, <2>2, StatusChanges
<1>3. CASE SetBuilding \/ SetSubRunning \/ CompleteSub \/ FailSub
  <2>1. UNCHANGED <<runs, runSub, boardVars>> /\ wpc' # "upsert"
    BY <1>3 DEF SetBuilding, SetSubRunning, CompleteSub, FailSub, WorkerGoto, Release
  <2> QED BY <1>1, <2>1, StatusChanges
<1>4. CASE Aggregate
  <2> USE DEF TypeOK, StateTypeOK, WorkerTypeOK, WorkerHandsOK, Free
  <2>1. wrun \in Run /\ UNCHANGED <<subs, runs, runSub, boardRun, boardScore, wrun>>
    BY <1>4 DEF Aggregate, WorkerAt, WorkerGoto
  <2>2. CASE UNCHANGED agg /\ wpc' # "upsert"
    BY <2>1, <2>2, TablesUnchanged DEF dbVars
  <2>3. ASSUME RunExists(wrun), NEW v \in Score, agg' = [agg EXCEPT ![wrun] = v] PROVE ReferenceInv'
    <3>1. v # NoScore
      BY DEF Score, NoScore
    <3>2. \A r \in Run : agg'[r] = IF r = wrun THEN v ELSE agg[r]
      BY <2>1, <2>3
    <3> QED BY <2>1, <2>3, <3>1, <3>2 DEF ReferenceInv, BoardBacked, SubExists, RunExists
  <2> QED BY <1>4, <2>1, <2>2, <2>3 DEF Aggregate, WorkerGoto
<1>5. CASE Upsert
  <2> USE DEF TypeOK, StateTypeOK, WorkerTypeOK, WorkerHandsOK, Free
  <2>1. wrun \in Run /\ wpc = "upsert" /\ wpc' # "upsert" /\ UNCHANGED <<subs, runs, runSub, agg>>
    BY <1>5 DEF Upsert, WorkerAt, WorkerGoto
  <2>2. CASE UNCHANGED <<boardRun, boardScore>>
    BY <2>1, <2>2, TablesUnchanged DEF dbVars
  <2>3. ASSUME RunExists(wrun),
               boardRun' = [boardRun EXCEPT ![runSub[wrun]] = wrun],
               boardScore' = [boardScore EXCEPT ![runSub[wrun]] = agg[wrun]]
        PROVE  ReferenceInv'
    <3>1. runSub[wrun] \in Sub /\ SubExists(runSub[wrun]) /\ agg[wrun] # NoScore /\ wrun # NoRun
      BY <2>1, <2>3, PlatformAssumption DEF ReferenceInv, RunExists, RunStatus
    <3>2. \A s \in Sub : /\ boardRun'[s] = IF s = runSub[wrun] THEN wrun ELSE boardRun[s]
                         /\ boardScore'[s] = IF s = runSub[wrun] THEN agg[wrun] ELSE boardScore[s]
      BY <2>3, <3>1
    <3> QED BY <2>1, <2>3, <3>1, <3>2 DEF ReferenceInv, BoardBacked, SubExists, RunExists
  <2> QED BY <1>5, <2>2, <2>3 DEF Upsert
<1>6. CASE UNCHANGED dbVars /\ wpc' # "upsert"
  BY <1>6, TablesUnchanged
<1> QED
  BY <1>2, <1>3, <1>4, <1>5, <1>6
  DEF Work, CheckContext, Dequeue, DequeueLost, DequeueEmpty, Load, Build, Launch,
      WaitForHealthy, StartFleet, Bench, TearDownDone, TearDownFailed, DeadLetter,
      WorkerGoto, Release

LEMMA ReferencesHold == Spec => []ReferenceInv
<1>1. Init => ReferenceInv
  BY DEF Init, StateInit, WorkerInit, ReferenceInv, BoardBacked, RunExists, RunStatus
<1>2. TypeOK /\ TypeOK' /\ KnownInv /\ ReferenceInv /\ [Next]_vars => ReferenceInv'
  <2> SUFFICES ASSUME TypeOK, TypeOK', KnownInv, ReferenceInv, [Next]_vars PROVE ReferenceInv'
    OBVIOUS
  <2>1. ASSUME NEW c \in Client, Request(c), UNCHANGED workerVars PROVE ReferenceInv'
    BY <2>1, TablesUnchanged
    DEF Request, CreateStage, CreateStageFails, DeleteRead, TriggerRead, workerVars
  <2>2. CASE Process
    BY <2>2, TablesUnchanged DEF Process, Crash, Exit, Die, Shutdown, Restart, workerVars
  <2>3. CASE UNCHANGED vars
    BY <2>3, TablesUnchanged DEF vars, workerVars
  <2> QED BY <2>1, <2>2, <2>3, ContinueKeepsReferences, WorkKeepsReferences DEF Next
<1> QED BY <1>1, <1>2, TypeCorrect, KnownRuns, PTL DEF Spec

\* The leaderboard never shows a deleted submission, a run of another one, or
\* a run without its aggregate.
THEOREM BoardIsBacked == Spec => []BoardBacked
<1>1. ReferenceInv => BoardBacked
  BY DEF ReferenceInv
<1> QED BY <1>1, ReferencesHold, PTL

-----------------------------------------------------------------------------
(* One place per run                                                          *)

NoDuplicates == \A i, j \in 1 .. Len(queue) : queue[i] = queue[j] => i = j

LEMMA AppendNew ==
  ASSUME NEW r \in Run, queue \in Seq(Run), r \notin Queued, NoDuplicates, queue' = Append(queue, r)
  PROVE  NoDuplicates'
<1>1. Len(queue') = Len(queue) + 1 /\ Len(queue) \in Nat
  OBVIOUS
<1>2. \A i \in 1 .. Len(queue) : queue'[i] = queue[i] /\ queue[i] # r
  BY DEF Queued
<1>3. queue'[Len(queue) + 1] = r
  OBVIOUS
<1> QED BY <1>1, <1>2, <1>3 DEF NoDuplicates

LEMMA TailOld ==
  ASSUME QueueTypeOK, queue # <<>>, NoDuplicates, queue' = Tail(queue)
  PROVE  NoDuplicates' /\ Head(queue) \notin Queued'
<1> USE DEF QueueTypeOK
<1>1. Len(queue') = Len(queue) - 1 /\ Len(queue) \in Nat \ {0}
  OBVIOUS
<1>2. \A i \in 1 .. Len(queue') : i + 1 \in 1 .. Len(queue) /\ queue'[i] = queue[i + 1] /\ i + 1 # 1
  BY <1>1
<1>3. Head(queue) = queue[1] /\ 1 \in 1 .. Len(queue)
  BY <1>1
<1>4. NoDuplicates'
  BY <1>1, <1>2 DEF NoDuplicates
<1>5. Head(queue) \notin Queued'
  BY <1>1, <1>2, <1>3 DEF NoDuplicates, Queued
<1> QED BY <1>4, <1>5

\* Custody as a statement about the places, with the queue as a set.
PlacesApart ==
  /\ NoDuplicates
  /\ \A c, d \in Client : hpc[c] = "enqueue" /\ hpc[d] = "enqueue" /\ hrun[c] = hrun[d] => c = d
  /\ \A c \in Client : hpc[c] = "enqueue" =>
       hrun[c] \notin Queued /\ hrun[c] # wrun /\ hrun[c] \notin deadLetter
  /\ wrun \notin Queued /\ wrun \notin deadLetter
  /\ deadLetter \cap Queued = {}

LEMMA ApartIsCustody ==
  ASSUME TypeOK
  PROVE  PlacesApart <=> Custody
<1>1. \A c \in Client : hpc[c] = "enqueue" => hrun[c] # NoRun
  BY DEF TypeOK, RequestHandsOK
<1>2. NoRun \notin Queued /\ NoRun \notin deadLetter
  BY PlatformAssumption DEF TypeOK, QueueTypeOK, Queued
<1>3. Custody => PlacesApart
  BY <1>1, <1>2 DEF PlacesApart, Custody, NoDuplicates, HeldByRequests, HeldByWorker
<1>4. PlacesApart => Custody
  BY DEF PlacesApart, Custody, NoDuplicates, HeldByRequests, HeldByWorker
<1> QED BY <1>3, <1>4

LEMMA QueueUntouched ==
  ASSUME PlacesApart, UNCHANGED <<queue, deadLetter>>,
         wrun' = wrun \/ (wrun' = NoRun /\ NoRun \notin Queued \cup deadLetter),
         \A c \in Client : hpc'[c] = "enqueue" =>
           hpc[c] = "enqueue" /\ hrun'[c] = hrun[c] /\ hrun[c] # NoRun
  PROVE  PlacesApart'
BY DEF PlacesApart, NoDuplicates, Queued

LEMMA ContinueKeepsApart ==
  ASSUME "retry" \notin Faults, TypeOK, KnownInv, PlacesApart,
         NEW c \in Client, Continue(c), UNCHANGED workerVars
  PROVE  PlacesApart'
<1> USE DEF TypeOK, ApiTypeOK, RequestHandsOK, HandlerStep, Answer, Goto, At, queueVars, workerVars
<1>1. ASSUME UNCHANGED <<queue, deadLetter>>,
             \A d \in Client : hpc'[d] = "enqueue" => hpc[d] = "enqueue" /\ hrun'[d] = hrun[d]
      PROVE  PlacesApart'
  BY <1>1, QueueUntouched
<1>2. CASE CreateInsert(c)
  BY <1>1, <1>2 DEF CreateInsert
<1>3. CASE DeleteRow(c)
  BY <1>1, <1>3 DEF DeleteRow
<1>4. CASE DeleteRowFails(c)
  BY <1>1, <1>4 DEF DeleteRowFails
<1>5. CASE RemoveFiles(c)
  BY <1>1, <1>5 DEF RemoveFiles
<1>6. ASSUME NEW r \in Run, InsertRun(c, r) PROVE PlacesApart'
  <2>1. r \notin Places
    BY <1>6 DEF InsertRun, KnownInv
  <2>2. r \notin Queued /\ r \notin deadLetter /\ r # wrun
        /\ \A d \in Client : hpc[d] = "enqueue" => hrun[d] # r
    BY <2>1, PlatformAssumption DEF Places, HeldByRequests, HeldByWorker
  <2>3. UNCHANGED <<queue, deadLetter, wrun>>
    BY <1>6 DEF InsertRun
  <2>4. \A d \in Client : hpc'[d] = "enqueue" =>
          \/ d = c /\ hrun'[d] = r
          \/ hpc[d] = "enqueue" /\ hrun'[d] = hrun[d]
    BY <1>6 DEF InsertRun
  <2> QED BY <2>2, <2>3, <2>4 DEF PlacesApart, NoDuplicates, Queued
<1>7. CASE InsertRunFails(c)
  BY <1>1, <1>7 DEF InsertRunFails
<1>8. CASE Enqueue(c)
  <2>1. hrun[c] \in Run /\ hpc[c] = "enqueue"
    BY <1>8 DEF Enqueue
  <2>2. \A d \in Client : hpc'[d] = "enqueue" =>
          hpc[d] = "enqueue" /\ hrun'[d] = hrun[d] /\ hrun[d] # hrun[c]
    BY <1>8, <2>1 DEF Enqueue, PlacesApart
  <2>3. CASE queue' = Append(queue, hrun[c]) /\ UNCHANGED <<deadLetter, wrun>>
    <3>1. Queued' = Queued \cup {hrun[c]}
      BY <2>1, <2>3, QueuedAppend DEF QueueTypeOK
    <3>2. NoDuplicates'
      BY <2>1, <2>3, AppendNew DEF QueueTypeOK, PlacesApart
    <3> QED BY <2>1, <2>2, <2>3, <3>1, <3>2 DEF PlacesApart
  <2>4. CASE UNCHANGED queue
    BY <1>1, <1>8, <2>2, <2>4 DEF Enqueue, EnqueueRun
  <2> QED BY <1>8, <2>3, <2>4 DEF Enqueue, EnqueueRun, LPush
<1> QED BY <1>2, <1>3, <1>4, <1>5, <1>6, <1>7, <1>8 DEF Continue

LEMMA WorkKeepsApart ==
  ASSUME TypeOK, PlacesApart, Work, UNCHANGED apiVars
  PROVE  PlacesApart'
<1> USE DEF TypeOK, apiVars, queueVars, WorkerGoto, Release
<1>1. NoRun \notin Queued \cup deadLetter
  BY PlatformAssumption DEF QueueTypeOK, Queued
<1>2. \A d \in Client : hpc[d] = "enqueue" => hrun[d] # NoRun
  BY DEF RequestHandsOK
<1>3. CASE Dequeue \/ DequeueLost
  <2>1. queue # <<>> /\ queue' = Tail(queue) /\ UNCHANGED deadLetter /\ wrun' \in {wrun, Head(queue)}
    BY <1>3 DEF Dequeue, DequeueLost, BRPop
  <2>2. Queued = Queued' \cup {Head(queue)}
    BY <2>1, QueuedTail
  <2>3. NoDuplicates' /\ Head(queue) \notin Queued'
    BY <2>1, TailOld DEF PlacesApart
  <2> QED BY <2>1, <2>2, <2>3 DEF PlacesApart
<1>4. CASE DeadLetter
  <2>1. UNCHANGED queue /\ deadLetter' \subseteq deadLetter \cup {wrun} /\ wrun' = NoRun
    BY <1>4 DEF DeadLetter, MoveToDeadLetter
  <2>2. NoRun \notin deadLetter'
    BY <1>1, <1>4, <2>1 DEF DeadLetter, WorkerAt, WorkerHandsOK, Free
  <2> QED BY <1>1, <1>2, <2>1, <2>2 DEF PlacesApart, NoDuplicates, Queued
<1>5. CASE UNCHANGED <<queue, deadLetter>> /\ wrun' \in {wrun, NoRun}
  BY <1>1, <1>2, <1>5, QueueUntouched
<1> QED
  BY <1>3, <1>4, <1>5
  DEF Work, CheckContext, DequeueEmpty, Load, SetRunning, SetBuilding, Build, Launch,
      WaitForHealthy, SetSubRunning, StartFleet, Bench, Aggregate, Upsert, TearDownDone,
      CompleteRun, CompleteSub, TearDownFailed, FailRun, FailSub

\* As long as the Redis client repeats no push, a run is in one place, and the
\* worker's pipeline, whose UPDATEs test no status, runs at most once for it,
\* through every crash, restart, lost reply and failed statement.
THEOREM OnePlace ==
  ASSUME "retry" \notin Faults
  PROVE  Spec => []Custody
<1>1. Init => PlacesApart
  BY PlatformAssumption
  DEF Init, QueueInit, ApiInit, WorkerInit, PlacesApart, NoDuplicates, Queued
<1>2. TypeOK /\ KnownInv /\ PlacesApart /\ [Next]_vars => PlacesApart'
  <2> SUFFICES ASSUME TypeOK, KnownInv, PlacesApart, [Next]_vars PROVE PlacesApart'
    OBVIOUS
  <2>1. NoRun \notin Queued \cup deadLetter
    BY PlatformAssumption DEF TypeOK, QueueTypeOK, Queued
  <2>2. \A d \in Client : hpc[d] = "enqueue" => hrun[d] # NoRun
    BY DEF TypeOK, RequestHandsOK
  <2>3. ASSUME NEW c \in Client, Request(c), UNCHANGED workerVars PROVE PlacesApart'
    <3>1. UNCHANGED <<queue, deadLetter, wrun, hrun>>
      BY <2>3 DEF Request, CreateStage, CreateStageFails, DeleteRead, TriggerRead, Begin,
                  queueVars, apiVars, workerVars
    <3>2. \A d \in Client : hpc'[d] = "enqueue" => hpc[d] = "enqueue"
      BY <2>3 DEF Request, CreateStage, CreateStageFails, DeleteRead, TriggerRead, Begin,
                  apiVars, TypeOK, ApiTypeOK
    <3> QED BY <2>2, <3>1, <3>2, QueueUntouched
  <2>4. CASE Process
    BY <2>1, <2>2, <2>4, QueueUntouched
    DEF Process, Crash, Exit, Die, Shutdown, Restart, queueVars, apiVars, workerVars
  <2>5. CASE UNCHANGED vars
    BY <2>2, <2>5, QueueUntouched DEF vars, queueVars, apiVars, workerVars
  <2> QED BY <2>3, <2>4, <2>5, ContinueKeepsApart, WorkKeepsApart DEF Next
<1>3. TypeOK /\ PlacesApart => Custody
  BY ApartIsCustody
<1> QED BY <1>1, <1>2, <1>3, TypeCorrect, KnownRuns, PTL DEF Spec

-----------------------------------------------------------------------------
(* Statuses only move forward                                                 *)

Forward(old, new) ==
  \/ new = old
  \/ old # "absent" /\ new = "deleted"
  \/ old = "absent" /\ new = "queued"
  \/ old = "queued" /\ new \in {"running", "failed"}
  \/ old = "running" /\ new \in {"completed", "failed"}

\* A step that changes neither the places nor the worker's position, and rows
\* at most to "deleted".
LEMMA StageKept ==
  ASSUME TypeOK, StageInv, UNCHANGED <<queue, wpc, wrun>>,
         \A d \in Client : hpc'[d] = "enqueue" => hpc[d] = "enqueue" /\ hrun'[d] = hrun[d],
         \A r \in Run : runs'[r] \in {runs[r], "deleted"}
  PROVE  StageInv'
<1>1. Queued' = Queued /\ Queued \subseteq Run
  BY DEF Queued, TypeOK, QueueTypeOK
<1>2. HeldByRequests' \subseteq HeldByRequests /\ HeldByRequests \subseteq Run
  BY DEF HeldByRequests, TypeOK, ApiTypeOK, RequestHandsOK
<1>3. wpc \notin Free => wrun \in Run
  BY DEF TypeOK, WorkerTypeOK, WorkerHandsOK
<1> QED BY <1>1, <1>2, <1>3 DEF StageInv, Preparing, Holding, Free

LEMMA ContinueMovesForward ==
  ASSUME "retry" \notin Faults, TypeOK, KnownInv, PlacesApart, StageInv,
         NEW c \in Client, Continue(c), UNCHANGED workerVars
  PROVE  StageInv' /\ \A r \in Run : Forward(runs[r], runs'[r])
<1> USE DEF TypeOK, StateTypeOK, ApiTypeOK, RequestHandsOK, HandlerStep, Answer, Goto, At,
            dbVars, boardVars, queueVars, workerVars, Forward
<1>1. ASSUME UNCHANGED <<runs, queue>>,
             \A d \in Client : hpc'[d] = "enqueue" => hpc[d] = "enqueue" /\ hrun'[d] = hrun[d]
      PROVE  StageInv' /\ \A r \in Run : Forward(runs[r], runs'[r])
  BY <1>1, StageKept
<1>2. CASE CreateInsert(c)
  BY <1>1, <1>2 DEF CreateInsert
<1>3. CASE DeleteRow(c)
  <2>1. \A r \in Run : runs'[r] = runs[r] \/ (runs[r] # "absent" /\ runs'[r] = "deleted")
    BY <1>3 DEF DeleteRow, DeleteSubRow, RunExists, RunStatus
  <2>2. \A d \in Client : hpc'[d] = "enqueue" => hpc[d] = "enqueue" /\ hrun'[d] = hrun[d]
    BY <1>3 DEF DeleteRow
  <2> QED BY <1>3, <2>1, <2>2, StageKept DEF DeleteRow
<1>4. CASE DeleteRowFails(c)
  BY <1>1, <1>4 DEF DeleteRowFails
<1>5. CASE RemoveFiles(c)
  BY <1>1, <1>5 DEF RemoveFiles
<1>6. ASSUME NEW q \in Run, InsertRun(c, q)
      PROVE  StageInv' /\ \A r \in Run : Forward(runs[r], runs'[r])
  <2>1. UNCHANGED <<queue, wpc, wrun>> /\ runs[q] = "absent" /\ runs' = [runs EXCEPT ![q] = "queued"]
    BY <1>6 DEF InsertRun
  <2>2. q \notin Queued /\ (wpc \notin Free => wrun # q)
    BY <2>1 DEF KnownInv, Places, HeldByWorker, WorkerTypeOK, WorkerHandsOK
  <2>3. \A d \in Client : hpc'[d] = "enqueue" =>
          \/ hrun'[d] = q
          \/ hpc[d] = "enqueue" /\ hrun'[d] = hrun[d]
    BY <1>6 DEF InsertRun
  <2>4. HeldByRequests' \subseteq HeldByRequests \cup {q}
    BY <2>3 DEF HeldByRequests
  <2>5. Queued' = Queued
    BY <2>1 DEF Queued
  <2>6. \A r \in Run : runs'[r] = IF r = q THEN "queued" ELSE runs[r]
    BY <2>1
  <2>7. Queued \cup HeldByRequests \subseteq Run
    BY DEF Queued, QueueTypeOK, HeldByRequests
  <2>8. \A r \in Queued' \cup HeldByRequests' : runs'[r] \in {"queued", "deleted"}
    BY <2>4, <2>5, <2>6, <2>7 DEF StageInv
  <2>9. wpc \notin Free => wrun \in Run /\ runs'[wrun] = runs[wrun]
    BY <2>2, <2>6 DEF WorkerTypeOK, WorkerHandsOK
  <2>10. StageInv'
    BY <2>1, <2>8, <2>9 DEF StageInv, Preparing, Holding, Free
  <2> QED BY <2>1, <2>6, <2>10
<1>7. CASE InsertRunFails(c)
  BY <1>1, <1>7 DEF InsertRunFails
<1>8. CASE Enqueue(c)
  <2>1. hrun[c] \in Run /\ hrun[c] \in HeldByRequests
    BY <1>8 DEF Enqueue, HeldByRequests
  <2>2. Queued' \subseteq Queued \cup {hrun[c]}
    <3>1. CASE queue' = Append(queue, hrun[c])
      BY <2>1, <3>1, QueuedAppend DEF QueueTypeOK
    <3>2. CASE UNCHANGED queue
      BY <3>2 DEF Queued
    <3> QED BY <1>8, <3>1, <3>2 DEF Enqueue, EnqueueRun, LPush
  <2>3. HeldByRequests' \subseteq HeldByRequests
    BY <1>8 DEF Enqueue, HeldByRequests
  <2>4. UNCHANGED <<runs, wpc, wrun>>
    BY <1>8 DEF Enqueue
  <2> QED BY <2>1, <2>2, <2>3, <2>4 DEF StageInv
<1> QED BY <1>2, <1>3, <1>4, <1>5, <1>6, <1>7, <1>8 DEF Continue

LEMMA WorkMovesForward ==
  ASSUME TypeOK, PlacesApart, StageInv, Work, UNCHANGED apiVars
  PROVE  StageInv' /\ \A r \in Run : Forward(runs[r], runs'[r])
<1> USE DEF TypeOK, StateTypeOK, WorkerTypeOK, WorkerHandsOK, WorkerAt, WorkerGoto, Release,
            apiVars, dbVars, boardVars, queueVars, Forward, Preparing, Holding, Free
<1>1. HeldByRequests' = HeldByRequests /\ HeldByRequests \subseteq Run
  BY DEF HeldByRequests, ApiTypeOK, RequestHandsOK
<1>2. Queued \subseteq Run
  BY DEF Queued, QueueTypeOK
<1>3. wrun \notin Queued \cup HeldByRequests
  BY DEF PlacesApart, HeldByRequests
<1>4. CASE Dequeue \/ DequeueLost
  <2>1. queue # <<>> /\ queue' = Tail(queue) /\ UNCHANGED runs
        /\ ((wpc' = "load" /\ wrun' = Head(queue)) \/ wpc' = "loop")
    BY <1>4 DEF Dequeue, DequeueLost, BRPop
  <2>2. Queued = Queued' \cup {Head(queue)}
    BY <2>1, QueuedTail
  <2> QED BY <1>1, <2>1, <2>2 DEF StageInv
<1>5. CASE UNCHANGED <<runs, queue>> /\ (wpc' \in Free \cup {"failSub", "deadLetter", "completeSub"})
  BY <1>1, <1>5 DEF StageInv, Queued
<1>6. CASE UNCHANGED <<runs, queue, wrun>> /\ wpc' \in {"load", "setRunning"} /\ wpc \in {"load", "setRunning"}
  BY <1>1, <1>6 DEF StageInv, Queued
<1>7. CASE /\ UNCHANGED <<runs, queue, wrun>>
           /\ wpc \in (Preparing \ {"setRunning"}) \cup Holding \cup {"completeRun"}
           /\ wpc' \in (Preparing \ {"setRunning"}) \cup Holding \cup {"completeRun", "failRun"}
  BY <1>1, <1>7 DEF StageInv, Queued
<1>8. CASE Load
  BY <1>1, <1>8 DEF Load, StageInv, Queued
<1>9. ASSUME NEW v, UpdateRunStatus(wrun, v), wrun \in Run, UNCHANGED <<queue, wrun>>,
             \/ wpc = "setRunning" /\ v = "running" /\ wpc' \in {"setBuilding", "deadLetter"}
             \/ wpc = "completeRun" /\ v = "completed" /\ wpc' = "completeSub"
             \/ wpc = "failRun" /\ v = "failed" /\ wpc' = "failSub"
      PROVE  StageInv' /\ \A r \in Run : Forward(runs[r], runs'[r])
  <2>1. \A r \in Run : r # wrun => runs'[r] = runs[r]
    BY <1>9 DEF UpdateRunStatus
  <2>2. runs'[wrun] = IF runs[wrun] = "deleted" THEN "deleted" ELSE v
    BY <1>9 DEF UpdateRunStatus, RunExists, RunStatus, StageInv
  <2> QED BY <1>1, <1>2, <1>3, <1>9, <2>1, <2>2 DEF StageInv, Queued
<1>10. CASE SetRunning
  BY <1>5, <1>9, <1>10 DEF SetRunning
<1>11. CASE CompleteRun
  BY <1>5, <1>9, <1>11 DEF CompleteRun
<1>12. CASE FailRun
  BY <1>5, <1>9, <1>12 DEF FailRun
<1>13. CASE SetBuilding
  BY <1>5, <1>7, <1>13 DEF SetBuilding
<1>14. CASE Build \/ Launch \/ WaitForHealthy \/ SetSubRunning \/ StartFleet \/ Bench
  BY <1>5, <1>7, <1>14 DEF Build, Launch, WaitForHealthy, SetSubRunning, StartFleet, Bench
<1>15. CASE Aggregate \/ Upsert \/ TearDownDone \/ TearDownFailed
  BY <1>7, <1>15 DEF Aggregate, Upsert, TearDownDone, TearDownFailed
<1>16. CASE CheckContext \/ DequeueEmpty \/ CompleteSub \/ FailSub \/ DeadLetter
  BY <1>5, <1>16 DEF CheckContext, DequeueEmpty, CompleteSub, FailSub, DeadLetter, MoveToDeadLetter
<1> QED
  BY <1>4, <1>8, <1>10, <1>11, <1>12, <1>13, <1>14, <1>15, <1>16 DEF Work

LEMMA NextMovesForward ==
  ASSUME "retry" \notin Faults, TypeOK, KnownInv, Custody, StageInv, [Next]_vars
  PROVE  StageInv' /\ \A r \in Run : Forward(runs[r], runs'[r])
<1>1. PlacesApart
  BY ApartIsCustody
<1>2. ASSUME NEW c \in Client, Request(c), UNCHANGED workerVars
      PROVE  StageInv' /\ \A r \in Run : Forward(runs[r], runs'[r])
  <2>1. UNCHANGED <<runs, queue, wpc, wrun, hrun>>
    BY <1>2 DEF Request, CreateStage, CreateStageFails, DeleteRead, TriggerRead, Begin,
                dbVars, queueVars, apiVars, workerVars
  <2>2. \A d \in Client : hpc'[d] = "enqueue" => hpc[d] = "enqueue"
    BY <1>2 DEF Request, CreateStage, CreateStageFails, DeleteRead, TriggerRead, Begin,
                apiVars, TypeOK, ApiTypeOK
  <2> QED BY <2>1, <2>2, StageKept DEF Forward
<1>3. CASE Process
  <2>1. UNCHANGED <<runs, queue>>
    BY <1>3 DEF Process, Crash, Exit, Die, Shutdown, Restart, dbVars, queueVars
  <2>2. \A d \in Client : hpc'[d] = "enqueue" => hpc[d] = "enqueue" /\ hrun'[d] = hrun[d]
    BY <1>3 DEF Process, Crash, Exit, Die, Shutdown, Restart, apiVars
  <2>3. wpc' \in {"off", "loop"} \/ UNCHANGED <<wpc, wrun>>
    BY <1>3 DEF Process, Crash, Exit, Die, Shutdown, Restart, workerVars
  <2> QED BY <2>1, <2>2, <2>3 DEF Forward, StageInv, Queued, HeldByRequests, Preparing, Holding
<1>4. CASE UNCHANGED vars
  BY <1>4, StageKept DEF vars, dbVars, queueVars, apiVars, workerVars, Forward
<1> QED BY <1>1, <1>2, <1>3, <1>4, ContinueMovesForward, WorkMovesForward DEF Next

LEMMA StagesHold ==
  ASSUME "retry" \notin Faults
  PROVE  Spec => []StageInv
<1>1. Init => StageInv
  BY PlatformAssumption
  DEF Init, QueueInit, ApiInit, WorkerInit, Queued, StageInv, HeldByRequests, Preparing, Holding
<1>2. TypeOK /\ KnownInv /\ Custody /\ StageInv /\ [Next]_vars => StageInv'
  BY NextMovesForward
<1> QED BY <1>1, <1>2, OnePlace, TypeCorrect, KnownRuns, PTL DEF Spec

\* As long as the Redis client repeats no push, a run that has ended stays as
\* it is until it is deleted, and one that has begun is never queued again.
THEOREM EndedForGood ==
  ASSUME "retry" \notin Faults
  PROVE  Spec => RunsNeverReopen
<1>1. TypeOK /\ KnownInv /\ Custody /\ StageInv /\ [Next]_vars =>
        [\A r \in Run :
           /\ runs[r] \in Terminal => runs'[r] \in {runs[r], "deleted"}
           /\ runs[r] = "running" => runs'[r] # "queued"
           /\ runs[r] = "deleted" => runs'[r] = "deleted"]_vars
  BY NextMovesForward DEF Forward, Terminal
<1> QED BY <1>1, StagesHold, OnePlace, TypeCorrect, KnownRuns, PTL DEF Spec, RunsNeverReopen

-----------------------------------------------------------------------------
(* Containers                                                                 *)

LEMMA WorkLeavesNone ==
  ASSUME TypeOK, Work
  PROVE  \/ Abandoned' \subseteq Abandoned
         \/ DockerFails /\ wpc \in {"launch", "teardown", "failTearDown"}
         \/ proc = "stopping" /\ wpc = "bench"
<1> USE DEF Abandoned, TypeOK, StateTypeOK, WorkerTypeOK, WorkerHandsOK, Loading, Preparing,
            Holding, Closing, Failing, Free, WorkerAt, WorkerGoto, Release, DockerFails
<1>1. CASE Launch
  BY <1>1 DEF Launch, LaunchOk, LaunchFails, LaunchLeaks
<1>2. CASE TearDownDone
  BY <1>2 DEF TearDownDone, TearDown
<1>3. CASE TearDownFailed
  BY <1>3 DEF TearDownFailed, TearDown
<1>4. CASE Bench
  BY <1>4 DEF Bench
<1>5. CASE CheckContext \/ Dequeue \/ DequeueLost \/ DequeueEmpty \/ DeadLetter \/ CompleteSub
  BY <1>5 DEF CheckContext, Dequeue, DequeueLost, DequeueEmpty, DeadLetter, CompleteSub
<1>6. CASE Load \/ SetRunning \/ SetBuilding \/ Build \/ CompleteRun \/ FailRun \/ FailSub
  BY <1>6 DEF Load, SetRunning, SetBuilding, Build, CompleteRun, FailRun, FailSub
<1>7. CASE WaitForHealthy \/ SetSubRunning \/ StartFleet \/ Aggregate \/ Upsert
  BY <1>7 DEF WaitForHealthy, SetSubRunning, StartFleet, Aggregate, Upsert
<1> QED BY <1>1, <1>2, <1>3, <1>4, <1>5, <1>6, <1>7 DEF Work

LEMMA RequestsKeepContainers ==
  ASSUME NEW c \in Client, Request(c) \/ Continue(c)
  PROVE  UNCHANGED containers
BY DEF Request, CreateStage, CreateStageFails, DeleteRead, TriggerRead, Continue, CreateInsert,
       DeleteRow, DeleteRowFails, RemoveFiles, InsertRun, InsertRunFails, Enqueue

\* A container stays behind without an owner only when Docker fails at its
\* launch or tear-down, the process stops in the measurement, or it dies.
THEOREM NoneIsLeftBehind == Spec => NoneLeftBehind
<1> DEFINE Kept ==
      \/ Abandoned' \subseteq Abandoned
      \/ DockerFails /\ wpc \in {"launch", "teardown", "failTearDown"}
      \/ proc = "stopping" /\ wpc = "bench"
      \/ proc' = "down"
<1>1. TypeOK /\ [Next]_vars => [Kept]_vars
  <2> SUFFICES ASSUME TypeOK, Next PROVE Kept
    OBVIOUS
  <2>1. ASSUME NEW c \in Client, Request(c) \/ Continue(c), UNCHANGED workerVars PROVE Kept
    BY <2>1, RequestsKeepContainers DEF Abandoned, workerVars
  <2>2. CASE Work
    BY <2>2, WorkLeavesNone
  <2>3. CASE Process
    BY <2>3 DEF Process, Crash, Exit, Die, Shutdown, Restart, Abandoned, Holding, TypeOK,
                WorkerTypeOK, WorkerHandsOK, Free, workerVars
  <2> QED BY <2>1, <2>2, <2>3 DEF Next
<1> QED BY <1>1, TypeCorrect, PTL DEF Spec, NoneLeftBehind

\* With Docker answering and a process nobody stops, every container there is
\* belongs to the run in the worker's hands, and there is at most one.
THEOREM ContainersAreOwned ==
  ASSUME Faults \cap {"docker", "crash", "shutdown"} = {}
  PROVE  Spec => []ContainersOwned
<1> DEFINE Inv == proc = "up" /\ ContainersOwned
<1>1. Init => Inv
  BY DEF Init, StateInit, WorkerInit, ContainersOwned, Holding
<1>2. TypeOK /\ Inv /\ [Next]_vars => Inv'
  <2> SUFFICES ASSUME TypeOK, proc = "up", ContainersOwned, [Next]_vars PROVE Inv'
    OBVIOUS
  <2>1. ASSUME NEW c \in Client, Request(c) \/ Continue(c), UNCHANGED workerVars PROVE Inv'
    <3>1. UNCHANGED proc
      BY <2>1 DEF Request, CreateStage, CreateStageFails, DeleteRead, TriggerRead, Continue,
                  CreateInsert, DeleteRow, DeleteRowFails, RemoveFiles, InsertRun,
                  InsertRunFails, Enqueue
    <3> QED BY <2>1, <3>1, RequestsKeepContainers DEF ContainersOwned, workerVars
  <2>2. CASE Work
    <3> USE DEF ContainersOwned, TypeOK, StateTypeOK, WorkerTypeOK, WorkerHandsOK, Loading,
                Preparing, Holding, Closing, Failing, Free, WorkerAt, WorkerGoto, Release,
                DockerFails
    <3>1. CASE Launch
      BY <3>1 DEF Launch, LaunchOk, LaunchFails, LaunchLeaks
    <3>2. CASE TearDownDone
      BY <3>2 DEF TearDownDone, TearDown
    <3>3. CASE TearDownFailed
      BY <3>3 DEF TearDownFailed, TearDown
    <3>4. CASE Bench
      BY <3>4 DEF Bench
    <3>5. CASE CheckContext \/ Dequeue \/ DequeueLost \/ DequeueEmpty \/ DeadLetter \/ CompleteSub
      BY <3>5 DEF CheckContext, Dequeue, DequeueLost, DequeueEmpty, DeadLetter, CompleteSub
    <3>6. CASE Load \/ SetRunning \/ SetBuilding \/ Build \/ CompleteRun \/ FailRun \/ FailSub
      BY <3>6 DEF Load, SetRunning, SetBuilding, Build, CompleteRun, FailRun, FailSub
    <3>7. CASE WaitForHealthy \/ SetSubRunning \/ StartFleet \/ Aggregate \/ Upsert
      BY <3>7 DEF WaitForHealthy, SetSubRunning, StartFleet, Aggregate, Upsert
    <3> QED BY <2>2, <3>1, <3>2, <3>3, <3>4, <3>5, <3>6, <3>7 DEF Work
  <2>3. CASE Process
    BY <2>3 DEF Process, Crash, Exit, Shutdown, Restart
  <2>4. CASE UNCHANGED vars
    BY <2>4 DEF vars, workerVars, ContainersOwned
  <2> QED BY <2>1, <2>2, <2>3, <2>4 DEF Next
<1>3. Inv => ContainersOwned
  OBVIOUS
<1> QED BY <1>1, <1>2, <1>3, TypeCorrect, PTL DEF Spec

=============================================================================

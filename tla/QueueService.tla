----------------------------- MODULE QueueService -----------------------------
(* backend/services/queue_service.go: the Redis list that carries run ids     *)
(* from the API to the worker, and the dead-letter list nobody consumes.      *)
EXTENDS PlatformState

VARIABLES
  queue,       \* the list queue:benchmark_runs, next to be popped first
  deadLetter   \* runs that have an entry in the dead-letter list

queueVars == <<queue, deadLetter>>

QueueTypeOK ==
  /\ queue \in Seq(Run)
  /\ deadLetter \subseteq Run

QueueInit == queue = <<>> /\ deadLetter = {}

Queued == {queue[i] : i \in 1 .. Len(queue)}

\* LPUSH at the end BRPOP does not serve.
LPush(r) == queue' = Append(queue, r)

\* EnqueueRun(ctx, r).  The request's context may be gone, Redis may refuse,
\* and the client library repeats a push whose answer was lost (here, once).
EnqueueRun(r) ==
  /\ \/ LPush(r)
     \/ /\ "retry" \in Faults
        /\ queue' = Append(Append(queue, r), r)
     \/ /\ Faults \cap {"redis", "disconnect"} # {}
        /\ UNCHANGED queue
  /\ UNCHANGED deadLetter

\* Mutant: the oldest element is read and stays on the list.
BRPopPeek(r) ==
  /\ queue # <<>>
  /\ r = Head(queue)
  /\ UNCHANGED queueVars

\* BRPOP hands out the oldest element.
BRPop(r) ==
  /\ queue # <<>>
  /\ r = Head(queue)
  /\ queue' = Tail(queue)
  /\ UNCHANGED deadLetter

\* Mutant: the failed run is pushed onto the work queue again.
MoveToWorkQueue(r) ==
  /\ LPush(r)
  /\ UNCHANGED deadLetter

\* MoveToDeadLetter(ctx, r, reason): an LPUSH nobody checks, refused at once
\* when the worker's context is cancelled.
MoveToDeadLetter(r) ==
  /\ \/ /\ proc = "up"
        /\ deadLetter' = deadLetter \cup {r}
     \/ /\ "redis" \in Faults \/ proc = "stopping"
        /\ UNCHANGED deadLetter
  /\ UNCHANGED queue

=============================================================================

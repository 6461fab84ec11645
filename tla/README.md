# The benchmark platform in TLA+

A verification development for the distributed benchmark platform: TLA+ modules
translated from the source, TLC configurations that check them on small
instances, and theorems checked by TLAPS. Paths are relative to the root of the
repository; line numbers are those of the commit the modules were written from.

## The system

A contestant uploads a trading engine. The backend, one Go process, stages the
files, and on request queues a benchmark run. One background worker takes runs
off the queue, builds and launches the engine in a container, fires orders at it
with a fleet of bots, stores what it measures, computes a score and updates the
leaderboard.

```
 clients --HTTP--> handlers --SQL--> Postgres <--SQL-- worker --> scoring
                      |  \--files--> disk --------------^  |
                      +--LPUSH--> Redis list --BRPOP-----+  +--> Docker
                                                            +--> bot fleet --channel--> ingester --SQL--> Postgres
```

### Inventory

| component | state | operations | talks to |
|---|---|---|---|
| tables (`backend/migrations`) | status of submissions and runs, aggregates, leaderboard | INSERT, UPDATE, DELETE with cascades | everyone |
| queue (`services/queue_service.go`) | the run list, the dead letters | push, pop, dead-letter | handlers push, worker pops |
| sandbox (`services/sandbox_service.go`) | images and containers in Docker | build, launch, wait, tear down | worker |
| archives (`services/tar_helper.go`) | a submission's directory | extract, complete, ship | sandbox, disk |
| handlers (`api/submission_handler.go`) | one goroutine per request | Create, Delete, TriggerRun; List, Get, ListRuns read | tables, disk, queue |
| validator (`utils/validator.go`) | none | what an upload may be; pages | handlers |
| worker (`workers/benchmark_worker.go`) | the run in hand | loop, pipeline, failRun, completeRun | all services |
| scoring (`services/scoring_service.go`) | none | aggregate, normalise, upsert, publish | tables, Redis |
| fleet (`services/botfleet`) | bots, counters, channel, connections | Start, rampUp, bots, Stop | engine, ingester |
| order generator (`services/botfleet/order_gen.go`) | prices | generate | bots |
| ingester (`services/telemetry_ingester.go`) | window, histogram | ingest, flush, drain, Stop | fleet, tables, Redis |
| leaderboard stream (`api/leaderboard_handler.go`) | one socket and subscription per viewer | snapshot, subscribe, forward | tables, Redis |
| process (`cmd/main.go`, `docker-compose.yml`) | running, stopping, down | start, SIGTERM, exit, restart | owns handlers and worker |
| sample engines (Python, C++) | an order book | limit, market, cancel | bots |
| configuration, router, health, frontend | none of their own | input and output | |

### What is hard

- Handlers and worker share the tables with no transaction and no lock: what a
  SELECT said may be stale when the next statement runs.
- Every pipeline step can fail before or after its effect; several errors are
  ignored and two return on a path of their own.
- The process can be killed at any point, restarts with nothing in hand, and on
  SIGTERM goes on with a cancelled context.
- A reply of Redis can be lost: a pop loses its element, a push is repeated.
- When the window ends, bots, ramp, ingester, channel and worker shut down
  concurrently and in no fixed order.
- Every build works in the directory an earlier one may have left half-way, and
  a deletion may take that directory away meanwhile.
- A viewer of the leaderboard learns what it knows from two sources, the table
  and a channel that keeps nothing for those who are not listening.
- One sample engine forgets a cancelled order lazily, the other keeps time
  priority by a clock.

`hazards` in PROJECT.json lists these one by one, at their lines.

### What makes it correct

- Submission: whoever can see it can build it; it does not stay transient.
- Run: it is held in one place, is carried out at most once, ends, and never
  changes after.
- Leaderboard: it shows existing runs, and a submission's best.
- Containers: they exist only while the worker holds them.
- Measurement: what is scored is what was sent; the shutdown neither hangs nor,
  with REST, panics.
- Files: what is built is what was uploaded, all of it and nothing else.
- Stream: a viewer misses no score it could have been sent, and is never sent an
  older board after a newer one.
- Engines: each is an order book with price-time priority.

## Modules

```
PlatformState <- QueueService  <- SubmissionAPI --\
             <- SandboxService <- BenchmarkWorker -+-> Platform -> MCPlatform, PlatformProofs <- LedgerProofs
                                     RunLedger ----/
BotFleet <- TelemetryIngester <- Measurement -> MCMeasurement, MeasurementProofs
LeaderboardStream -> MCLeaderboardStream, LeaderboardStreamProofs
SubmissionFiles -> MCSubmissionFiles, SubmissionFilesProofs
Orders <- PythonBook -----\
       <- CppBook --------+-> MatchingEngines -> MCMatchingEngines, MatchingProofs <- AgreementProofs
       <- PriceTimeBook --/
```

| module | models |
|---|---|
| PlatformState | tables, staged files, containers, process; UPDATE and DELETE as operators |
| QueueService | the two Redis lists, with failures, lost replies and repeated pushes |
| SandboxService | the outcomes of the Docker calls |
| SubmissionAPI | the handlers that write; `hpc[c]` is the next external call of request `c` |
| BenchmarkWorker | loop, pipeline, scoring writes; `wpc` is the worker's next external call |
| Platform | their composition, the process's life, the properties |
| RunLedger | the abstract specification: accept, begin, rank, end, withdraw |
| BotFleet | bots, ramp, counters, channel; one action per step between shared accesses |
| TelemetryIngester | the select loop, one action per case, with the flush it calls |
| Measurement | one window: the worker's part of `processRun` around fleet and ingester |
| LeaderboardStream | the board's changes, their publication, and the `Stream` handler of each viewer |
| SubmissionFiles | one submission's directory: upload, extraction entry by entry, Dockerfile, build context, deletion |
| Orders | what a bot can send, what an answer can be, what a bot counts as a priority error |
| PriceTimeBook | the abstract specification of an order book: trade with the best and earliest, rest, cancel |
| PythonBook, CppBook | the two sample engines, one action per iteration of their loops |
| MatchingEngines | both under the same requests, their refinement of PriceTimeBook |
| PlatformProofs, LedgerProofs, MeasurementProofs, LeaderboardStreamProofs, MatchingProofs, AgreementProofs, SubmissionFilesProofs | the theorems |

A submission or run is a member of a finite set of identifiers; an identifier
not yet drawn is `"absent"`. Each action is one call to Postgres, Redis, Docker
or the disk with everything the code does up to the next call. `"db"` and
`"disconnect"` let a statement fail *after* its effect as well as before it.
Measurement refines the three steps `startFleet`, `bench` and `aggregate` of
BenchmarkWorker informally: the two are separate specifications, and the worker
of Platform assumes only that the window ends, which `WindowEnds` checks.
Likewise SubmissionFiles is what the step `build` does to a directory that
Platform knows only as staged or not, and LeaderboardStream follows the step
`upsert` to the viewers.

The channel of samples is the number of each kind it holds; what reads it only
counts, so that the order in it cannot matter. `metric_snapshots` is the sums of
its columns and the shapes of its rows, which is all `computeAggregate` derives
its counters, uptime and latency from. `dropped` and `lost` are history
variables: the code forgets these samples. So is `missed` in LeaderboardStream:
nobody in the code knows that a publication did not reach a viewer.

In LeaderboardStream a board is the number of changes the table had seen when it
was read, and whether it was read to the end; a version covers another when only
deletions lie between them. `Reads` is what either reader of the table can make
of it: neither asks `rows.Err()`, so that with `db` a board with rows can be cut
short and passes for the whole. The inbox is the Go channel of the subscription. In SubmissionFiles an upload is its
content, and a table says which contents are archives of what entries; a file
that was cut short is `"torn"`, and `reader` is what the archive held when
`unzipTo` opened it. In Orders a price is in cents once it is rounded; the middle
it is drawn from, which `updatePrice` does not round, and the distance are any
fractions with the denominator `Grain`, and the random draws are parameters; a
symbol is no part of an order because neither engine looks at it.

## Faults

The constant `Faults` says what the environment of an instance may do: `db`
(statement fails), `redis` (call fails, popped element lost), `retry` (push
repeated), `docker`, `disk`, `disconnect` (client gone, context cancelled),
`crash`, `shutdown`. Each property is checked under the faults it survives;
where one is left out, the property fails with it, and why is part of the
result:

- `Custody`, `RunsNeverReopen` without `retry`: a push repeated by the client
  library puts the run on the list twice; the worker's UPDATEs test no status
  and it carries out the run again, after it has ended.
- `StatusAgreement`, `BoardIsBest`, `KeepsLedger` without `db`, `crash` and
  `shutdown`: a status is only what the last successful statement wrote.
- `NoneLeftBehind` under all of them: it says which steps may abandon a
  container. `ContainersOwned`, that no container is ever abandoned, needs a
  platform without `docker`, `crash` and `shutdown`, and is a theorem there.
- Progress without `db`, `redis`, `disconnect`, `crash` and `shutdown`: each can
  drop a run that no one looks for again.

Measurement has `InsertFails` and `MayShutDown`, and a read of a WebSocket can
always fail. LeaderboardStream has `StreamFaults`: `db` (a statement fails, or the
reading of its rows breaks off), `redis` (a publication
lost for all or some) and `client` (a viewer stalls or goes). In SubmissionFiles
every file operation can fail, half-way too, and the process can die.

## Runs

| run | checks | instance |
|---|---|---|
| MCPlatform_faults | TypeOK, StagedBeforeRow, BoardBacked, Custody, RunsNeverReopen, NoneLeftBehind | 1 submission, 3 runs, 2 requests, all faults but `retry` |
| MCPlatform_status | StatusAgreement, BoardIsBest, KeepsLedger | 2 / 2 / 2, scores 0..2; `redis`, `docker`, `disk`, `disconnect` |
| MCPlatform_progress | QueuedIsHeld, RunsEnd, SubmissionsSettle, KeepsLedgerFairly | 1 / 2 / 2, `docker`, `disk`, fair |
| MCMeasurement_faults | TypeOK, Conservation, RowsAddUp, PanicNeedsWebSocket, WindowEnds | 2 bots, either protocol, failing INSERTs and reads, shutdown, fair |
| MCLeaderboardStream_faults | TypeOK, NothingMissing, NeverBackwards, GoneIsReleased, InboxIsShown | 1 viewer, 3 changes, an inbox of 2, all faults, fair |
| MCMatchingEngines | TypeOK, NotCrossed, Agree, NoFalsePriorityError, PyKeepsBook, CppKeepsBook | 4 orders, 2 prices a side, quantities 1 and 2 |
| MCSubmissionFiles | TypeOK, SourcesIntact, NothingElse, StaysDeleted | six archives and four single files, one an archive that is not named one |

What each shows:

- **Platform, faults**: whatever fails, whoever disconnects and whenever the
  process dies, files precede rows, the board is backed, no run is in two hands
  or written after its end, and every way out of the pipeline that is not itself
  a failure of Docker removes the container. The first three and the last are
  proved for `retry` too.
- **Platform, status**: the rows of the tables can be read as what the worker is
  doing, a worse run never replaces a better one on the board, and requests,
  queue and worker together are the sequential ledger.
- **Platform, progress**: an engine that does not build, never becomes healthy or
  never answers delays nobody for ever, and no error path forgets run or
  submission.
- **Measurement**: shutdown in every order leaves no order unaccounted for and
  the worker is not left waiting; the rows that are scored are what the fleet
  counted, but for what a WebSocket bot still has in hand; nobody panics but such
  a bot.
- **LeaderboardStream**: a publisher that read the board before a viewer did, a
  full inbox, a failing publication and a viewer that stalls do not make the
  viewer go back or miss a score, except one that was published to nobody or
  while the viewer was not subscribed, or whose board was cut short as it was
  read. The two properties exempt such a board itself, and nothing after it: the
  next whole board the viewer is shown is again one that takes nothing back. A
  viewer that is gone is released even
  when its handler waits in a write.
- **MatchingEngines**: cancelled orders in the heap never trade and never hide
  one that should; the vectors stay sorted through every insertion, fill and
  cancellation; and the engines, so differently built, give the same answers.
- **SubmissionFiles**: a build that failed or died at any file leaves nothing
  that a later build ships in place of a source. Two things it may leave are in
  the properties: a torn Dockerfile, which stays, and an archive from inside an
  archive, which a second build may take for the upload.

Bounds. Two runs are what it takes for one to disturb another and three for a
queue behind a run in hand; two requests interleave with each other and with the
worker in every way a pair can; two submissions separate what belongs to one
from what belongs to the other; three scores distinguish better, equal and
worse. `Sub`, `Run` and `Client` are symmetric and the safety runs say so; the
run with liveness does not use symmetry.

In Measurement one bot is spawned at once and one by the ramp; a channel of
capacity 1 is full with one sample; `MaxOrders` = 3 lets a bot send again after
a drop, `MaxTicks` = 1 puts one flush among the samples in every position and
`SeesStop` or another case puts one at the end; `ReadLimit` = 2, a thousand in
the library, lets a bot fail, go on and reach the limit. Viewers do not interact, so that one is every one; three changes are two scores and
a deletion in either order of the last two, or three scores: enough for a
board that is read, a submission deleted before it is published, and a viewer that
reads the table in between; an inbox of two has a first, a second and
overflows. Of the orders, four are two that rest at one price or at two, one that
takes from both, and one more behind; quantities of one and two leave either side
with a rest, or none. `Spread` 0 and just under 0.2 % at one mid
price of 175.005, which a bid without spread is rounded above, give two prices a
side, equal where the sides meet. Orders are symmetric: nothing but the request tells
one from another, and the run is of safety properties and refinements that are.
The archives of SubmissionFiles are: a folder, its contents with a path twice and
one that would leave the directory, a folder zipped on a Mac, one with an archive
that sorts before the upload, one with an archive of the upload's own name. A
Rust source whose content is an archive is what `FindArchive` must not take.

The window ends, a viewer leaves, orders run out and a submission is deleted for
good, so the runs of these modules do not check for deadlock; those of Platform
do.

A property that fails under a mutated definition shows that it depends on that
definition: PROJECT.json names one such mutation for every property checked, and
each mutated form stands, commented, before the definition it changes.

### Where the code does not do what it says

| run | property | what happens |
|---|---|---|
| MCPlatform_delete | NoDeleteWhileActive | the status is read, the worker begins, the DELETE runs |
| MCPlatform_stuck | NotStuckInBuilding | shutdown in a build: failRun works on the cancelled context |
| MCMeasurement_panic | NoPanic | a WebSocket bot outlives the 500 ms and sends on the closed channel |
| MCMeasurement_latency | AckedIsTimed | acknowledgements beyond 500 ms leave a p99 of 0 |
| MCLeaderboardStream_gap | ReceivesEveryScore | a score published between a viewer's first read and its subscription reaches it in no frame |

Others were met while modelling and have no run of their own:

- When Postgres fails among the rows of a board, the rows read so far are sent or
  published as all of it, for neither `sendLeaderboardSnapshot`
  (`leaderboard_handler.go:239`) nor `publishLeaderboardUpdate`
  (`scoring_service.go:226`) asks `rows.Err()`; `models/leaderboard.go:30` has the
  frontend receive the leaderboard "in full". The model has such boards (`Reads`).
- A push that Redis refuses is logged with "worker will poll"
  (`submission_handler.go:351`); nothing polls, and the run stays `queued`.
- `docs/architecture.md:81` has the ingester track priority errors; a sample has
  no field for one, and the column is always 0, while the fleet counts them
  (`worker.go:69-76`).
- A submission that has failed is built again by a run accepted before
  (`submission_handler.go:319` names the states it may run from, the worker does
  not look).
- A shutdown in the window leaves the container behind, for TearDown gets the
  cancelled context (`benchmark_worker.go:179`; README.md:142 has the layer
  "dropped post-test").
- `uptime_pct` counts windows with an acknowledgement, not, as
  `models/metric.go:42` says, those with no errors (`scoring_service.go:80`).
- Of two orders with one price and one microsecond the C++ engine puts the later
  one in front, against its comment "FIFO within same price level"
  (`main.cpp:139`): `lower_bound` finds the place before equals.
- `.tar.gz` is in every list of extensions and is refused, because `filepath.Ext`
  gives `.gz` (`validator.go:44`); a single `.cc` is accepted and the generated
  Dockerfile compiles `*.cpp` (`sandbox_service.go:275`).
- Both engines match orders of different symbols with each other: the Python one
  reads `symbol` and drops it (`main.py:51`), the C++ one does not read it.

## Fairness

Weak fairness of each request's continuation, of the worker, of the process's
exit and restart: the Go scheduler runs what can run, calls have time-outs (five
minutes for a build, thirty seconds for health, the drivers' own elsewhere), and
the backend container has `restart: unless-stopped`. No request is obliged to be
sent, no fault to happen, no engine to build or become healthy. In Measurement:
weak fairness of each bot, the ramp, the ingester and the worker; an answer or a
time-out of five seconds ends every call to the engine. The abstract `FairSpec`
of RunLedger is strongly fair to `Begin` because other runs are begun in
between; the queue's order gives it that.

In LeaderboardStream: weak fairness of the worker's publication and of each
handler and its reader, strong fairness of `Forward`, for Go's `select` takes a
ready case at random, and a client that stalls and reads again would otherwise
never be served; nothing obliges a client to read, or anyone to score. The
books and the files have no liveness to state: their loops are bounded by what
they consume, and a build may always fail.

## Proofs

`PlatformProofs`, for any sets of submissions, runs and requests and any scores:

| theorem | property | assumes |
|---|---|---|
| TypeCorrect | TypeOK | |
| FilesBeforeRow | StagedBeforeRow | |
| KnownRuns | KnownInv | |
| BoardIsBacked | BoardBacked | |
| OnePlace | Custody | `retry` not in Faults |
| EndedForGood | RunsNeverReopen | `retry` not in Faults |
| NoneIsLeftBehind | NoneLeftBehind | |
| ContainersAreOwned | ContainersOwned | `docker`, `crash`, `shutdown` not in Faults |

`StagedBeforeRow` is not inductive by itself: the INSERT of Create relies on its
files still being there and on no one else inserting the same row, and
`RemoveFiles` on the row being gone. `StagedInv` adds what each request in
progress knows. `BoardBacked` needs the foreign keys (`ReferenceInv`): a run has
its submission, an aggregate its run, and an upsert that is next finds its
aggregate or no run. `Custody` needs `KnownInv`, for a fresh identifier must not
be in any of the places already; the steps that move a run between places are
proved as lemmas on the places. `RunsNeverReopen` needs to know what the row of
a run says where the run is, `StageInv`, which holds only together with
`Custody`. `NoneLeftBehind` goes through the worker's steps with the types alone:
what is in `Holding` says for each whether the container is the worker's after
it. `ContainersOwned` is inductive once the process stays up.

`LedgerProofs`, for the same constants:

| theorem | property | assumes not in Faults |
|---|---|---|
| StatusesAgree | StatusAgreement | `retry`, `db`, `crash`, `shutdown` |
| BoardShowsBest | BoardIsBest | `retry`, `db`, `crash`, `shutdown` |
| ImplementsLedger | KeepsLedger | `retry`, `db`, `crash`, `shutdown` |
| QueuedRunsAreHeld | QueuedIsHeld | `db`, `redis`, `disconnect`, `crash`, `shutdown` |

These are the faults under which the properties hold at all (see Faults): the
runs of the same properties leave out the same ones. The properties lean on each
other. `StatusAgreement` says what a row means only because the worker is at one
run at a time, that run is nowhere else (`Custody`, `StageInv`), and a row of a
submission that is gone is gone with it (`CascadeInv`, the cascades seen from the
worker). `SteadyInv` says in which statuses the worker's own two rows can be at
each step of the pipeline; Delete changes them to `"deleted"` and nothing else
does. `BoardIsBest` needs that a run which has not been scored has no aggregate
(`UnscoredInv`): else a new run could begin with the score of another. The
refinement maps a run's row to the ledger, its submission to its owner and the
leaderboard's score to the best one; each step of a handler or the worker is then
`Accept`, `Begin`, `Rank`, `End` or `Withdraw`, or a stutter, by the statuses of
the rows it finds: `Begin` finds no other run begun by `StatusAgreement`, `End`
finds its own one begun, and `Rank` raises the score of the run in progress alone.
`QueuedIsHeld` is about the places a run passes through between its INSERT and
its UPDATE, and survives a repeated push.

`MeasurementProofs`, for any fleet, either protocol, any capacity and bounds:

| theorem | property |
|---|---|
| MeasurementTypeCorrect | TypeOK |
| NothingMislaid | Conservation |
| OnlyWebSocketPanics | PanicNeedsWebSocket |
| ScoredRowsAddUp | RowsAddUp |

`Conservation` is carried by `AccountInv`, which adds that before the window
nothing is anywhere and that a window has as many orders as acknowledgements and
failures. The two others rest on `OutlastInv`: after the channel is closed nobody
but a WebSocket bot is left to send and a panic is such a bot's (`NobodyLeft`),
the steps of the worker, the channel and the ingester come in their order
(`InOrder`), and an ingester that finished on a live context has left nothing in
the channel or window (`Settled`). It rests on the guard `Drained` of `Close`,
see below.

`LeaderboardStreamProofs`, for any viewers, any capacity of their inboxes and any
number of changes, whatever fails; the two properties exempt a board that was cut
short as it was read, and only that:

| theorem | property |
|---|---|
| StreamTypeCorrect | TypeOK |
| NobodyMissesWhatWasHeard | NothingMissing |
| FramesAdvance | NeverBackwards |

`StreamInv` adds what the two properties leave open, and says it of versions,
whether the board was cut short or not: no board anywhere is newer than the table
(`Past`); since the read of a board that is about to be published there have been
only deletions, for the one worker scores nobody meanwhile (`Fresh`); a handler
has messages only in its loop; and the version of each board in an inbox covers
those before it and that of the one that is shown (`Ordered`). A publication then keeps the order because
what it appends covers every board up to now, and `Forward` because the boards
behind the one in front only move up.

`MatchingProofs`, for any number of orders, any prices, quantities and spreads, in
fractions of any `Grain`:

| theorem | property | assumes |
|---|---|---|
| QuoteIsNear | a price is at most 0.2 % and half a cent away from the mid price, past it by half a cent at most, and no bid is above an ask of the same mid price | |
| EnginesTypeCorrect | TypeOK | |
| NeverCrossed | NotCrossed | |
| NoFalseErrors | NoFalsePriorityError | |
| PythonKeepsBook | PyKeepsBook | the clock advances |
| SortedVectorsKeepBook | CppKeepsBook | the clock advances |

The invariant `Inv` says of the heap that the dictionary has exactly its orders
with something remaining (`PyIndexed`), of the vectors that they hold every
resting order once, on its side (`CppShelved`), from the best price to the worst
(`CppSorted`), and of a request in progress that its last price suited it
(`PyReports`, `CppReports`). `NotCrossed` follows from the loop's end: what is on
top does not suit, so nothing that rests does (`PyNoneSuits`, `CppNoneSuits`). For
the refinements every resting order has a stamp of its own, not after the clock
(`PyStamped`, `CppStamped`): then what is on top is the one order of the abstract
book that comes first (`PyTopIsBest`), a cancelled one on top is a stuttering
step, and insertion with a later stamp is `Rest`. The lemmas
`InsertAtIs` and `RemoveAtIs` say what the sequence operators return; `CppInsertion` and
`CppRemovalKeeps` that they keep a vector sorted.

`AgreementProofs` compares the two books beyond what each of them promises:

| theorem | property | assumes |
|---|---|---|
| EnginesAgree | Agree | the clock advances |

The engines take an order one iteration at a time, and the Python engine may be
through with it before the C++ engine begins. `InStep` relates them at every
moment. Idle, they have the same quantities on their books, and their timestamps,
which differ, order the orders alike (`SameOrder`). While both work, the C++
engine's iterations lead from where it is to where the Python engine is; once the
Python engine has answered, they lead to where its loop ended. `Leads` says so
without counting them: the one is in every set that has the other and that no
iteration leaves. An iteration has one outcome, because of two resting orders at
most one precedes the other (`OneOutcome`), so the C++ engine's next iteration
stays on that path (`LeadsOn`) and it can stop nowhere but at its end
(`LeadsNoFurther`). That each engine's step is such an iteration is what the two
refinement theorems have shown. Nothing here is induction over the number of
trades, which the prover could not do; and `InStep` quantifies over sets of books,
which TLC could not check, so that only its consequence `Agree` has a run.

`SubmissionFilesProofs`, for any uploads, any archives, any entries and whatever
fails half-way:

| theorem | property |
|---|---|
| FilesTypeCorrect | TypeOK |
| SourcesAreShipped | SourcesIntact |
| NothingElseIsShipped | NothingElse |
| DeletedStaysDeleted | StaysDeleted |

`FilesInv` says what a directory can hold between any two steps. A build that is
extracting has written, of every path among the entries it has passed, the last
one (`Laid`); a build past that has written them all (`AllLaid`), and nothing it
does afterwards touches a source (`BuildInv`). Of an upload without archives
inside, the directory never has anything but the upload, sources and a
Dockerfile, whole or torn (`DirectoryInv`), and the archive a build opens is the
upload itself. `reader` matters here: what `unzipTo` goes on reading is what the
archive held when it was opened, and an entry may overwrite the archive.

The modules' assumptions name only what the constants are (`PlatformAssumption`,
`FleetAssumption`, `IngesterAssumption`, `MeasurementAssumption`,
`StreamAssumption`, `OrderAssumption`, `FilesAssumption`); the last adds that a
name without an extension, `Dockerfile`, is none the validator accepts and none
that ends in `.zip`. What is left out of `Faults` is assumed by the theorems that
need it, never by the module. So is that the clock advances (`Advances`), by
three theorems: with a tie the C++ engine does not keep time priority, and the
engines can leave different orders on their books and then answer differently.
`NeverCrossed` and `NoFalseErrors` hold whatever the clocks do.

Every invariant, every action property and every refinement under `Spec` that a
passing run checks is stated by a theorem, under no stronger assumption on faults
than the run's own. Only model-checked is what is temporal under fairness
(`RunsEnd`, `SubmissionsSettle`, `KeepsLedgerFairly`, `WindowEnds`,
`GoneIsReleased`, `InboxIsShown`), which is beyond the prover, and what the five
runs with a violation show.

## Abstractions

- Identifiers are fresh; that container and image names use the first eight
  characters only, and so could collide, is not modelled.
- Columns for display (times, container ids, targets, messages), images, limits,
  networks and logs are left out. So are the handlers that only read.
- A SELECT of a column that never changes is one step with the UPDATE after it
  (`failRun`, `upsertLeaderboard`).
- The score is any value: the arithmetic of `normalizeScores` is not in
  BenchmarkWorker.
- A call on a cancelled context fails without effect; a blocked BRPOP does not
  see the cancellation. `disconnect` is chosen per call, which allows more than
  one context does.
- A repeated push repeats once. The dead letters are a set, for nothing reads
  them. Redis evicting keys under memory pressure is not modelled.
- In SubmissionFiles RemoveAll is one step, between any two steps of a build;
  file names and contents are values, a directory is in the paths of its files,
  and of an entry's name only the first directory is told from the rest.
- `main` leaves on SIGTERM without waiting for the worker, at any time.
- `Drained`: the 500 ms in `Stop` are taken to be enough for every goroutine that
  can run to run, which is an assumption on time; a REST call ends when its
  context is cancelled, a WebSocket read does not.
- Measurement takes the protocol to be known (`fix` is REST) and the ramp to have
  a duration; the refusal of an unknown protocol is in `StartFleet` of
  BenchmarkWorker. Any answer can come to any order on a connection with no
  failed read.
- LeaderboardStream has one publisher, the worker, and bounds the changes of the
  table; an event of the ingester is a message with no board. A write to a client
  that reads succeeds; one to a client that is gone fails or is buffered.
- The engines run each request in one critical section; the model takes its loop
  one iteration at a time, with no other request in between. Prices are integers:
  cents in floating point compare as the cents do. A cancel has the identifier
  of any order, which is more than a bot does, whose cancels match none.

Not modelled:

- configuration, router, middleware, health probes, JSON envelopes, logging, the
  frontend: input and output, with no state of their own;
- `List`, `Get`, `ListRuns`, `Snapshot`, `RunMetrics` and pagination: reads that
  change nothing and keep nothing between two calls;
- the arithmetic of `normalizeScores` and `computeAggregate` and the random walk
  of the generator: logarithms and exponentials in floating point, of which only
  the order of scores and the shapes of rows matter to what is modelled;
- images, resource limits, networks and container logs of the sandbox.

## What is left

If the code grows or more is to be proved:

1. The non-temporal half of the progress properties: for `RunsEnd` and
   `WindowEnds`, that each step of the worker's and of the ingester's loop lowers
   a measure, and what is enabled when (without ENABLED, as the guards).
2. Measurement as a refinement of the three steps Platform knows it as, and
   SubmissionFiles of its step `build`, stated formally.
3. The engines under a clock with ties: what of price priority alone survives.

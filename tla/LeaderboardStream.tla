-------------------------- MODULE LeaderboardStream --------------------------
(* The live leaderboard: the worker stores a score and publishes the board    *)
(* (upsertLeaderboard, backend/services/scoring_service.go), and every        *)
(* WebSocket client of LeaderboardHandler.Stream                              *)
(* (backend/api/leaderboard_handler.go) is sent the board as it connects and  *)
(* then what is published.  A board is its version, how many changes the table *)
(* leaderboard had seen when it was read, and whether it was read to the end. *)
EXTENDS Naturals, Sequences

CONSTANTS
  Viewer,        \* clients of the stream
  InboxCap,      \* messages go-redis keeps for a subscription, 100
  MaxChanges,    \* bound of the model: changes of the table
  StreamFaults   \* what may go wrong: "db", "redis", "client"

ASSUME StreamAssumption ==
  /\ InboxCap \in Nat \ {0}
  /\ MaxChanges \in Nat
  /\ StreamFaults \subseteq {"db", "redis", "client"}

VARIABLES
  changes,    \* the changes of the table, "upsert" and "delete"
  publisher,  \* where upsertLeaderboard is
  fetched,    \* the board it is about to publish
  pc,         \* where each Stream handler is
  reader,     \* the goroutine each has started to read
  client,     \* whether the client reads what it is sent, stalls, or is gone
  snapshot,   \* the board the handler read for its first frame
  inbox,      \* messages of the subscription
  shown,      \* the board the client was last sent
  missed      \* the last board published never reached the inbox (history)

publisherVars == <<changes, publisher, fetched>>
viewerVars == <<pc, reader, client, snapshot, inbox, shown, missed>>
vars == <<publisherVars, viewerVars>>

Version == 0 .. MaxChanges
Board == [at : Version, whole : BOOLEAN]
Event == [at |-> MaxChanges + 1, whole |-> TRUE]   \* a LiveMetricEvent, on the same channel
Message == Board \cup {Event}

Empty == [at |-> 0, whole |-> TRUE]

Init ==
  /\ changes = << >>
  /\ publisher = "bench"
  /\ fetched = Empty
  /\ pc = [v \in Viewer |-> "off"]
  /\ reader = [v \in Viewer |-> "off"]
  /\ client = [v \in Viewer |-> "reads"]
  /\ snapshot = [v \in Viewer |-> Empty]
  /\ inbox = [v \in Viewer |-> << >>]
  /\ shown = [v \in Viewer |-> Empty]
  /\ missed = [v \in Viewer |-> FALSE]

Current == Len(changes)
Streaming == {v \in Viewer : pc[v] = "stream"}

HasRows ==
  Len(SelectSeq(changes, LAMBDA c : c = "delete")) < Len(SelectSeq(changes, LAMBDA c : c = "upsert"))

\* What a reader of the table makes of it.  The loop over the rows ends at the
\* last one or when the database fails, and skips a row that does not scan;
\* rows.Err() is not asked, and what there is of the board is taken for it.
Reads ==
  {[at |-> Current, whole |-> TRUE]}
    \cup {b \in {[at |-> Current, whole |-> FALSE]} : "db" \in StreamFaults /\ HasRows}

\* Those that have read the table and have not heard of this board since.
Unaware(heard) == [v \in Viewer |->
  IF v \in heard THEN FALSE ELSE pc[v] \in {"send", "subscribe", "stream"} \/ missed[v]]

-----------------------------------------------------------------------------
(* The worker and the API: the changes and what is published of them          *)

\* Mutant of Upsert and FetchBoard: the board is read before the row is written.
UpsertAfterFetch ==
  /\ publisher = "bench"
  /\ Current < MaxChanges
  /\ changes' = Append(changes, "upsert")
  /\ publisher' = "publish"
  /\ fetched' = [at |-> Current, whole |-> TRUE]
  /\ UNCHANGED viewerVars

\* The row is inserted or replaced, or the best score is another one and stays.
\* A statement whose answer is lost is an error, and nothing is published.
Upsert ==
  /\ publisher = "bench"
  /\ \/ /\ Current < MaxChanges
        /\ changes' = Append(changes, "upsert")
     \/ UNCHANGED changes
  /\ \/ /\ publisher' = "fetch"
        /\ UNCHANGED missed
     \/ /\ "db" \in StreamFaults
        /\ publisher' = "bench"
        /\ missed' = Unaware({})
  /\ UNCHANGED <<fetched, pc, reader, client, snapshot, inbox, shown>>

\* publishLeaderboardUpdate reads the table, whatever the upsert did...
FetchBoard ==
  /\ publisher = "fetch"
  /\ \/ /\ fetched' \in Reads
        /\ publisher' = "publish"
        /\ UNCHANGED missed
     \/ /\ "db" \in StreamFaults
        /\ publisher' = "bench"
        /\ missed' = Unaware({})
        /\ UNCHANGED fetched
  /\ UNCHANGED <<changes, pc, reader, client, snapshot, inbox, shown>>

\* Mutant of Fits: a subscription keeps whatever comes.
FitsAll == Streaming

\* A message goes to the subscriptions there are; one whose buffer is full
\* loses it, and so does one that is being re-established, or everyone when the
\* publication fails.
Fits == {v \in Streaming : Len(inbox[v]) < InboxCap}
Hearers == IF "redis" \in StreamFaults THEN SUBSET Fits ELSE {Fits}
Deliver(m, hearers) ==
  inbox' = [v \in Viewer |-> IF v \in hearers THEN Append(inbox[v], m) ELSE inbox[v]]

\* ...and publishes what it read.  An error is ignored.
PublishBoard ==
  /\ publisher = "publish"
  /\ publisher' = "bench"
  /\ \E hearers \in Hearers :
       /\ Deliver(fetched, hearers)
       /\ missed' = Unaware(hearers)
  /\ UNCHANGED <<changes, fetched, pc, reader, client, snapshot, shown>>

\* The ingester publishes an event on the same channel, during a benchmark.
PublishEvent ==
  /\ publisher = "bench"
  /\ \E hearers \in Hearers : Deliver(Event, hearers)
  /\ UNCHANGED <<publisherVars, pc, reader, client, snapshot, shown, missed>>

\* A submission with a row is deleted: its row goes with it, unpublished.
DeleteSubmission ==
  /\ Current < MaxChanges
  /\ HasRows
  /\ changes' = Append(changes, "delete")
  /\ UNCHANGED <<publisher, fetched, viewerVars>>

-----------------------------------------------------------------------------
(* LeaderboardHandler.Stream                                                  *)

Goto(v, step) == pc' = [pc EXCEPT ![v] = step]

\* The handler returns: sub.Close(), conn.Close().
Return(v) ==
  /\ Goto(v, "closed")
  /\ inbox' = [inbox EXCEPT ![v] = << >>]
  /\ UNCHANGED <<shown, missed>>

Upgrade(v) ==
  /\ pc[v] = "off"
  /\ Goto(v, "query")
  /\ UNCHANGED <<publisherVars, reader, client, snapshot, inbox, shown, missed>>

\* sendLeaderboardSnapshot reads the table...
QueryBoard(v) ==
  /\ pc[v] = "query"
  /\ \/ /\ \E b \in Reads : snapshot' = [snapshot EXCEPT ![v] = b]
        /\ missed' = [missed EXCEPT ![v] = FALSE]
        /\ Goto(v, "send")
        /\ UNCHANGED <<inbox, shown>>
     \/ /\ "db" \in StreamFaults
        /\ Return(v)
        /\ UNCHANGED snapshot
  /\ UNCHANGED <<publisherVars, reader, client>>

\* A write reaches a client that reads, blocks on one that stalls (no deadline
\* is set) and, on one that is gone, fails or fills a buffer.
Writes(v, m, next) ==
  /\ client[v] # "stalls"
  /\ Goto(v, next)
  /\ shown' = IF m = Event THEN shown ELSE [shown EXCEPT ![v] = m]

\* ...and writes it as one frame.
SendSnapshot(v) ==
  /\ pc[v] = "send"
  /\ \/ /\ Writes(v, snapshot[v], "subscribe")
        /\ UNCHANGED <<inbox, missed>>
     \/ client[v] = "gone" /\ Return(v)
  /\ UNCHANGED <<publisherVars, reader, client, snapshot>>

\* From here on the handler hears what is published; it starts its reader.
Subscribe(v) ==
  /\ pc[v] = "subscribe"
  /\ Goto(v, "stream")
  /\ reader' = [reader EXCEPT ![v] = "reads"]
  /\ UNCHANGED <<publisherVars, client, snapshot, inbox, shown, missed>>

\* Mutant of Forward: the latest message first.
ForwardLatest(v) ==
  /\ pc[v] = "stream"
  /\ inbox[v] # << >>
  /\ Writes(v, inbox[v][Len(inbox[v])], "stream")
  /\ inbox' = [inbox EXCEPT ![v] = SubSeq(@, 1, Len(@) - 1)]
  /\ UNCHANGED <<publisherVars, reader, client, snapshot, missed>>

\* The loop forwards a message.
Forward(v) ==
  /\ pc[v] = "stream"
  /\ inbox[v] # << >>
  /\ Writes(v, Head(inbox[v]), "stream")
  /\ inbox' = [inbox EXCEPT ![v] = Tail(@)]
  /\ UNCHANGED <<publisherVars, reader, client, snapshot, missed>>

\* Mutant of Leave: only a failed write ends the loop.
LeaveOnWrite(v) ==
  /\ pc[v] = "stream"
  /\ client[v] = "gone" /\ inbox[v] # << >>
  /\ Return(v)
  /\ UNCHANGED <<publisherVars, reader, client, snapshot>>

\* It ends when the reader has seen the client go, or when a write fails: of a
\* message, or of a ping.
Leave(v) ==
  /\ pc[v] = "stream"
  /\ reader[v] = "ended" \/ client[v] = "gone"
  /\ Return(v)
  /\ UNCHANGED <<publisherVars, reader, client, snapshot>>

\* The reader's ReadMessage fails: the client is gone, or the handler has
\* returned and closed the connection under it.
ReaderEnds(v) ==
  /\ reader[v] = "reads"
  /\ client[v] = "gone" \/ pc[v] = "closed"
  /\ reader' = [reader EXCEPT ![v] = "ended"]
  /\ UNCHANGED <<publisherVars, pc, client, snapshot, inbox, shown, missed>>

Serve(v) ==
  \/ QueryBoard(v) \/ SendSnapshot(v) \/ Subscribe(v) \/ Leave(v) \/ ReaderEnds(v)

\* The client stops reading, reads again, or goes away.
ClientActs(v) ==
  /\ "client" \in StreamFaults
  /\ pc[v] # "closed" /\ client[v] # "gone"
  /\ \E c \in {"reads", "stalls", "gone"} : client' = [client EXCEPT ![v] = c]
  /\ UNCHANGED <<publisherVars, pc, reader, snapshot, inbox, shown, missed>>

Publish == FetchBoard \/ PublishBoard
Next ==
  \/ Upsert \/ Publish \/ PublishEvent \/ DeleteSubmission
  \/ \E v \in Viewer : Upgrade(v) \/ Serve(v) \/ Forward(v) \/ ClientActs(v)

Spec == Init /\ [][Next]_vars

\* The goroutines run; nothing obliges anyone to change the board, to connect,
\* or to start reading again.  The loop of Stream selects among what is ready:
\* messages get their turn.
Fairness ==
  /\ WF_vars(Publish)
  /\ \A v \in Viewer : WF_vars(Serve(v)) /\ SF_vars(Forward(v))

FairSpec == Spec /\ Fairness

-----------------------------------------------------------------------------
TypeOK ==
  /\ changes \in Seq({"upsert", "delete"}) /\ Current <= MaxChanges
  /\ publisher \in {"bench", "fetch", "publish"}
  /\ fetched \in Board
  /\ pc \in [Viewer -> {"off", "query", "send", "subscribe", "stream", "closed"}]
  /\ reader \in [Viewer -> {"off", "reads", "ended"}]
  /\ client \in [Viewer -> {"reads", "stalls", "gone"}]
  /\ snapshot \in [Viewer -> Board]
  /\ inbox \in [Viewer -> Seq(Message)]
  /\ shown \in [Viewer -> Board]
  /\ missed \in [Viewer -> BOOLEAN]
  /\ \A v \in Viewer : Len(inbox[v]) <= InboxCap

\* The table at version m lacks nothing of what it had at version n but that
\* submissions were deleted since.
Covers(m, n) == \A i \in (m + 1) .. n : changes[i] = "delete"

\* A frame takes a score back only if its board was cut short: a whole board
\* lacks nothing that the frame before it was read from but deletions, although
\* the worker publishes a board it read some time ago and the viewer may have
\* read a newer one.
NeverBackwards == [][\A v \in Streaming :
  shown'[v] # shown[v] /\ shown'[v].whole => Covers(shown'[v].at, shown[v].at)]_vars

Boards(v) == {i \in 1 .. Len(inbox[v]) : inbox[v][i] # Event}

\* Board b is the last that viewer v has been sent or will be sent.
EndsWith(v, b) ==
  IF pc[v] = "send" THEN b = snapshot[v]
  ELSE IF Boards(v) = {} THEN b = shown[v]
  ELSE \E i \in Boards(v) : b = inbox[v][i] /\ \A j \in Boards(v) : j <= i

\* Once the worker is done publishing, a viewer has been sent or will be sent
\* every score of the table, unless the last board published never reached its
\* subscription (a failed or dropped publication, or one made after the viewer
\* read the table and before it subscribed), or the board it ends with was cut
\* short as it was read.
NothingMissing == \A v \in Viewer :
  publisher = "bench" /\ pc[v] \in {"send", "subscribe", "stream"} /\ ~missed[v] =>
    \A b \in Board : EndsWith(v, b) /\ b.whole => Covers(b.at, Current)

\* A client that is gone does not hold its handler, its subscription or its
\* reader for ever.
GoneIsReleased == \A v \in Viewer :
  (client[v] = "gone" /\ pc[v] # "off") ~> (pc[v] = "closed" /\ reader[v] # "reads")

\* A board that reached the inbox of a client that goes on reading is shown.
InboxIsShown == \A v \in Viewer : \A b \in Board :
  (pc[v] = "stream" /\ \E i \in Boards(v) : inbox[v][i] = b)
    ~> (shown[v] = b \/ client[v] # "reads" \/ pc[v] = "closed")

-----------------------------------------------------------------------------
(* What a comment of the code says and the code does not do                   *)

\* models/leaderboard.go:30: the leaderboard is what the frontend "receives in
\* full on connect and re-receives when any score changes".
ReceivesEveryScore == \A v \in Viewer : \A n \in 1 .. MaxChanges :
  (pc[v] = "stream" /\ n <= Current /\ changes[n] = "upsert") ~> (shown[v].at >= n)

=============================================================================

----------------------- MODULE LeaderboardStreamProofs -----------------------
(* Theorems about LeaderboardStream, for any viewers, any capacity of their   *)
(* inboxes and any number of changes, whatever fails.                         *)
EXTENDS LeaderboardStream, TLAPS

-----------------------------------------------------------------------------
(* Types                                                                      *)

LEMMA HearersFit ==
  ASSUME TypeOK, NEW hearers \in Hearers
  PROVE  hearers \subseteq Viewer /\ \A v \in hearers : pc[v] = "stream" /\ Len(inbox[v]) < InboxCap
BY DEF Hearers, Fits, Streaming

\* A publication puts one message behind the others, where it is heard.
LEMMA DeliverAppends ==
  ASSUME TypeOK, NEW m \in Message, NEW hearers \in Hearers, Deliver(m, hearers)
  PROVE  /\ inbox' \in [Viewer -> Seq(Message)]
         /\ \A v \in Viewer : Len(inbox'[v]) <= InboxCap
         /\ \A v \in hearers : /\ pc[v] = "stream"
                               /\ Len(inbox'[v]) = Len(inbox[v]) + 1
                               /\ inbox'[v][Len(inbox[v]) + 1] = m
                               /\ \A i \in 1 .. Len(inbox[v]) : inbox'[v][i] = inbox[v][i]
         /\ \A v \in Viewer \ hearers : inbox'[v] = inbox[v]
<1>1. hearers \subseteq Viewer /\ \A v \in hearers : pc[v] = "stream" /\ Len(inbox[v]) < InboxCap
  BY HearersFit
<1>2. inbox' = [v \in Viewer |-> IF v \in hearers THEN Append(inbox[v], m) ELSE inbox[v]]
  BY DEF Deliver
<1>3. \A v \in Viewer : inbox[v] \in Seq(Message) /\ Len(inbox[v]) <= InboxCap
  BY DEF TypeOK
<1>4. ASSUME NEW v \in Viewer PROVE Append(inbox[v], m) \in Seq(Message) /\ Len(inbox[v]) \in Nat
  <2>1. inbox[v] \in Seq(Message)
    BY <1>3
  <2> QED
    BY <2>1
<1>5. inbox' \in [Viewer -> Seq(Message)]
  BY <1>2, <1>3, <1>4
<1>6. \A v \in hearers : /\ inbox'[v] = Append(inbox[v], m)
                         /\ Len(Append(inbox[v], m)) = Len(inbox[v]) + 1
                         /\ Append(inbox[v], m)[Len(inbox[v]) + 1] = m
                         /\ \A i \in 1 .. Len(inbox[v]) : Append(inbox[v], m)[i] = inbox[v][i]
  BY <1>1, <1>2, <1>3
<1>7. \A v \in Viewer \ hearers : inbox'[v] = inbox[v]
  BY <1>2
<1>8. ASSUME NEW v \in Viewer PROVE Len(inbox'[v]) <= InboxCap
  <2>1. CASE v \in hearers
    BY <2>1, <1>1, <1>4, <1>6, StreamAssumption
  <2>2. CASE v \notin hearers
    BY <2>2, <1>3, <1>7
  <2> QED
    BY <2>1, <2>2
<1> QED
  BY <1>1, <1>5, <1>6, <1>7, <1>8

\* The loop takes the message in front.
LEMMA ForwardTakes ==
  ASSUME TypeOK, NEW v \in Viewer, Forward(v)
  PROVE  /\ inbox' \in [Viewer -> Seq(Message)]
         /\ Head(inbox[v]) = inbox[v][1] /\ inbox[v][1] \in Message
         /\ Len(inbox[v]) \in Nat \ {0}
         /\ Len(inbox'[v]) = Len(inbox[v]) - 1
         /\ \A i \in 1 .. Len(inbox'[v]) : inbox'[v][i] = inbox[v][i + 1]
         /\ \A u \in Viewer \ {v} : inbox'[u] = inbox[u]
<1>1. inbox[v] \in Seq(Message) /\ inbox[v] # << >>
  BY DEF TypeOK, Forward
<1>2. inbox' = [inbox EXCEPT ![v] = Tail(@)] /\ inbox \in [Viewer -> Seq(Message)]
  BY DEF TypeOK, Forward
<1>3. /\ Tail(inbox[v]) \in Seq(Message)
      /\ Len(Tail(inbox[v])) = Len(inbox[v]) - 1
      /\ \A i \in 1 .. Len(Tail(inbox[v])) : Tail(inbox[v])[i] = inbox[v][i + 1]
      /\ Len(inbox[v]) \in Nat \ {0}
      /\ Head(inbox[v]) = inbox[v][1] /\ inbox[v][1] \in Message
  BY <1>1
<1> QED
  BY <1>2, <1>3

\* The changes of the table are only added to.
Grows == changes' = changes \/ \E c \in {"upsert", "delete"} : changes' = Append(changes, c)

LEMMA ChangesGrow ==
  ASSUME TypeOK, [Next]_vars
  PROVE  Grows
BY DEF Next, vars, publisherVars, viewerVars, Publish, Serve, Upsert, FetchBoard, PublishBoard, PublishEvent,
       DeleteSubmission, Upgrade, QueryBoard, SendSnapshot, Subscribe, Leave, ReaderEnds, Forward,
       ClientActs, Return, Writes, Goto, Grows

\* Cut short or not, a board is read at the table's last change.
LEMMA ReadsTyped ==
  ASSUME TypeOK, NEW b \in Reads
  PROVE  b \in Board /\ b.at = Current
<1>1. Current \in Version
  <2>1. changes \in Seq({"upsert", "delete"}) /\ Current <= MaxChanges
    BY DEF TypeOK
  <2> QED
    BY <2>1, StreamAssumption DEF Current, Version
<1>2. b = [at |-> Current, whole |-> TRUE] \/ b = [at |-> Current, whole |-> FALSE]
  BY DEF Reads
<1>3. \A n \in Version, w \in BOOLEAN : [at |-> n, whole |-> w] \in Board
  BY DEF Board
<1>4. TRUE \in BOOLEAN /\ FALSE \in BOOLEAN
  OBVIOUS
<1>5. b \in Board
  BY <1>1, <1>2, <1>3, <1>4, Zenon
<1>6. b.at = Current
  BY <1>2
<1> QED
  BY <1>5, <1>6

LEMMA PublisherKeepsTypes ==
  ASSUME TypeOK, Upsert \/ Publish \/ PublishEvent \/ DeleteSubmission
  PROVE  TypeOK'
<1> USE DEF TypeOK, Version, Current
<1>1. CASE Upsert
  <2>1. changes' \in Seq({"upsert", "delete"}) /\ Len(changes') <= MaxChanges
    <3>1. CASE UNCHANGED changes
      BY <3>1
    <3>2. CASE Len(changes) < MaxChanges /\ changes' = Append(changes, "upsert")
      BY <3>2, StreamAssumption
    <3> QED
      BY <1>1, <3>1, <3>2 DEF Upsert
  <2>2. missed' \in [Viewer -> BOOLEAN]
    BY <1>1 DEF Upsert, Unaware
  <2> QED
    BY <1>1, <2>1, <2>2 DEF Upsert
<1>2. CASE FetchBoard
  <2>1. missed' \in [Viewer -> BOOLEAN]
    BY <1>2 DEF FetchBoard, Unaware
  <2>2. fetched' \in Board
    BY <1>2, ReadsTyped DEF FetchBoard
  <2> QED
    BY <1>2, <2>1, <2>2 DEF FetchBoard
<1>3. CASE PublishBoard
  <2>1. fetched \in Message
    BY DEF Message
  <2>2. PICK hearers \in Hearers : Deliver(fetched, hearers) /\ missed' = Unaware(hearers)
    BY <1>3 DEF PublishBoard
  <2>3. missed' \in [Viewer -> BOOLEAN]
    BY <2>2 DEF Unaware
  <2>4. inbox' \in [Viewer -> Seq(Message)] /\ \A v \in Viewer : Len(inbox'[v]) <= InboxCap
    BY <2>1, <2>2, DeliverAppends
  <2> QED
    BY <1>3, <2>3, <2>4 DEF PublishBoard
<1>4. CASE PublishEvent
  <2>1. PICK hearers \in Hearers : Deliver(Event, hearers)
    BY <1>4 DEF PublishEvent
  <2>2. inbox' \in [Viewer -> Seq(Message)] /\ \A v \in Viewer : Len(inbox'[v]) <= InboxCap
    BY <2>1, DeliverAppends DEF Message
  <2> QED
    BY <1>4, <2>2 DEF PublishEvent, publisherVars
<1>5. CASE DeleteSubmission
  <2>1. Len(changes) < MaxChanges /\ changes' = Append(changes, "delete")
    BY <1>5 DEF DeleteSubmission
  <2>2. changes' \in Seq({"upsert", "delete"}) /\ Len(changes') <= MaxChanges
    BY <2>1, StreamAssumption
  <2> QED
    BY <1>5, <2>2 DEF DeleteSubmission, viewerVars
<1> QED
  BY <1>1, <1>2, <1>3, <1>4, <1>5 DEF Publish

LEMMA ViewerKeepsTypes ==
  ASSUME TypeOK, NEW v \in Viewer, Upgrade(v) \/ Serve(v) \/ Forward(v) \/ ClientActs(v)
  PROVE  TypeOK'
<1> USE DEF TypeOK, Version, Current, publisherVars, Goto
<1>1. Len(changes) \in Nat /\ << >> \in Seq(Message) /\ Len(<< >>) <= InboxCap
  BY StreamAssumption
<1>2. CASE Upgrade(v)
  BY <1>2 DEF Upgrade
<1>3. CASE QueryBoard(v)
  <2>1. CASE Return(v) /\ UNCHANGED snapshot
    BY <1>1, <1>3, <2>1 DEF QueryBoard, Return
  <2>2. CASE /\ \E b \in Reads : snapshot' = [snapshot EXCEPT ![v] = b]
             /\ missed' = [missed EXCEPT ![v] = FALSE]
             /\ Goto(v, "send")
             /\ UNCHANGED <<inbox, shown>>
    <3>1. PICK b \in Reads : snapshot' = [snapshot EXCEPT ![v] = b]
      BY <2>2
    <3>2. b \in Board
      BY ReadsTyped
    <3> QED
      BY <1>3, <2>2, <3>1, <3>2 DEF QueryBoard
  <2> QED
    BY <1>3, <2>1, <2>2 DEF QueryBoard
<1>4. CASE SendSnapshot(v)
  <2>1. CASE Return(v) /\ UNCHANGED <<publisherVars, reader, client, snapshot>>
    BY <1>1, <2>1 DEF Return
  <2>2. CASE Writes(v, snapshot[v], "subscribe") /\ UNCHANGED <<publisherVars, reader, client, snapshot, inbox, missed>>
    BY <2>2 DEF Writes
  <2> QED
    BY <1>4, <2>1, <2>2 DEF SendSnapshot
<1>5. CASE Subscribe(v)
  BY <1>5 DEF Subscribe
<1>6. CASE Leave(v)
  BY <1>1, <1>6 DEF Leave, Return
<1>7. CASE ReaderEnds(v)
  BY <1>7 DEF ReaderEnds
<1>8. CASE Forward(v)
  <2>1. /\ inbox' \in [Viewer -> Seq(Message)]
        /\ Head(inbox[v]) \in Message
        /\ Len(inbox[v]) \in Nat /\ Len(inbox'[v]) = Len(inbox[v]) - 1
        /\ \A u \in Viewer \ {v} : inbox'[u] = inbox[u]
    BY <1>8, ForwardTakes
  <2>2. shown' \in [Viewer -> Board]
    BY <1>8, <2>1 DEF Forward, Writes, Message
  <2>3. ASSUME NEW u \in Viewer PROVE Len(inbox'[u]) <= InboxCap
    <3>1. Len(inbox[u]) <= InboxCap
      OBVIOUS
    <3>2. CASE u = v
      BY <2>1, <3>1, <3>2, StreamAssumption
    <3>3. CASE u # v
      <4>1. inbox'[u] = inbox[u]
        BY <2>1, <3>3
      <4> QED
        BY <3>1, <4>1
    <3> QED
      BY <3>2, <3>3
  <2> QED
    BY <1>8, <2>1, <2>2, <2>3 DEF Forward, Writes
<1>9. CASE ClientActs(v)
  BY <1>9 DEF ClientActs
<1> QED
  BY <1>2, <1>3, <1>4, <1>5, <1>6, <1>7, <1>8, <1>9 DEF Serve

LEMMA NextKeepsTypes == TypeOK /\ [Next]_vars => TypeOK'
<1> SUFFICES ASSUME TypeOK, [Next]_vars PROVE TypeOK'
  OBVIOUS
<1>1. CASE UNCHANGED vars
  BY <1>1 DEF TypeOK, vars, publisherVars, viewerVars, Current
<1>2. CASE Next
  BY <1>2, PublisherKeepsTypes, ViewerKeepsTypes DEF Next
<1> QED
  BY <1>1, <1>2

LEMMA InitTypes == Init => TypeOK
<1> SUFFICES ASSUME Init PROVE TypeOK
  OBVIOUS
<1>1. Empty \in Board
  BY StreamAssumption DEF Empty, Board, Version
<1> QED
  BY <1>1, StreamAssumption DEF Init, TypeOK, Current

\* Whatever fails, types hold, and no inbox exceeds its capacity.
THEOREM StreamTypeCorrect == Spec => []TypeOK
BY InitTypes, NextKeepsTypes, PTL DEF Spec

-----------------------------------------------------------------------------
(* Boards only grow old                                                       *)

\* No board a viewer holds is newer than the table.
Past(v) ==
  /\ snapshot[v].at <= Current /\ shown[v].at <= Current
  /\ \A i \in Boards(v) : inbox[v][i].at <= Current

\* Each board in an inbox was read when those before it, and the one that is
\* shown, had been: at a version that covers theirs.
Ordered(v) == \A i \in Boards(v) :
  /\ Covers(inbox[v][i].at, shown[v].at)
  /\ \A j \in Boards(v) : j < i => Covers(inbox[v][i].at, inbox[v][j].at)

\* The board the viewer ends with was read when nothing but deletions were to come.
Aware(v) == \A b \in Board : EndsWith(v, b) => Covers(b.at, Current)

\* Only a handler in its loop has messages.
ViewerInv(v) ==
  /\ Past(v)
  /\ pc[v] # "stream" => inbox[v] = << >>
  /\ Ordered(v)
  /\ publisher = "bench" /\ pc[v] \in {"send", "subscribe", "stream"} /\ ~missed[v] => Aware(v)

\* While the worker is about to publish a board nobody is scored: what the board
\* lacks is deletions.
Fresh == fetched.at <= Current /\ (publisher = "publish" => Covers(fetched.at, Current))

StreamInv == TypeOK /\ Fresh /\ \A v \in Viewer : ViewerInv(v)

\* Covers, of the changes there will be after the step.
CoversThen(m, n) == \A i \in (m + 1) .. n : changes'[i] = "delete"

LEMMA CoversKept ==
  ASSUME TypeOK, Grows
  PROVE  /\ Current <= Current'
         /\ \A m, n \in Nat : n <= Current /\ Covers(m, n) => CoversThen(m, n)
<1>1. changes \in Seq({"upsert", "delete"}) /\ Len(changes) \in Nat
  BY DEF TypeOK
<1>2. Len(changes) <= Len(changes') /\ \A i \in 1 .. Len(changes) : changes'[i] = changes[i]
  BY <1>1 DEF Grows
<1> QED
  BY <1>1, <1>2 DEF Current, Covers, CoversThen

LEMMA CoversThrough ==
  ASSUME NEW l \in Nat, NEW m \in Nat, NEW n \in Nat, Covers(l, n), m <= n
  PROVE  Covers(l, m)
BY DEF Covers

LEMMA BoardIsNoEvent ==
  ASSUME NEW b \in Board
  PROVE  b # Event
<1>1. b.at \in 0 .. MaxChanges /\ Event.at = MaxChanges + 1
  BY DEF Board, Version, Event
<1>2. ~(MaxChanges + 1 \in 0 .. MaxChanges)
  BY StreamAssumption
<1> QED
  BY <1>1, <1>2

LEMMA BoardTyped ==
  ASSUME TypeOK, NEW v \in Viewer, NEW i \in Boards(v)
  PROVE  inbox[v][i] \in Board /\ inbox[v][i].at \in Nat /\ i \in 1 .. Len(inbox[v])
<1>1. inbox[v] \in Seq(Message) /\ i \in 1 .. Len(inbox[v]) /\ inbox[v][i] # Event
  BY DEF TypeOK, Boards
<1>2. inbox[v][i] \in Message
  BY <1>1
<1> QED
  BY <1>1, <1>2, StreamAssumption DEF Message, Board, Version

LEMMA NumbersTyped ==
  ASSUME TypeOK
  PROVE  /\ Current \in Nat /\ fetched.at \in Nat
         /\ \A v \in Viewer : snapshot[v].at \in Nat /\ shown[v].at \in Nat /\ Len(inbox[v]) \in Nat
<1>1. changes \in Seq({"upsert", "delete"}) /\ fetched \in Board
  BY DEF TypeOK
<1>2. \A v \in Viewer : snapshot[v] \in Board /\ shown[v] \in Board /\ inbox[v] \in Seq(Message)
  BY DEF TypeOK
<1>3. \A v \in Viewer : Len(inbox[v]) \in Nat
  <2> TAKE v \in Viewer
  <2>1. inbox[v] \in Seq(Message)
    BY <1>2
  <2> QED
    BY <2>1
<1> QED
  BY <1>1, <1>2, <1>3, StreamAssumption DEF Current, Board, Version

LEMMA InitStream == Init => StreamInv
<1> SUFFICES ASSUME Init PROVE StreamInv
  OBVIOUS
<1>1. TypeOK
  BY InitTypes
<1>2. \A v \in Viewer : inbox[v] = << >> /\ Len(<< >>) = 0
  BY DEF Init
<1>3. \A v \in Viewer : Boards(v) = {}
  <2> TAKE v \in Viewer
  <2>1. Len(inbox[v]) = 0
    BY <1>2
  <2> QED
    BY <2>1 DEF Boards
<1> QED
  BY <1>1, <1>2, <1>3 DEF Init, StreamInv, Fresh, ViewerInv, Past, Ordered, Current, Empty

-----------------------------------------------------------------------------
(* What a step leaves of a viewer                                             *)

Untouched(v) ==
  /\ pc'[v] = pc[v] /\ snapshot'[v] = snapshot[v] /\ inbox'[v] = inbox[v] /\ shown'[v] = shown[v]

LEMMA OthersRest ==
  ASSUME StreamInv, NEW v \in Viewer, UNCHANGED publisherVars, Untouched(v), missed'[v] = missed[v]
  PROVE  ViewerInv(v)'
<1>1. ViewerInv(v)
  BY DEF StreamInv
<1> QED
  BY <1>1 DEF publisherVars, Untouched, ViewerInv, Past, Ordered, Aware, EndsWith, Boards, Covers, Current

\* When the table has changed what a viewer has is still not from the future
\* and still in order.
LEMMA TableMoves ==
  ASSUME StreamInv, Grows, NEW v \in Viewer, Untouched(v)
  PROVE  Past(v)' /\ Ordered(v)' /\ (pc'[v] # "stream" => inbox'[v] = << >>)
<1>1. TypeOK /\ ViewerInv(v)
  BY DEF StreamInv
<1>2. Boards(v)' = Boards(v)
  BY DEF Untouched, Boards
<1>3. Current <= Current' /\ Current' \in Nat /\ Current \in Nat
  <2>1. changes' \in Seq({"upsert", "delete"})
    <3>1. changes \in Seq({"upsert", "delete"})
      BY <1>1 DEF TypeOK
    <3> QED
      BY <3>1 DEF Grows
  <2> QED
    BY <1>1, <2>1, CoversKept, NumbersTyped DEF Current
<1>4. snapshot[v].at \in Nat /\ shown[v].at \in Nat /\ \A i \in Boards(v) : inbox[v][i].at \in Nat
  BY <1>1, NumbersTyped, BoardTyped
<1>5. Past(v)'
  BY <1>1, <1>2, <1>3, <1>4 DEF ViewerInv, Past, Untouched
<1>6. Ordered(v)'
  <2>1. \A m, n \in Nat : n <= Current /\ Covers(m, n) => CoversThen(m, n)
    BY <1>1, CoversKept
  <2>2. ASSUME NEW i \in Boards(v) PROVE CoversThen(inbox[v][i].at, shown[v].at)
    BY <1>1, <1>4, <2>1, <2>2 DEF ViewerInv, Past, Ordered
  <2>3. ASSUME NEW i \in Boards(v), NEW j \in Boards(v), j < i
        PROVE  CoversThen(inbox[v][i].at, inbox[v][j].at)
    BY <1>1, <1>4, <2>1, <2>3 DEF ViewerInv, Past, Ordered
  <2> QED
    BY <1>2, <2>2, <2>3 DEF Ordered, Covers, CoversThen, Untouched
<1> QED
  BY <1>1, <1>5, <1>6 DEF ViewerInv, Untouched

-----------------------------------------------------------------------------
(* The publisher's steps                                                      *)

\* Those that have read the table have missed the board, unless they heard it.
LEMMA UnawareMissed ==
  ASSUME TypeOK, NEW heard, missed' = Unaware(heard), pc' = pc, NEW v \in Viewer \ heard,
         pc'[v] \in {"send", "subscribe", "stream"}
  PROVE  missed'[v]
BY DEF Unaware

LEMMA UpsertStream ==
  ASSUME StreamInv, Upsert, TypeOK'
  PROVE  StreamInv'
<1>1. TypeOK /\ Grows
  BY DEF StreamInv, Upsert, Grows
<1>2. Fresh'
  BY <1>1, CoversKept, NumbersTyped DEF StreamInv, Fresh, Upsert, Current, TypeOK, Grows
<1>3. ASSUME NEW v \in Viewer PROVE ViewerInv(v)'
  <2>1. Untouched(v)
    BY DEF Upsert, Untouched
  <2>2. Past(v)' /\ Ordered(v)' /\ (pc'[v] # "stream" => inbox'[v] = << >>)
    BY <1>1, <2>1, TableMoves
  <2>3. publisher' = "bench" /\ pc'[v] \in {"send", "subscribe", "stream"} => missed'[v]
    BY <1>1, UnawareMissed DEF Upsert
  <2> QED
    BY <2>2, <2>3 DEF ViewerInv
<1> QED
  BY <1>2, <1>3 DEF StreamInv

LEMMA FetchStream ==
  ASSUME StreamInv, FetchBoard, TypeOK'
  PROVE  StreamInv'
<1>1. TypeOK /\ Grows /\ Current' = Current /\ Current \in Nat
  BY NumbersTyped DEF StreamInv, FetchBoard, Grows, Current
<1>2. Fresh'
  <2>1. CASE fetched' \in Reads
    <3>1. fetched'.at = Current
      BY <1>1, <2>1, ReadsTyped
    <3> QED
      BY <1>1, <3>1 DEF Fresh, Covers
  <2>2. CASE publisher' = "bench" /\ fetched' = fetched
    BY <1>1, <2>2 DEF StreamInv, Fresh
  <2> QED
    BY <2>1, <2>2 DEF FetchBoard
<1>3. ASSUME NEW v \in Viewer PROVE ViewerInv(v)'
  <2>1. Untouched(v)
    BY DEF FetchBoard, Untouched
  <2>2. Past(v)' /\ Ordered(v)' /\ (pc'[v] # "stream" => inbox'[v] = << >>)
    BY <1>1, <2>1, TableMoves
  <2>3. publisher' = "bench" /\ pc'[v] \in {"send", "subscribe", "stream"} => missed'[v]
    BY <1>1, UnawareMissed DEF FetchBoard
  <2> QED
    BY <2>2, <2>3 DEF ViewerInv
<1> QED
  BY <1>2, <1>3 DEF StreamInv

\* A deletion is the one change a board may lack.
LEMMA DeleteStream ==
  ASSUME StreamInv, DeleteSubmission, TypeOK'
  PROVE  StreamInv'
<1>1. TypeOK /\ Grows
  BY DEF StreamInv, DeleteSubmission, Grows
<1>2. \A m \in Nat : Covers(m, Current) => Covers(m, Current)'
  <2>1. changes \in Seq({"upsert", "delete"}) /\ changes' = Append(changes, "delete")
    BY <1>1 DEF TypeOK, DeleteSubmission
  <2>2. /\ Len(changes) \in Nat /\ Len(changes') = Len(changes) + 1
        /\ changes'[Len(changes) + 1] = "delete"
        /\ \A i \in 1 .. Len(changes) : changes'[i] = changes[i]
    BY <2>1
  <2> QED
    BY <2>2 DEF Covers, Current
<1>3. Fresh'
  <2>1. fetched' = fetched /\ publisher' = publisher /\ fetched.at \in Nat /\ Current <= Current'
        /\ Current \in Nat /\ Current' \in Nat
    BY <1>1, CoversKept, NumbersTyped DEF DeleteSubmission, TypeOK, Current
  <2>2. publisher = "publish" => Covers(fetched.at, Current)'
    BY <1>2, <2>1 DEF StreamInv, Fresh
  <2> QED
    BY <2>1, <2>2 DEF StreamInv, Fresh, Covers
<1>4. ASSUME NEW v \in Viewer PROVE ViewerInv(v)'
  <2>1. Untouched(v) /\ missed'[v] = missed[v] /\ publisher' = publisher
    BY DEF DeleteSubmission, Untouched, viewerVars
  <2>2. Past(v)' /\ Ordered(v)' /\ (pc'[v] # "stream" => inbox'[v] = << >>)
    BY <1>1, <2>1, TableMoves
  <2>3. Aware(v) => Aware(v)'
    <3>1. \A n : EndsWith(v, n)' = EndsWith(v, n)
      BY <2>1 DEF EndsWith, Boards, Untouched
    <3>2. \A b \in Board : b.at \in Nat
      BY StreamAssumption DEF Board, Version
    <3> QED
      BY <1>2, <3>1, <3>2 DEF Aware
  <2> QED
    BY <2>1, <2>2, <2>3 DEF ViewerInv, StreamInv, Untouched
<1> QED
  BY <1>3, <1>4 DEF StreamInv

LEMMA PublishStream ==
  ASSUME StreamInv, PublishBoard, TypeOK'
  PROVE  StreamInv'
<1>1. TypeOK /\ changes' = changes /\ fetched' = fetched /\ Current' = Current
  BY DEF StreamInv, PublishBoard, Current
<1>2. fetched \in Board /\ fetched.at \in Nat /\ Current \in Nat /\ fetched # Event
  <2>1. fetched \in Board
    BY <1>1 DEF TypeOK
  <2> QED
    BY <1>1, <2>1, NumbersTyped, BoardIsNoEvent
<1>3. fetched.at <= Current /\ Covers(fetched.at, Current)
  BY DEF StreamInv, Fresh, PublishBoard
<1>4. PICK hearers \in Hearers : Deliver(fetched, hearers) /\ missed' = Unaware(hearers)
  BY DEF PublishBoard
<1>5. fetched \in Message
  BY <1>2 DEF Message
<1>6. Fresh'
  BY <1>1, <1>3 DEF PublishBoard, Fresh
<1>7. ASSUME NEW v \in Viewer, v \notin hearers PROVE ViewerInv(v)'
  <2>1. Untouched(v)
    BY <1>1, <1>4, <1>5, <1>7, DeliverAppends DEF PublishBoard, Untouched
  <2>2. Past(v)' /\ Ordered(v)' /\ (pc'[v] # "stream" => inbox'[v] = << >>)
    BY <1>1, <2>1, TableMoves DEF Grows
  <2>3. pc'[v] \in {"send", "subscribe", "stream"} => missed'[v]
    BY <1>1, <1>4, <1>7, UnawareMissed DEF PublishBoard
  <2> QED
    BY <2>2, <2>3 DEF ViewerInv
<1>8. ASSUME NEW v \in Viewer, v \in hearers PROVE ViewerInv(v)'
  <2>1. /\ pc[v] = "stream" /\ pc' = pc /\ snapshot' = snapshot /\ shown' = shown
        /\ Len(inbox'[v]) = Len(inbox[v]) + 1
        /\ inbox'[v][Len(inbox[v]) + 1] = fetched
        /\ \A i \in 1 .. Len(inbox[v]) : inbox'[v][i] = inbox[v][i]
    BY <1>1, <1>4, <1>5, <1>8, DeliverAppends DEF PublishBoard
  <2>2. DEFINE last == Len(inbox[v]) + 1
  <2>3. Len(inbox[v]) \in Nat /\ snapshot[v].at \in Nat /\ shown[v].at \in Nat
        /\ \A i \in Boards(v) : inbox[v][i].at \in Nat /\ i \in 1 .. Len(inbox[v])
    BY <1>1, NumbersTyped, BoardTyped
  <2>4. Boards(v)' = Boards(v) \cup {last}
    BY <1>2, <2>1, <2>3 DEF Boards
  <2>5. \A i \in Boards(v) : inbox'[v][i] = inbox[v][i] /\ i < last
    BY <2>1, <2>3
  <2>6. Past(v) /\ Ordered(v)
    BY DEF StreamInv, ViewerInv
  <2>7. Past(v)'
    BY <1>1, <1>3, <2>1, <2>4, <2>5, <2>6 DEF Past
  <2>8. Ordered(v)'
    <3>1. \A n \in Nat : n <= Current => Covers(fetched.at, n)
      BY <1>2, <1>3, CoversThrough
    <3>2. Covers(fetched.at, shown[v].at) /\ \A i \in Boards(v) : Covers(fetched.at, inbox[v][i].at)
      BY <2>3, <2>6, <3>1 DEF Past
    <3>3. \A i \in Boards(v) : ~(last < i)
      BY <2>3, <2>5
    <3>4. ~(last < last)
      BY <2>3
    <3>5. \A m, n : Covers(m, n) => CoversThen(m, n)
      BY <1>1 DEF Covers, CoversThen
    <3>6. ASSUME NEW i \in Boards(v)'
          PROVE  /\ CoversThen(inbox'[v][i].at, shown'[v].at)
                 /\ \A j \in Boards(v)' : j < i => CoversThen(inbox'[v][i].at, inbox'[v][j].at)
      <4>1. CASE i = last
        BY <2>1, <2>4, <2>5, <3>2, <3>4, <3>5, <4>1
      <4>2. CASE i \in Boards(v)
        BY <2>1, <2>4, <2>5, <2>6, <3>3, <3>5, <4>2 DEF Ordered
      <4> QED
        BY <2>4, <3>6, <4>1, <4>2
    <3> QED
      BY <3>6 DEF Ordered, Covers, CoversThen
  <2>9. Aware(v)'
    <3>1. \A n : EndsWith(v, n)' => n = fetched
      <4>1. ASSUME NEW n, EndsWith(v, n)' PROVE n = fetched
        <5>1. PICK i \in Boards(v)' : n = inbox'[v][i] /\ \A j \in Boards(v)' : j <= i
          BY <2>1, <2>4, <4>1 DEF EndsWith
        <5>2. last <= i
          BY <2>4, <5>1
        <5>3. i \notin Boards(v)
          <6>1. \A j \in Boards(v) : ~(last <= j)
            BY <2>3, <2>5
          <6> QED
            BY <5>2, <6>1
        <5> QED
          BY <2>1, <2>4, <5>1, <5>3
      <4> QED
        BY <4>1
    <3>2. Covers(fetched.at, Current)'
      BY <1>1, <1>3 DEF Covers
    <3> QED
      BY <1>1, <3>1, <3>2 DEF Aware, Covers
  <2> QED
    BY <2>1, <2>7, <2>8, <2>9 DEF ViewerInv
<1> QED
  BY <1>6, <1>7, <1>8 DEF StreamInv

\* An event changes no board.
LEMMA EventStream ==
  ASSUME StreamInv, PublishEvent, TypeOK'
  PROVE  StreamInv'
<1>1. TypeOK /\ UNCHANGED publisherVars /\ Event \in Message
  BY DEF StreamInv, PublishEvent, Message
<1>2. PICK hearers \in Hearers : Deliver(Event, hearers)
  BY DEF PublishEvent
<1>3. Fresh'
  BY <1>1 DEF StreamInv, Fresh, publisherVars, Covers, Current
<1>4. ASSUME NEW v \in Viewer, v \notin hearers PROVE ViewerInv(v)'
  <2>1. Untouched(v) /\ missed'[v] = missed[v]
    BY <1>1, <1>2, <1>4, DeliverAppends DEF PublishEvent, Untouched
  <2> QED
    BY <1>1, <2>1, OthersRest
<1>5. ASSUME NEW v \in Viewer, v \in hearers PROVE ViewerInv(v)'
  <2>1. /\ pc[v] = "stream" /\ pc' = pc /\ snapshot' = snapshot /\ shown' = shown /\ missed' = missed
        /\ Len(inbox'[v]) = Len(inbox[v]) + 1
        /\ inbox'[v][Len(inbox[v]) + 1] = Event
        /\ \A i \in 1 .. Len(inbox[v]) : inbox'[v][i] = inbox[v][i]
    BY <1>1, <1>2, <1>5, DeliverAppends DEF PublishEvent
  <2>2. Len(inbox[v]) \in Nat
    BY <1>1, NumbersTyped
  <2>3. Boards(v)' = Boards(v) /\ \A i \in Boards(v) : inbox'[v][i] = inbox[v][i]
    BY <2>1, <2>2 DEF Boards
  <2>4. ViewerInv(v)
    BY DEF StreamInv
  <2>5. Past(v)' /\ Ordered(v)'
    BY <1>1, <2>1, <2>3, <2>4 DEF ViewerInv, Past, Ordered, publisherVars, Covers, Current
  <2>6. Aware(v) => Aware(v)'
    <3>1. \A n : EndsWith(v, n)' = EndsWith(v, n)
      BY <2>1, <2>3 DEF EndsWith
    <3> QED
      BY <1>1, <3>1 DEF Aware, publisherVars, Covers, Current
  <2> QED
    BY <1>1, <2>1, <2>4, <2>5, <2>6 DEF ViewerInv, publisherVars
<1> QED
  BY <1>3, <1>4, <1>5 DEF StreamInv

-----------------------------------------------------------------------------
(* The steps of a handler                                                     *)

\* A handler that has returned, or has not read the table, has nothing to show.
LEMMA SilentViewer ==
  ASSUME StreamInv, UNCHANGED publisherVars, NEW v \in Viewer,
         inbox'[v] = << >>, snapshot'[v] = snapshot[v], shown'[v] = shown[v],
         pc'[v] \in {"query", "closed"}
  PROVE  ViewerInv(v)'
<1>1. Len(inbox'[v]) = 0
  BY DEF StreamInv
<1>2. Boards(v)' = {}
  BY <1>1 DEF Boards
<1>3. Past(v)
  BY DEF StreamInv, ViewerInv
<1> QED
  BY <1>2, <1>3 DEF ViewerInv, Past, Ordered, publisherVars, Current

LEMMA UpgradeStream ==
  ASSUME StreamInv, NEW v \in Viewer, Upgrade(v)
  PROVE  ViewerInv(v)'
<1>1. inbox[v] = << >> /\ pc \in [Viewer -> {"off", "query", "send", "subscribe", "stream", "closed"}]
  BY DEF StreamInv, ViewerInv, TypeOK, Upgrade
<1> QED
  BY <1>1, SilentViewer DEF Upgrade, Goto

LEMMA ReturnStream ==
  ASSUME StreamInv, NEW v \in Viewer, Return(v), UNCHANGED <<publisherVars, snapshot>>
  PROVE  ViewerInv(v)'
<1>1. TypeOK
  BY DEF StreamInv
<1>2. pc'[v] = "closed" /\ inbox'[v] = << >>
  BY <1>1 DEF Return, Goto, TypeOK
<1> QED
  BY <1>2, SilentViewer DEF Return

LEMMA QueryStream ==
  ASSUME StreamInv, NEW v \in Viewer, QueryBoard(v)
  PROVE  ViewerInv(v)'
<1>1. TypeOK /\ UNCHANGED publisherVars /\ Current \in Nat
  BY NumbersTyped DEF StreamInv, QueryBoard
<1>2. CASE Return(v) /\ UNCHANGED snapshot
  BY <1>1, <1>2, ReturnStream DEF QueryBoard
<1>3. CASE /\ \E b \in Reads : snapshot' = [snapshot EXCEPT ![v] = b]
           /\ Goto(v, "send")
           /\ UNCHANGED <<inbox, shown>>
  <2>1. snapshot'[v].at = Current /\ pc'[v] = "send" /\ inbox'[v] = inbox[v] /\ shown'[v] = shown[v]
    <3>1. PICK b \in Reads : snapshot' = [snapshot EXCEPT ![v] = b]
      BY <1>3
    <3>2. b.at = Current
      BY <1>1, ReadsTyped
    <3> QED
      BY <1>1, <1>3, <3>1, <3>2 DEF Goto, TypeOK
  <2>2. inbox[v] = << >> /\ Past(v)
    BY DEF StreamInv, ViewerInv, QueryBoard
  <2>3. Len(inbox'[v]) = 0
    BY <2>1, <2>2
  <2>4. Boards(v)' = {}
    BY <2>3 DEF Boards
  <2>5. Current' = Current /\ Covers(Current, Current)'
    BY <1>1 DEF publisherVars, Current, Covers
  <2>6. Aware(v)'
    BY <2>1, <2>5 DEF Aware, EndsWith, Covers
  <2>7. Past(v)'
    BY <1>1, <2>1, <2>2, <2>4, <2>5 DEF Past
  <2> QED
    BY <2>1, <2>2, <2>4, <2>6, <2>7 DEF ViewerInv, Ordered
<1> QED
  BY <1>2, <1>3 DEF QueryBoard

LEMMA SendStream ==
  ASSUME StreamInv, NEW v \in Viewer, SendSnapshot(v)
  PROVE  ViewerInv(v)'
<1>1. TypeOK /\ UNCHANGED publisherVars
  BY DEF StreamInv, SendSnapshot
<1>2. CASE Return(v)
  BY <1>1, <1>2, ReturnStream DEF SendSnapshot
<1>3. CASE Writes(v, snapshot[v], "subscribe") /\ UNCHANGED <<inbox, missed>>
  <2>1. snapshot[v] # Event
    <3>1. snapshot[v] \in Board
      BY <1>1 DEF TypeOK
    <3> QED
      BY <3>1, BoardIsNoEvent
  <2>2. /\ pc[v] = "send" /\ pc'[v] = "subscribe" /\ shown'[v] = snapshot[v]
        /\ snapshot'[v] = snapshot[v] /\ inbox'[v] = inbox[v] /\ missed'[v] = missed[v]
    BY <1>1, <1>3, <2>1 DEF SendSnapshot, Writes, Goto, TypeOK
  <2>3. ViewerInv(v) /\ inbox[v] = << >>
    BY <2>2 DEF StreamInv, ViewerInv
  <2>4. Len(inbox[v]) = 0
    BY <2>3
  <2>5. Boards(v)' = {}
    BY <2>2, <2>4 DEF Boards
  <2>6. Past(v)' /\ Ordered(v)'
    BY <1>1, <2>2, <2>3, <2>5 DEF ViewerInv, Past, Ordered, publisherVars, Current
  <2>7. Aware(v) => Aware(v)'
    <3>1. \A n : EndsWith(v, n)' => EndsWith(v, n)
      BY <2>2, <2>5 DEF EndsWith
    <3> QED
      BY <1>1, <3>1 DEF Aware, publisherVars, Covers, Current
  <2> QED
    BY <1>1, <2>2, <2>3, <2>6, <2>7 DEF ViewerInv, publisherVars
<1> QED
  BY <1>2, <1>3 DEF SendSnapshot

LEMMA SubscribeStream ==
  ASSUME StreamInv, NEW v \in Viewer, Subscribe(v)
  PROVE  ViewerInv(v)'
<1>1. TypeOK /\ UNCHANGED publisherVars /\ UNCHANGED <<snapshot, inbox, shown, missed>>
  BY DEF StreamInv, Subscribe
<1>2. pc[v] = "subscribe" /\ pc'[v] = "stream"
  BY <1>1 DEF Subscribe, Goto, TypeOK
<1>3. ViewerInv(v)
  BY DEF StreamInv
<1>4. Boards(v)' = Boards(v) /\ \A n : EndsWith(v, n)' = EndsWith(v, n)
  BY <1>1, <1>2 DEF Boards, EndsWith
<1>5. Past(v)' /\ Ordered(v)'
  BY <1>1, <1>3, <1>4 DEF ViewerInv, Past, Ordered, publisherVars, Covers, Current
<1>6. Aware(v) => Aware(v)'
  BY <1>1, <1>4 DEF Aware, publisherVars, Covers, Current
<1> QED
  BY <1>1, <1>2, <1>3, <1>5, <1>6 DEF ViewerInv, publisherVars

\* The boards behind the one in front move up by one.
LEMMA ForwardStream ==
  ASSUME StreamInv, NEW v \in Viewer, Forward(v)
  PROVE  /\ ViewerInv(v)'
         /\ shown'[v] # shown[v] => Covers(shown'[v].at, shown[v].at)
<1>1. TypeOK /\ UNCHANGED publisherVars /\ ViewerInv(v)
  BY DEF StreamInv, Forward
<1>2. /\ Head(inbox[v]) = inbox[v][1] /\ Len(inbox[v]) \in Nat \ {0}
      /\ Len(inbox'[v]) = Len(inbox[v]) - 1
      /\ \A i \in 1 .. Len(inbox'[v]) : inbox'[v][i] = inbox[v][i + 1]
  BY <1>1, ForwardTakes
<1>3. /\ pc[v] = "stream" /\ pc'[v] = "stream"
      /\ snapshot'[v] = snapshot[v] /\ missed'[v] = missed[v]
      /\ shown'[v] = IF inbox[v][1] = Event THEN shown[v] ELSE inbox[v][1]
  BY <1>1, <1>2 DEF Forward, Writes, Goto, TypeOK
<1>4. \A i \in Boards(v)' : i + 1 \in Boards(v) /\ inbox'[v][i] = inbox[v][i + 1] /\ i \in Nat \ {0}
  BY <1>2 DEF Boards
<1>5. \A j \in Boards(v) : j \in Nat /\ (j = 1 \/ j - 1 \in Boards(v)')
  BY <1>2 DEF Boards
<1>6. inbox[v][1] # Event <=> 1 \in Boards(v)
  BY <1>2 DEF Boards
<1>7. Past(v)'
  BY <1>1, <1>3, <1>4, <1>6 DEF ViewerInv, Past, publisherVars, Current
<1>8. Ordered(v)'
  <2>1. ASSUME NEW i \in Boards(v)' PROVE Covers(inbox'[v][i].at, shown'[v].at)
    <3>1. i + 1 \in Boards(v) /\ 1 < i + 1
      BY <1>4
    <3> QED
      BY <1>1, <1>3, <1>4, <1>6, <3>1 DEF ViewerInv, Ordered
  <2>2. ASSUME NEW i \in Boards(v)', NEW j \in Boards(v)', j < i
        PROVE  Covers(inbox'[v][i].at, inbox'[v][j].at)
    <3>1. j + 1 < i + 1
      BY <1>4, <2>2
    <3> QED
      BY <1>1, <1>4, <3>1 DEF ViewerInv, Ordered
  <2> QED
    BY <1>1, <2>1, <2>2 DEF Ordered, Covers, publisherVars
<1>9. Aware(v) => Aware(v)'
  <2>1. ASSUME NEW n, EndsWith(v, n)' PROVE EndsWith(v, n)
    <3>1. CASE Boards(v)' # {}
      <4>1. PICK i \in Boards(v)' : n = inbox'[v][i] /\ \A j \in Boards(v)' : j <= i
        BY <1>3, <2>1, <3>1 DEF EndsWith
      <4>2. i + 1 \in Boards(v) /\ n = inbox[v][i + 1] /\ i \in Nat
        BY <1>4, <4>1
      <4>3. ASSUME NEW j \in Boards(v) PROVE j <= i + 1
        <5>1. CASE j = 1
          BY <4>2, <5>1
        <5>2. CASE j - 1 \in Boards(v)'
          BY <1>5, <4>1, <4>2, <5>2
        <5> QED
          BY <1>5, <5>1, <5>2
      <4> QED
        BY <1>3, <4>2, <4>3 DEF EndsWith
    <3>2. CASE Boards(v)' = {}
      <4>1. n = shown'[v] /\ \A j \in Boards(v) : j = 1
        BY <1>3, <1>5, <2>1, <3>2 DEF EndsWith
      <4>2. CASE 1 \in Boards(v)
        <5>1. n = inbox[v][1] /\ \A j \in Boards(v) : j <= 1
          BY <1>3, <1>6, <4>1, <4>2
        <5> QED
          BY <1>3, <4>2, <5>1 DEF EndsWith
      <4>3. CASE 1 \notin Boards(v)
        BY <1>3, <1>6, <4>1, <4>3 DEF EndsWith
      <4> QED
        BY <4>2, <4>3
    <3> QED
      BY <3>1, <3>2
  <2> QED
    BY <1>1, <2>1 DEF Aware, publisherVars, Covers, Current
<1>10. ViewerInv(v)'
  BY <1>1, <1>3, <1>7, <1>8, <1>9 DEF ViewerInv, publisherVars
<1>11. shown'[v] # shown[v] => Covers(shown'[v].at, shown[v].at)
  BY <1>1, <1>3, <1>6 DEF ViewerInv, Ordered
<1> QED
  BY <1>10, <1>11

-----------------------------------------------------------------------------
(* The theorems                                                               *)

\* A handler's step is its own.
LEMMA HandlerAlone ==
  ASSUME TypeOK, NEW v \in Viewer, Upgrade(v) \/ Serve(v) \/ Forward(v) \/ ClientActs(v)
  PROVE  /\ UNCHANGED publisherVars
         /\ \A u \in Viewer \ {v} : Untouched(u) /\ missed'[u] = missed[u]
BY DEF TypeOK, Upgrade, Serve, QueryBoard, SendSnapshot, Subscribe, Leave, ReaderEnds, Forward, ClientActs,
       Return, Writes, Goto, Untouched

LEMMA HandlerStream ==
  ASSUME StreamInv, NEW v \in Viewer, Upgrade(v) \/ Serve(v) \/ Forward(v) \/ ClientActs(v)
  PROVE  ViewerInv(v)'
<1>1. CASE ReaderEnds(v) \/ ClientActs(v)
  <2>1. UNCHANGED publisherVars /\ Untouched(v) /\ missed'[v] = missed[v]
    BY <1>1 DEF ReaderEnds, ClientActs, Untouched
  <2> QED
    BY <2>1, OthersRest
<1>2. CASE Leave(v)
  BY <1>2, ReturnStream DEF Leave
<1> QED
  BY <1>1, <1>2, UpgradeStream, QueryStream, SendStream, SubscribeStream, ForwardStream DEF Serve

LEMMA StreamInvKept == StreamInv /\ [Next]_vars => StreamInv'
<1> SUFFICES ASSUME StreamInv, [Next]_vars PROVE StreamInv'
  OBVIOUS
<1>1. TypeOK /\ TypeOK'
  BY NextKeepsTypes DEF StreamInv
<1>2. CASE UNCHANGED vars
  <2>1. UNCHANGED publisherVars /\ \A v \in Viewer : Untouched(v) /\ missed'[v] = missed[v]
    BY <1>2 DEF vars, viewerVars, Untouched
  <2>2. Fresh'
    BY <2>1 DEF StreamInv, Fresh, publisherVars, Covers, Current
  <2> QED
    BY <1>1, <2>1, <2>2, OthersRest DEF StreamInv
<1>3. CASE \E v \in Viewer : Upgrade(v) \/ Serve(v) \/ Forward(v) \/ ClientActs(v)
  <2>1. PICK v \in Viewer : Upgrade(v) \/ Serve(v) \/ Forward(v) \/ ClientActs(v)
    BY <1>3
  <2>2. UNCHANGED publisherVars /\ \A u \in Viewer \ {v} : Untouched(u) /\ missed'[u] = missed[u]
    BY <1>1, <2>1, HandlerAlone
  <2>3. Fresh'
    BY <2>2 DEF StreamInv, Fresh, publisherVars, Covers, Current
  <2>4. \A u \in Viewer \ {v} : ViewerInv(u)'
    BY <2>2, OthersRest
  <2>5. ViewerInv(v)'
    BY <2>1, HandlerStream
  <2> QED
    BY <1>1, <2>3, <2>4, <2>5 DEF StreamInv
<1> QED
  BY <1>1, <1>2, <1>3, UpsertStream, FetchStream, PublishStream, EventStream, DeleteStream DEF Next, Publish

\* A viewer that heard the last publication, or has read the table since, has or
\* gets every score of the table, but for a board that was cut short as it was
\* read: publishLeaderboardUpdate and sendLeaderboardSnapshot do not ask rows.Err().
THEOREM NobodyMissesWhatWasHeard == Spec => []NothingMissing
<1>1. StreamInv => NothingMissing
  BY DEF StreamInv, ViewerInv, Aware, NothingMissing
<1> QED
  BY <1>1, InitStream, StreamInvKept, PTL DEF Spec

\* No frame whose board was read to the end takes back a score of a frame before
\* it: only deletions come between the worker's read and its publication.
THEOREM FramesAdvance == Spec => NeverBackwards
<1>1. StreamInv /\ [Next]_vars =>
        [\A v \in Streaming :
           shown'[v] # shown[v] /\ shown'[v].whole => Covers(shown'[v].at, shown[v].at)]_vars
  <2> SUFFICES ASSUME StreamInv, [Next]_vars, NEW v \in Streaming, shown'[v] # shown[v]
               PROVE  Covers(shown'[v].at, shown[v].at)
    BY DEF vars, viewerVars
  <2>1. v \in Viewer /\ pc[v] = "stream" /\ TypeOK
    BY DEF Streaming, StreamInv
  <2>2. PICK u \in Viewer : Upgrade(u) \/ Serve(u) \/ Forward(u) \/ ClientActs(u)
    BY DEF Next, vars, viewerVars, Publish, Upsert, FetchBoard, PublishBoard, PublishEvent, DeleteSubmission
  <2>3. u = v
    BY <2>1, <2>2, HandlerAlone DEF Untouched
  <2>4. Forward(v)
    BY <2>1, <2>2, <2>3 DEF Upgrade, Serve, QueryBoard, SendSnapshot, Subscribe, Leave, ReaderEnds,
       ClientActs, Return
  <2> QED
    BY <2>1, <2>4, ForwardStream
<1> QED
  BY <1>1, InitStream, StreamInvKept, PTL DEF Spec, NeverBackwards

=============================================================================

---------------------------- MODULE StatusStream ----------------------------
(***************************************************************************)
(* The daemon's consumer of Arcade's status events: the SSE client         *)
(* (services/internal/arcade/sse.go), the queue, the batch applier and the *)
(* replay cursor (monitor/broadcast_events.go).                            *)
(*                                                                         *)
(* The server (external) keeps a log of events 1, 2, ...  A connection     *)
(* that names a Last-Event-ID gets what follows it; one without an id gets *)
(* only what is published from then on.  The id 0 is the empty id.         *)
(***************************************************************************)
EXTENDS Naturals, Sequences, FiniteSets, Functions

CONSTANTS
  MaxStatuses,  \* events the server publishes
  WithoutId,    \* events that carry no id
  Malformed,    \* frames that dispatchFrame skips
  QueueSize,    \* broadcastApplyQueueSize
  BatchMax,     \* broadcastApplyBatchMax
  MaxStops      \* stops and crashes of the daemon

ASSUME StreamAssumption == BatchMax \in Nat \ {0} /\ QueueSize \in Nat \ {0}

VARIABLES
  published,
  daemon,       \* "up", "stopping" (the context is cancelled), "down"
  streaming,    \* BroadcastStatusEvents is running
  connected,
  sent,         \* the last frame read on the connection
  reading,      \* the frame the reader is handing to the queue, or 0
  lastId,       \* StreamEvents' own Last-Event-ID
  queue,
  applier,      \* "idle", "apply", "done"
  drained,
  pending,      \* events of the batch no worker has finished
  memory,       \* the cursor in memory
  cursor,       \* the persisted cursor
  stops,
  attempted,    \* history: events applied, or failed, before the cancellation
  gap           \* history: events the server was never asked for

clientVars == <<streaming, connected, sent, reading, lastId>>
applierVars == <<applier, drained, pending>>
cursorVars == <<memory, cursor>>
streamVars == <<published, daemon, clientVars, queue, applierVars, cursorVars, stops, attempted, gap>>

StreamInit ==
  /\ published = 0
  /\ daemon = "down"
  /\ streaming = FALSE /\ connected = FALSE /\ sent = 0 /\ reading = 0 /\ lastId = 0
  /\ queue = <<>> /\ applier = "done" /\ drained = <<>> /\ pending = {}
  /\ memory = 0 /\ cursor = 0
  /\ stops = 0 /\ attempted = {} /\ gap = {}

PublishStatus ==
  /\ published < MaxStatuses /\ published' = published + 1
  /\ UNCHANGED <<daemon, clientVars, queue, applierVars, cursorVars, stops, attempted, gap>>

\* The start of the handler loads the cursor; a failed load goes on without one.
LoadCursor ==
  /\ daemon = "down" /\ daemon' = "up"
  /\ memory' \in {cursor, 0}
  /\ applier' = "idle"
  /\ UNCHANGED <<published, clientVars, queue, drained, pending, cursor, stops, attempted, gap>>

\* The reconnect loop of the handler calls the streamer with the cursor in memory.
StreamEvents ==
  /\ daemon = "up" /\ ~streaming
  /\ streaming' = TRUE /\ lastId' = memory
  /\ UNCHANGED <<published, daemon, connected, sent, reading, queue, applierVars, cursorVars,
                 stops, attempted, gap>>

\* The streamer returns: on a cancelled context, or though nobody asked it to.
StreamReturns ==
  /\ streaming /\ reading = 0
  /\ streaming' = FALSE /\ connected' = FALSE /\ sent' = 0 /\ lastId' = 0
  /\ UNCHANGED <<published, daemon, reading, queue, applierVars, cursorVars, stops, attempted, gap>>

\* The events that are somewhere between the server and the storage.
InHand == Range(queue) \cup pending

Connect ==
  /\ daemon = "up" /\ streaming /\ ~connected
  /\ connected' = TRUE
  /\ \/ lastId # 0 /\ sent' = lastId /\ UNCHANGED gap
     \/ /\ lastId = 0 /\ sent' = published
        /\ gap' = gap \cup ((1..published) \ (attempted \cup InHand))
  /\ UNCHANGED <<published, daemon, streaming, reading, lastId, queue, applierVars, cursorVars,
                 stops, attempted>>

\* The server ends the stream, a read fails, or the watchdog fires.
Disconnect ==
  /\ connected /\ reading = 0
  /\ connected' = FALSE /\ sent' = 0
  /\ UNCHANGED <<published, daemon, streaming, reading, lastId, queue, applierVars, cursorVars,
                 stops, attempted, gap>>

\* A frame is read: skipped, or to be handed to the queue.
ReadFrame(e) ==
  /\ connected /\ reading = 0 /\ sent < published /\ e = sent + 1
  /\ sent' = e
  /\ reading' = IF e \in Malformed THEN 0 ELSE e
  /\ UNCHANGED <<published, daemon, streaming, connected, lastId, queue, applierVars, cursorVars,
                 stops, attempted, gap>>

\* onEvent blocks the reader while the queue is full; a cancelled context drops the
\* event.  The id of a delivered frame is the next Last-Event-ID.
dispatchFrame ==
  /\ reading # 0 /\ reading' = 0
  /\ \/ Len(queue) < QueueSize /\ queue' = Append(queue, reading)
     \/ daemon = "stopping" /\ UNCHANGED queue
  /\ lastId' = IF reading \in WithoutId THEN lastId ELSE reading
  /\ UNCHANGED <<published, daemon, streaming, connected, sent, applierVars, cursorVars,
                 stops, attempted, gap>>

\* The applier blocks for an event and drains what is ready; with the context
\* cancelled it may as well return.
DrainQueue ==
  /\ applier = "idle" /\ queue # <<>>
  /\ LET n == IF Len(queue) < BatchMax THEN Len(queue) ELSE BatchMax
     IN  /\ drained' = SubSeq(queue, 1, n)
         /\ queue' = SubSeq(queue, n + 1, Len(queue))
  /\ applier' = "apply" /\ pending' = Range(drained')
  /\ UNCHANGED <<published, daemon, clientVars, cursorVars, stops, attempted, gap>>

ApplierExits ==
  /\ applier = "idle" /\ daemon = "stopping"
  /\ applier' = "done"
  /\ UNCHANGED <<published, daemon, clientVars, queue, drained, pending, cursorVars,
                 stops, attempted, gap>>

\* A worker applies an event; errors are swallowed.  Under a cancelled context the
\* storage may have refused it.
applyBroadcastEvent(e) ==
  /\ e \in pending /\ pending' = pending \ {e}
  /\ \/ attempted' = attempted \cup {e}
     \/ daemon = "stopping" /\ UNCHANGED attempted
  /\ UNCHANGED <<published, daemon, clientVars, queue, applier, drained, cursorVars, stops, gap>>

\* The id of the newest event of the batch that has one.
CursorOf(b) ==
  LET ids == {i \in DOMAIN b : b[i] \notin WithoutId}
  IN  IF ids = {} THEN 0 ELSE b[CHOOSE i \in ids : \A j \in ids : j <= i]

\* Mutant: the cursor is written whatever became of the context.
PersistCursorDetached ==
  /\ applier = "apply" /\ pending = {}
  /\ IF CursorOf(drained) = 0 THEN UNCHANGED cursorVars
                            ELSE cursor' = CursorOf(drained) /\ memory' = CursorOf(drained)
  /\ applier' = "idle" /\ drained' = <<>>
  /\ UNCHANGED <<published, daemon, clientVars, queue, pending, stops, attempted, gap>>

\* After the batch: SetKeyValue, which a cancelled context refuses, then the
\* cursor in memory.  The write may fail, or be done though it reports an error.
PersistCursor ==
  /\ applier = "apply" /\ pending = {}
  /\ LET id == CursorOf(drained)
     IN  \/ id # 0 /\ daemon = "up" /\ cursor' = id /\ memory' \in {id, memory}
         \/ UNCHANGED cursorVars
  /\ applier' = "idle" /\ drained' = <<>>
  /\ UNCHANGED <<published, daemon, clientVars, queue, pending, stops, attempted, gap>>

\* Daemon.Stop or Pause cancels the context and waits for the handler.
CancelHandler ==
  /\ daemon = "up" /\ stops < MaxStops
  /\ daemon' = "stopping" /\ stops' = stops + 1
  /\ UNCHANGED <<published, clientVars, queue, applierVars, cursorVars, attempted, gap>>

\* What a process keeps in memory is gone.
Gone ==
  /\ daemon' = "down"
  /\ streaming' = FALSE /\ connected' = FALSE /\ sent' = 0 /\ reading' = 0 /\ lastId' = 0
  /\ queue' = <<>> /\ applier' = "done" /\ drained' = <<>> /\ pending' = {}
  /\ memory' = 0
  /\ UNCHANGED <<published, cursor, attempted, gap>>

HandlerStopped ==
  /\ daemon = "stopping" /\ ~streaming /\ applier = "done"
  /\ Gone
  /\ UNCHANGED stops

CrashDaemon ==
  /\ daemon # "down" /\ stops < MaxStops /\ stops' = stops + 1
  /\ Gone

StreamNext ==
  \/ PublishStatus \/ LoadCursor \/ StreamEvents \/ StreamReturns \/ Connect \/ Disconnect
  \/ dispatchFrame \/ DrainQueue \/ ApplierExits \/ PersistCursor
  \/ CancelHandler \/ HandlerStopped \/ CrashDaemon
  \/ \E e \in 1..MaxStatuses : ReadFrame(e) \/ applyBroadcastEvent(e)

StreamSpec == StreamInit /\ [][StreamNext]_streamVars

-----------------------------------------------------------------------------
\* Types; the queue and the batch keep their limits, and the applier has returned
\* when the daemon is down.
StreamTypeOK ==
  /\ published \in 0..MaxStatuses /\ stops \in 0..MaxStops
  /\ daemon \in {"up", "stopping", "down"}
  /\ streaming \in BOOLEAN /\ connected \in BOOLEAN
  /\ sent \in 0..published /\ reading \in {0, sent} /\ lastId \in 0..published
  /\ queue \in Seq(1..published) /\ Len(queue) <= QueueSize
  /\ drained \in Seq(1..published) /\ Len(drained) <= BatchMax
  /\ applier \in {"idle", "apply", "done"} /\ pending \subseteq Range(drained)
  /\ memory \in 0..published /\ cursor \in 0..published
  /\ attempted \subseteq 1..published /\ gap \subseteq 1..published
  /\ connected => streaming
  /\ daemon = "down" => applier = "done" /\ ~streaming

\* "the cursor only advances to the last event of a fully applied batch"
\* (broadcast_events.go): no event at or before the persisted cursor is one that
\* was asked for and never attempted, whatever was in the queue at a stop or a
\* crash and however often the stream was replayed.
CursorCovers ==
  \A e \in 1..cursor : e \in attempted \cup gap \cup Malformed

=============================================================================

--------------------------- MODULE CommandStream ---------------------------
(***************************************************************************)
(* How a terminal page follows one command: the service persists each      *)
(* chunk and then publishes it, the broker hands a subscriber a snapshot   *)
(* and the events it missed, the stream server keeps one sink per socket,  *)
(* and the client applies what continues its offset and asks again for     *)
(* what does not.  While the client is not live the page polls the log.    *)
(*                                                                         *)
(* A chunk is one byte, and byte i is the i-th the command ever wrote, so  *)
(* a text is a sequence of byte numbers and a lifetime offset is a count.  *)
(* There is one command, one client page and one run of the server; a      *)
(* socket may drop at any time, taking what is on its wires with it.       *)
(***************************************************************************)
EXTENDS Integers, Sequences, FiniteSets

CONSTANTS
    Sockets,    \* socket objects; one is used again when both ends let go
    Sinks,      \* broker subscriptions; likewise
    MaxOutput,  \* chunks the command writes
    Retain,     \* bytes the log file keeps: MAX_COMMAND_OUTPUT_BYTES
    Window,     \* bytes a poll reads: TERMINAL_LOG_WINDOW_BYTES
    MaxResyncs, \* resyncs in one window of the client: maxResyncsPerWindow
    MaxMoves,   \* user calls, polls and dropped sockets
    NoSocket,   \* the client has no socket
    NoSink      \* the socket has no subscription

ASSUME SizesAssumption ==
    /\ {MaxOutput, Retain, Window, MaxResyncs, MaxMoves} \subseteq Nat \ {0}
    /\ IsFiniteSet(Sockets) /\ IsFiniteSet(Sinks)
    /\ NoSocket \notin Sockets /\ NoSink \notin Sinks

VARIABLES
    command, \* what the process has written, and where its operation queue is
    file,    \* the bytes the log file holds: from + 1 .. to
    record,  \* the persisted session: streamBytes, outputBytes, status
    sink,    \* the broker's entries, each with its handshake in the server
    conn,    \* each socket: both ends, its handshake counter and its wires
    client,  \* the client and its one subscription
    screen,  \* the console the page feeds: its text and its end offset
    poll,    \* the page's poll in flight
    moves    \* user calls and drops so far

vars == <<command, file, record, sink, conn, client, screen, poll, moves>>

Statuses == {"running", "exited"}
Offsets  == 0 .. MaxOutput
None     == -1

\* The bytes after offset lo up to offset hi.
Bytes(lo, hi) == [i \in 1 .. (IF hi > lo THEN hi - lo ELSE 0) |-> lo + i]

\* A read of the log file from a position in the file.
ReadLog(start, limit) ==
    LET end == file.from + start + limit
    IN  Bytes(file.from + start, IF end < file.to THEN end ELSE file.to)

Snapshot(text, end, status) ==
    [type |-> "snapshot", text |-> text, end |-> end, status |-> status]
Output(byte) == [type |-> "output", text |-> <<byte>>, end |-> byte, status |-> "running"]
StatusMessage(status) == [type |-> "status", text |-> <<>>, end |-> 0, status |-> status]

FreeSink   == [pc |-> "none", socket |-> NoSocket, generation |-> 0, wait |-> 0,
               bytes |-> 0, status |-> "running", buffer |-> <<>>]
FreeSocket == [link |-> FALSE, server |-> FALSE, browser |-> "none", handshake |-> 0,
               sub |-> NoSink, up |-> <<>>, down |-> <<>>]
NoPoll     == [pc |-> "none", bytes |-> 0, kept |-> 0, text |-> <<>>, end |-> 0]
NoScreen   == [text |-> <<>>, end |-> None, status |-> "running"]
NotSubscribed ==
    [socket |-> NoSocket, state |-> "disconnected", timer |-> FALSE, reading |-> FALSE,
     gone |-> FALSE, on |-> FALSE, base |-> FALSE, end |-> None, status |-> "running",
     pending |-> FALSE, resyncs |-> 0, armed |-> FALSE, told |-> FALSE]

Init ==
    /\ command = [written |-> 0, ended |-> FALSE, op |-> "idle", done |-> 0]
    /\ file = [from |-> 0, to |-> 0]
    /\ record = [bytes |-> 0, kept |-> 0, status |-> "running"]
    /\ sink = [h \in Sinks |-> FreeSink]
    /\ conn = [s \in Sockets |-> FreeSocket]
    /\ client = NotSubscribed
    /\ screen = NoScreen
    /\ poll = NoPoll
    /\ moves = 0

Page == <<client, screen, poll, moves>>

----------------------------------------------------------------------------
\* The service: one queue of operations per command.

\* The operations enqueued so far.
Enqueued == command.written + (IF command.ended THEN 1 ELSE 0)

\* The process writes a chunk, or exits: an operation joins the queue.
Write ==
    /\ ~command.ended
    /\ command.written < MaxOutput
    /\ command' = [command EXCEPT !.written = @ + 1]
    /\ UNCHANGED <<file, record, sink, conn, Page>>

Exit ==
    /\ ~command.ended
    /\ command' = [command EXCEPT !.ended = TRUE]
    /\ UNCHANGED <<file, record, sink, conn, Page>>

\* persistOutput appends to the log.  A file over the ring size is written
\* again with its tail, and is empty in between.
AppendLog ==
    /\ command.op = "idle"
    /\ command.done < command.written
    /\ file' = [file EXCEPT !.to = @ + 1]
    /\ command' = [command EXCEPT !.op = IF file'.to - file.from > Retain
                                         THEN "trim" ELSE "commit"]
    /\ UNCHANGED <<record, sink, conn, Page>>

Trim ==
    /\ command.op = "trim"
    /\ file' = [file EXCEPT !.from = file.to]
    /\ command' = [command EXCEPT !.op = "rewrite"]
    /\ UNCHANGED <<record, sink, conn, Page>>

Rewrite ==
    /\ command.op = "rewrite"
    /\ file' = [file EXCEPT !.from = file.to - Retain]
    /\ command' = [command EXCEPT !.op = "commit"]
    /\ UNCHANGED <<record, sink, conn, Page>>

CommitOutput ==
    /\ command.op = "commit"
    /\ record' = [record EXCEPT !.bytes = @ + 1, !.kept = file.to - file.from]
    /\ command' = [command EXCEPT !.op = "publish"]
    /\ UNCHANGED <<file, sink, conn, Page>>

\* Messages put on a socket: lost when the link is down, and not sent at all
\* to a socket the server has closed.
Sent(c, messages) == IF c.link /\ c.server THEN [c EXCEPT !.down = @ \o messages] ELSE c

\* broker.publish: an entry in its handshake buffers, a live one is sent to.
\* What the handshake of a closed socket buffers is sent nowhere: left out.
Publish(message) ==
    /\ sink' = [h \in Sinks |->
                  IF sink[h].pc \in {"session", "state", "log"} /\ conn[sink[h].socket].server
                  THEN [sink[h] EXCEPT !.buffer = Append(@, message)]
                  ELSE sink[h]]
    /\ conn' = [s \in Sockets |->
                  IF \E h \in Sinks : sink[h].pc = "live" /\ sink[h].socket = s
                  THEN Sent(conn[s], <<message>>)
                  ELSE conn[s]]

PublishOutput ==
    /\ command.op = "publish"
    /\ Publish(Output(record.bytes))
    /\ command' = [command EXCEPT !.op = "idle", !.done = @ + 1]
    /\ UNCHANGED <<file, record, Page>>

\* persistExit, behind every chunk in the queue.
CommitExit ==
    /\ command.op = "idle"
    /\ command.ended /\ command.done = command.written
    /\ record' = [record EXCEPT !.status = "exited"]
    /\ command' = [command EXCEPT !.op = "status"]
    /\ UNCHANGED <<file, sink, conn, Page>>

PublishStatus ==
    /\ command.op = "status"
    /\ Publish(StatusMessage("exited"))
    /\ command' = [command EXCEPT !.op = "idle", !.done = @ + 1]
    /\ UNCHANGED <<file, record, Page>>

----------------------------------------------------------------------------
\* The broker's handshake: who owns it, the queue's tail, the record, the log.

GetSession(h) ==
    /\ sink[h].pc = "session"
    /\ sink' = [sink EXCEPT ![h].pc = "state", ![h].wait = Enqueued]
    /\ UNCHANGED <<command, file, record, conn, Page>>

ReadSession(h) ==
    /\ sink[h].pc = "state"
    /\ command.done >= sink[h].wait
    /\ sink' = [sink EXCEPT ![h].pc = "log", ![h].bytes = record.bytes,
                            ![h].status = record.status, ![h].wait = 0]
    /\ UNCHANGED <<command, file, record, conn, Page>>

\* readBrokerSnapshot: the retained bytes end at the lifetime count read
\* before them, or at their own length when that is more.
BrokerSnapshot(k) ==
    LET text == ReadLog(0, Retain)
    IN  Snapshot(text, IF k.bytes >= Len(text) THEN k.bytes ELSE Len(text), k.status)

\* Mutant: whatever was buffered during the handshake counts as said.
CoveredBySubscribing(message, snapshot) == message.type # "snapshot"

\* What of the buffer the snapshot already says.
IsCoveredBySnapshot(message, snapshot) ==
    \/ message.type = "output" /\ message.end <= snapshot.end
    \/ message.type = "status" /\ snapshot.status = message.status

\* The rest of the buffer, in its order.
Uncovered(buffer, snapshot) ==
    LET rest[i \in 0 .. Len(buffer)] ==
            IF i = 0 THEN <<>>
            ELSE IF IsCoveredBySnapshot(buffer[i], snapshot) THEN rest[i - 1]
            ELSE Append(rest[i - 1], buffer[i])
    IN  rest[Len(buffer)]

Reply(k) ==
    LET snapshot == BrokerSnapshot(k)
    IN  <<snapshot>> \o Uncovered(k.buffer, snapshot)

\* Mutant: only a handshake whose socket closed is dropped.
SupersededByClose(k) == ~conn[k.socket].server

\* Only the latest handshake of a socket may install its sink.
Superseded(k) == conn[k.socket].handshake # k.generation

\* The log is read and the snapshot and the rest of the buffer are sent; then
\* the server installs the sink, or drops it when the handshake was
\* superseded or the socket closed.
Complete(h) ==
    LET k == sink[h]
        s == k.socket
        sent == Sent(conn[s], Reply(k))
    IN  /\ k.pc = "log"
        /\ \/ /\ Superseded(k)
              /\ conn' = [conn EXCEPT ![s] = sent]
              /\ sink' = [sink EXCEPT ![h] = FreeSink]
           \/ /\ ~Superseded(k)
              /\ conn' = [conn EXCEPT ![s] = [sent EXCEPT !.handshake = 0, !.sub = h]]
              /\ sink' = [sink EXCEPT ![h] = [FreeSink EXCEPT !.pc = "live", !.socket = s]]
        /\ UNCHANGED <<command, file, record, Page>>

----------------------------------------------------------------------------
\* The stream server.

\* broker.unsubscribe of the sink installed on a socket.
WithoutSub(s) == [h \in Sinks |-> IF h = conn[s].sub THEN FreeSink ELSE sink[h]]

\* A subscribe supersedes the handshake in flight and drops the installed
\* sink before it awaits the broker.
HandleSubscribe(s) ==
    /\ conn[s].link /\ conn[s].server
    /\ conn[s].up # <<>> /\ Head(conn[s].up) = "subscribe"
    /\ \E h \in Sinks :
         /\ WithoutSub(s)[h].pc = "none"
         /\ sink' = [WithoutSub(s) EXCEPT
                       ![h] = [FreeSink EXCEPT !.pc = "session", !.socket = s,
                                               !.generation = conn[s].handshake + 1]]
    /\ conn' = [conn EXCEPT ![s].up = Tail(@), ![s].handshake = @ + 1, ![s].sub = NoSink]
    /\ UNCHANGED <<command, file, record, Page>>

\* An unsubscribe also supersedes a handshake in flight.
HandleUnsubscribe(s) ==
    /\ conn[s].link /\ conn[s].server
    /\ conn[s].up # <<>> /\ Head(conn[s].up) = "unsubscribe"
    /\ sink' = WithoutSub(s)
    /\ conn' = [conn EXCEPT ![s].up = Tail(@), ![s].sub = NoSink,
                            ![s].handshake = IF @ = 0 THEN 0 ELSE @ + 1]
    /\ UNCHANGED <<command, file, record, Page>>

\* The server hears that a socket closed.
CleanupSocket(s) ==
    /\ conn[s].server /\ ~conn[s].link
    /\ sink' = [h \in Sinks |-> IF sink[h].socket = s
                                THEN [WithoutSub(s)[h] EXCEPT !.buffer = <<>>]
                                ELSE sink[h]]
    /\ conn' = [conn EXCEPT ![s].server = FALSE, ![s].handshake = 0, ![s].sub = NoSink]
    /\ UNCHANGED <<command, file, record, Page>>

----------------------------------------------------------------------------
\* The client.

Live == client.on /\ client.base /\ client.state = "connected"

\* A message to the server, when the client believes the socket is open.
Upward(c, message) ==
    IF client.socket # NoSocket /\ client.state = "connected" /\ c[client.socket].link
    THEN [c EXCEPT ![client.socket].up = Append(@, message)]
    ELSE c

Spend == moves < MaxMoves /\ moves' = moves + 1

\* A socket neither end holds, and no handshake remembers.
Unheld(s) ==
    /\ ~conn[s].server /\ conn[s].browser = "none"
    /\ \A h \in Sinks : sink[h].socket # s

\* openSocket; the server side opens with it, the client hears later.
OpenSocket(c) ==
    \E s \in Sockets :
      /\ Unheld(s)
      /\ conn' = [conn EXCEPT ![s] = [FreeSocket EXCEPT !.link = TRUE, !.server = TRUE,
                                                       !.browser = "opening"]]
      /\ client' = [c EXCEPT !.socket = s, !.state = "connecting"]

\* Nothing to do for a client that has a socket.
Connect ==
    /\ ~client.gone /\ client.socket = NoSocket
    /\ Spend
    /\ OpenSocket([client EXCEPT !.timer = FALSE])
    /\ UNCHANGED <<command, file, record, sink, screen, poll>>

\* What a subscription forgets when its next snapshot is to replace it.
Rebased(c) == [c EXCEPT !.base = FALSE, !.end = None, !.pending = FALSE, !.told = FALSE]

\* The page selects the command, or selects it again because it is not live.
Subscribe ==
    /\ ~client.gone /\ ~Live
    /\ Spend
    /\ client' = [Rebased(client) EXCEPT
                     !.on = TRUE, !.armed = client.state = "connected",
                     !.resyncs = IF client.on THEN @ ELSE 0]
    /\ conn' = Upward(conn, "subscribe")
    /\ UNCHANGED <<command, file, record, sink, screen, poll>>

Unsubscribe ==
    /\ client.on
    /\ Spend
    /\ client' = [Rebased(client) EXCEPT !.on = FALSE, !.armed = FALSE, !.resyncs = 0,
                                        !.status = "running"]
    /\ conn' = Upward(conn, "unsubscribe")
    /\ screen' = NoScreen
    /\ UNCHANGED <<command, file, record, sink, poll>>

\* The page goes away: its socket closes and no timer opens another.
Dispose ==
    /\ ~client.gone
    /\ Spend
    /\ client' = [NotSubscribed EXCEPT !.gone = TRUE, !.reading = client.reading]
    /\ conn' = [s \in Sockets |-> IF s = client.socket
                                  THEN [conn[s] EXCEPT !.link = FALSE, !.up = <<>>, !.down = <<>>]
                                  ELSE conn[s]]
    /\ screen' = NoScreen
    /\ poll' = NoPoll
    /\ UNCHANGED <<command, file, record, sink>>

\* The network drops a socket, or the server closes one that does not drain.
Drop(s) ==
    /\ conn[s].link
    /\ Spend
    /\ conn' = [conn EXCEPT ![s].link = FALSE, ![s].up = <<>>, ![s].down = <<>>]
    /\ UNCHANGED <<command, file, record, sink, client, screen, poll>>

\* Mutant: a reopened socket waits for the page to subscribe again.
OnOpenSilently(s) ==
    /\ conn[s].browser = "opening" /\ conn[s].link
    /\ conn' = [conn EXCEPT ![s].browser = "open"]
    /\ client' = IF client.socket = s THEN [client EXCEPT !.state = "connected"] ELSE client
    /\ UNCHANGED <<command, file, record, sink, screen, poll, moves>>

\* Every socket but the client's latest is fenced out of the handlers.
OnOpen(s) ==
    /\ conn[s].browser = "opening" /\ conn[s].link
    /\ LET opened == [conn EXCEPT ![s].browser = "open"]
       IN  \/ /\ client.socket # s
              /\ conn' = opened
              /\ UNCHANGED client
           \/ /\ client.socket = s
              /\ client' = IF client.on
                           THEN [Rebased(client) EXCEPT !.state = "connected", !.armed = TRUE]
                           ELSE [client EXCEPT !.state = "connected"]
              /\ conn' = IF client.on
                         THEN [opened EXCEPT ![s].up = Append(@, "subscribe")]
                         ELSE opened
    /\ UNCHANGED <<command, file, record, sink, screen, poll, moves>>

OnClose(s) ==
    /\ conn[s].browser # "none" /\ ~conn[s].link
    /\ conn' = [conn EXCEPT ![s].browser = "none"]
    /\ \/ /\ client.socket # s
          /\ UNCHANGED client
       \/ /\ client.socket = s
          /\ client' = [Rebased(client) EXCEPT
                           !.socket = NoSocket, !.armed = FALSE, !.timer = TRUE,
                           !.state = IF client.timer THEN "disconnected" ELSE "connecting"]
    /\ UNCHANGED <<command, file, record, sink, screen, poll, moves>>

\* scheduleReconnect's timer fires and reads the endpoint file; the socket it
\* then opens replaces whatever the client has by then.
ReconnectTimer ==
    /\ client.timer
    /\ client' = [client EXCEPT !.timer = FALSE, !.reading = TRUE]
    /\ UNCHANGED <<command, file, record, sink, conn, screen, poll, moves>>

ReconnectOpen ==
    /\ client.reading
    /\ \/ /\ client.gone
          /\ client' = [client EXCEPT !.reading = FALSE]
          /\ UNCHANGED conn
       \/ /\ ~client.gone
          /\ OpenSocket([client EXCEPT !.reading = FALSE])
    /\ UNCHANGED <<command, file, record, sink, screen, poll, moves>>

\* The absent-snapshot timer forgets the resync it still waits for.  Firing
\* with nothing to forget changes nothing the page sees: left out.
SnapshotTimer ==
    /\ client.armed /\ client.pending
    /\ client' = [client EXCEPT !.armed = FALSE, !.pending = FALSE]
    /\ UNCHANGED <<command, file, record, sink, conn, screen, poll, moves>>

\* applySnapshotBytes and applyDelta of the page's feed.
Paint(text, end) ==
    IF screen.end = end THEN screen ELSE [screen EXCEPT !.text = text, !.end = end]

\* Mutant: the console trusts the client's offset instead of its own.
ExtendAnyway(text, end) == [screen EXCEPT !.text = @ \o text, !.end = end]

Extend(text, end) ==
    IF screen.end # end - Len(text) THEN screen
    ELSE [screen EXCEPT !.text = @ \o text, !.end = end]

\* One resync at a time, and so many in a window; then an error, once more
\* output does not continue.
RequestResync(c) ==
    \/ /\ client.pending
       /\ UNCHANGED client
       /\ conn' = c
    \/ /\ ~client.pending /\ client.resyncs >= MaxResyncs
       /\ client' = [client EXCEPT !.told = TRUE]
       /\ conn' = c
    \/ /\ ~client.pending /\ client.resyncs < MaxResyncs
       /\ client' = [client EXCEPT !.resyncs = @ + 1, !.pending = TRUE]
       /\ conn' = Upward(c, "subscribe")

HandleSnapshot(message) ==
    /\ client' = [client EXCEPT !.base = TRUE, !.end = message.end, !.status = message.status,
                               !.pending = FALSE, !.armed = FALSE, !.told = FALSE]
    /\ screen' = [Paint(message.text, message.end) EXCEPT !.status = message.status]

\* A delta that continues the offset is shown; a gap, an overlap or a delta
\* before the snapshot asks for a snapshot.
Continues(message) == client.base /\ client.end = message.end - Len(message.text)

HandleMessage(message, c) ==
    \/ /\ ~client.on
       /\ conn' = c
       /\ UNCHANGED <<client, screen>>
    \/ /\ client.on /\ message.type = "snapshot"
       /\ HandleSnapshot(message)
       /\ conn' = c
    \/ /\ client.on /\ message.type = "output" /\ Continues(message)
       /\ client' = [client EXCEPT !.end = message.end]
       /\ screen' = Extend(message.text, message.end)
       /\ conn' = c
    \/ /\ client.on /\ message.type = "output" /\ ~Continues(message)
       /\ RequestResync(c)
       /\ UNCHANGED screen
    \/ /\ client.on /\ message.type = "status"
       /\ client' = [client EXCEPT !.status = message.status]
       /\ screen' = [screen EXCEPT !.status = message.status]
       /\ conn' = c

OnMessage(s) ==
    /\ conn[s].browser = "open" /\ conn[s].down # <<>>
    /\ LET c == [conn EXCEPT ![s].down = Tail(@)]
       IN  \/ /\ client.socket # s
              /\ conn' = c
              /\ UNCHANGED <<client, screen>>
           \/ /\ client.socket = s
              /\ HandleMessage(Head(conn[s].down), c)
    /\ UNCHANGED <<command, file, record, sink, poll, moves>>

----------------------------------------------------------------------------
\* The page's poll: begun only while the stream is not live, and then three
\* reads and writes with waits between them.

PollBegin ==
    /\ client.on /\ ~Live
    /\ poll.pc = "none"
    /\ Spend
    /\ poll' = [poll EXCEPT !.pc = "state"]
    /\ UNCHANGED <<command, file, record, sink, conn, client, screen>>

PollState ==
    /\ poll.pc = "state"
    /\ poll' = [poll EXCEPT !.pc = "log", !.bytes = record.bytes, !.kept = record.kept]
    /\ screen' = IF client.on THEN [screen EXCEPT !.status = record.status] ELSE screen
    /\ UNCHANGED <<command, file, record, sink, conn, client, moves>>

\* The last bytes of the retained file, placed by the counts read before.
PollLog ==
    /\ poll.pc = "log"
    /\ LET start == IF poll.kept > Window THEN poll.kept - Window ELSE 0
           text  == ReadLog(start, Window)
       IN  poll' = [NoPoll EXCEPT !.pc = "apply", !.text = text,
                                  !.end = poll.bytes - poll.kept + start + Len(text)]
    /\ UNCHANGED <<command, file, record, sink, conn, client, screen, moves>>

PollApply ==
    /\ poll.pc = "apply"
    /\ screen' = IF client.on THEN Paint(poll.text, poll.end) ELSE screen
    /\ poll' = NoPoll
    /\ UNCHANGED <<command, file, record, sink, conn, client, moves>>

----------------------------------------------------------------------------

Service   == \/ AppendLog \/ Trim \/ Rewrite \/ CommitOutput \/ PublishOutput
             \/ CommitExit \/ PublishStatus
Handshake(h) == GetSession(h) \/ ReadSession(h) \/ Complete(h)
Server(s) == HandleSubscribe(s) \/ HandleUnsubscribe(s) \/ CleanupSocket(s)
Browser(s) == OnOpen(s) \/ OnClose(s) \/ OnMessage(s)
Timers    == ReconnectTimer \/ ReconnectOpen \/ SnapshotTimer
Poll      == PollBegin \/ PollState \/ PollLog \/ PollApply
User      == Connect \/ Subscribe \/ Unsubscribe \/ Dispose

Next ==
    \/ Write \/ Exit \/ Service
    \/ \E h \in Sinks : Handshake(h)
    \/ \E s \in Sockets : Server(s) \/ Browser(s) \/ Drop(s)
    \/ Timers \/ Poll \/ User

Spec == Init /\ [][Next]_vars

----------------------------------------------------------------------------
\* Types of the state.
Text    == Seq(1 .. MaxOutput)
Message == [type : {"snapshot", "output", "status"}, text : Text, end : Offsets,
            status : Statuses]

CommandState == [written : Offsets, ended : BOOLEAN, done : 0 .. MaxOutput + 1,
                 op : {"idle", "trim", "rewrite", "commit", "publish", "status"}]
FileState    == [from : Offsets, to : Offsets]
RecordState  == [bytes : Offsets, kept : Offsets, status : Statuses]
Entry        == [pc : {"none", "session", "state", "log", "live"},
                 socket : Sockets \cup {NoSocket}, generation : Nat,
                 wait : 0 .. MaxOutput + 1, bytes : Offsets, status : Statuses,
                 buffer : Seq(Message)]
Connection   == [link : BOOLEAN, server : BOOLEAN, browser : {"none", "opening", "open"},
                 handshake : Nat, sub : Sinks \cup {NoSink},
                 up : Seq({"subscribe", "unsubscribe"}), down : Seq(Message)]
ClientState  == [socket : Sockets \cup {NoSocket},
                 state : {"disconnected", "connecting", "connected"},
                 timer : BOOLEAN, reading : BOOLEAN, gone : BOOLEAN, on : BOOLEAN,
                 base : BOOLEAN, end : Offsets \cup {None}, status : Statuses,
                 pending : BOOLEAN, resyncs : 0 .. MaxResyncs, armed : BOOLEAN,
                 told : BOOLEAN]
ScreenState  == [text : Text, end : Offsets \cup {None}, status : Statuses]
PollRead     == [pc : {"none", "state", "log", "apply"}, bytes : Offsets, kept : Offsets,
                 text : Text, end : Offsets]

TypeOK ==
    /\ command \in CommandState
    /\ file \in FileState
    /\ record \in RecordState
    /\ sink \in [Sinks -> Entry]
    /\ conn \in [Sockets -> Connection]
    /\ client \in ClientState
    /\ screen \in ScreenState
    /\ poll \in PollRead
    /\ moves \in 0 .. MaxMoves

\* The console never shows a byte twice, out of order or under a wrong offset:
\* its text is what the command wrote up to its end offset.  That is while the
\* log has kept everything; see OffsetsInSync for what happens after.
TextIsOutput == screen.end # None => screen.text = Bytes(screen.end - Len(screen.text), screen.end)

ShownIsTrue == file.from = 0 => TextIsOutput

\* "Lifetime-monotonic streamBytes advances inside the same transaction as the
\* retained-size bookkeeping, so offsets and files stay in sync": the same,
\* whatever has been trimmed.
OffsetsInSync == TextIsOutput

\* A live page that knows the command has exited has all of its output, whatever
\* it has asked for since or been told: the exit is published behind the last
\* chunk, and a snapshot that covers the one covers the other.
ExitSeenLast == Live /\ client.status = "exited" => client.end = command.written

\* Every live entry of the broker is the one its open socket would unsubscribe,
\* whatever handshakes overlapped a close, another subscribe or an
\* unsubscribe: no entry is sent to that nobody can take back.
SinksAreHeld ==
    \A h \in Sinks : sink[h].pc = "live" =>
        conn[sink[h].socket].server /\ conn[sink[h].socket].sub = h

\* "A subscribe that completes after this unsubscribe must drop its sink, never
\* resurrect the entry": once the server has heard a page's last unsubscribe,
\* neither an entry nor a handshake that could install one is left.
UnsubscribeIsHeard ==
    \A s \in Sockets :
        ~client.on /\ s = client.socket /\ conn[s].link /\ conn[s].up = <<>>
            => \A h \in Sinks : sink[h].socket = s => Superseded(sink[h])

\* Once everything in flight has arrived, a subscribed page with a socket is
\* live and shows the client all the command wrote and its exit, even one that
\* has been told that the stream gave up.  The poller stands down for a live
\* stream, so nothing else would correct it; and every step here is one that
\* ends, so what holds at rest is what the page comes to.
AtRest ==
    /\ command.op = "idle" /\ command.done = Enqueued
    /\ \A h \in Sinks : sink[h].pc \in {"none", "live"}
    /\ \A s \in Sockets :
          /\ conn[s].up = <<>> /\ conn[s].down = <<>>
          /\ conn[s].link = conn[s].server
          /\ conn[s].browser = (IF conn[s].link THEN "open" ELSE "none")
    /\ ~client.timer /\ ~client.reading

RestsCurrent ==
    AtRest /\ client.on /\ client.socket # NoSocket =>
        /\ Live
        /\ client.end = command.written
        /\ client.status = (IF command.ended THEN "exited" ELSE "running")

\* "When the command stream socket is connected and subscribed, deltas append
\* immediately": the console has every delta the live client has applied.
DeltasAppend ==
    [][Live /\ client'.end > client.end => screen'.end >= client'.end]_vars
============================================================================

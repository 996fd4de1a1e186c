-------------------------- MODULE SshBridgeProcess --------------------------
(***************************************************************************)
(* The framing of the bridge stream: EncodeBridgeFrame and                 *)
(* BridgeFrameDecoder of core/BridgeProtocol.cpp.  A stream is a sequence  *)
(* of cells.  A cell is one byte, except that the four bytes of a frame's  *)
(* length are one cell, so a header is two cells (channel, size).  The     *)
(* decoder reads the cells by position only, as the code does.             *)
(***************************************************************************)
EXTENDS Naturals, Sequences, SequencesExt, FiniteSets

CONSTANT
    BridgeMaximumPayloadSize   \* 64 KiB in the code

PayloadAssumption == BridgeMaximumPayloadSize \in Nat \ {0}

\* enum class BridgeChannel
Command == 0
Data == 1
Hello == 127
Channels == {Command, Data}

BridgeProtocolVersion == 1

IsKnownBridgeChannel(channel) == channel \in {Command, Data, Hello}

-----------------------------------------------------------------------------
\* What EncodeBridgeFrame refuses to encode.
CanEncode(channel, payload) ==
    /\ IsKnownBridgeChannel(channel)
    /\ Len(payload) <= BridgeMaximumPayloadSize
    /\ channel = Hello => payload = <<BridgeProtocolVersion>>

EncodeBridgeFrame(channel, payload) ==
    <<channel, Len(payload)>> \o payload

EncodeBridgeHelloFrame == EncodeBridgeFrame(Hello, <<BridgeProtocolVersion>>)

-----------------------------------------------------------------------------
NewDecoder ==
    [header |-> <<>>, payload |-> <<>>, helloReceived |-> FALSE,
     failed |-> FALSE]

\* BeginFrame accepts a complete header.
BeginFrame(d, header) ==
    /\ IsKnownBridgeChannel(header[1])
    /\ header[2] <= BridgeMaximumPayloadSize
    /\ d.helloReceived = (header[1] # Hello)
    /\ header[1] = Hello => header[2] = 1

\* FinishFrame accepts a complete payload; s is the decoder and the frames
\* this call of Consume has found so far.
FinishFrame(s, header, payload) ==
    IF header[1] = Hello /\ payload[1] # BridgeProtocolVersion
    THEN [s EXCEPT !.d.failed = TRUE]
    ELSE [d |-> [s.d EXCEPT !.header = <<>>, !.payload = <<>>,
                            !.helloReceived = @ \/ header[1] = Hello],
          frames |-> Append(s.frames,
                            [channel |-> header[1], payload |-> payload])]

ConsumeHeaderCell(s, cell) ==
    LET header == Append(s.d.header, cell) IN
    IF Len(header) < 2 THEN [s EXCEPT !.d.header = header]
    ELSE IF ~BeginFrame(s.d, header) THEN [s EXCEPT !.d.failed = TRUE]
    ELSE IF header[2] = 0 THEN FinishFrame(s, header, <<>>)
    ELSE [s EXCEPT !.d.header = header]

ConsumePayloadCell(s, cell) ==
    LET payload == Append(s.d.payload, cell) IN
    IF Len(payload) = s.d.header[2] THEN FinishFrame(s, s.d.header, payload)
    ELSE [s EXCEPT !.d.payload = payload]

\* One cell of the loop of Consume; a failed decoder looks at no more cells.
ConsumeCell(s, cell) ==
    IF s.d.failed THEN s
    ELSE IF Len(s.d.header) < 2 THEN ConsumeHeaderCell(s, cell)
    ELSE ConsumePayloadCell(s, cell)

\* Consume: the decoder after one chunk and the frames completed in it.  The
\* caller discards the frames of a chunk in which decoding failed.
Consume(d, cells) == FoldLeft(ConsumeCell, [d |-> d, frames |-> <<>>], cells)

-----------------------------------------------------------------------------
(***************************************************************************)
(* RunBridgeRelay (hardware/BridgeRelay.cpp), the program that runs beside *)
(* the controller: frames from its input become UDP datagrams to the       *)
(* controller's command and data ports, datagrams from the controller      *)
(* become frames on its output.  The relay and the ssh child that carries  *)
(* its two streams are one process here: child says whether it still runs, *)
(* exited or was reaped by the application.                                *)
(***************************************************************************)

CONSTANTS
    Arrivals,        \* datagrams that arrive at each UDP socket of the relay
    Senders,         \* who may send them: "controller" and others
    MaxRead,         \* cells one read() returns at most
    Banners          \* what a login shell may print before the relay starts

VARIABLES
    relay,       \* [at, d, banner]: program counter and decoder of the relay, and
                 \* what came out of its output before it started
    child,       \* the ssh process as the kernel knows it: running, exited, reaped
    toRelay,     \* cells in the pipe to the relay's input
    fromRelay,   \* cells in the pipe from the relay's output
    inputOpen,   \* the application's write descriptor is open
    outputOpen,  \* the application's read descriptor is open
    net          \* what passed the UDP sockets: arrived, foreign, sent

relayVars == <<relay, child, toRelay, fromRelay, inputOpen, outputOpen, net>>

\* Datagram k has one or two cells, so that frames differ in length.
Payload(k) == IF k % 2 = 1 THEN <<k>> ELSE <<k, k>>

InitRelay ==
    /\ relay \in [at : {"hello"}, d : {NewDecoder}, banner : Banners]
    /\ child = "running"
    /\ toRelay = <<>>
    /\ fromRelay = relay.banner
    /\ inputOpen = TRUE
    /\ outputOpen = TRUE
    /\ net = [arrived |-> [c \in Channels |-> 0],
              foreign |-> [c \in Channels |-> {}],
              sent |-> [c \in Channels |-> <<>>]]

Running == child = "running"

\* The relay returns: the process exits and waits to be reaped.
Exit == child' = "exited"

\* WriteAll to the output: it fails once the application closed its end.
WriteAll(cells) ==
    IF outputOpen THEN fromRelay' = fromRelay \o cells /\ UNCHANGED child
    ELSE Exit /\ UNCHANGED fromRelay

WriteHello ==
    /\ Running /\ relay.at = "hello"
    /\ WriteAll(EncodeBridgeHelloFrame)
    /\ relay' = [relay EXCEPT !.at = "open"]
    /\ UNCHANGED <<toRelay, inputOpen, outputOpen, net>>

\* UdpEndpoint::Open for the command and the data port; a failing lookup,
\* socket or bind ends the relay.
OpenEndpoints ==
    /\ Running /\ relay.at = "open"
    /\ \/ relay' = [relay EXCEPT !.at = "loop"] /\ UNCHANGED child
       \/ Exit /\ UNCHANGED relay
    /\ UNCHANGED <<toRelay, fromRelay, inputOpen, outputOpen, net>>

\* The payloads of the frames of one channel, hello frames skipped.
PayloadsFor(frames, c) ==
    LET mine == SelectSeq(frames, LAMBDA f : f.channel = c)
    IN  [i \in 1..Len(mine) |-> mine[i].payload]

\* Input is readable: decode one chunk and send its frames.  sendto may fail
\* at any frame, which ends the relay after the frames before it.
SendInputFrames ==
    /\ Running /\ relay.at = "loop" /\ toRelay # <<>>
    /\ \E n \in 1..MaxRead :
          /\ n <= Len(toRelay)
          /\ LET s == Consume(relay.d, SubSeq(toRelay, 1, n)) IN
             /\ toRelay' = SubSeq(toRelay, n + 1, Len(toRelay))
             /\ relay' = [relay EXCEPT !.d = s.d]
             /\ IF s.d.failed THEN Exit /\ UNCHANGED net
                ELSE \E k \in 0..Len(s.frames) :
                       /\ net' = [net EXCEPT !.sent = [c \in Channels |->
                             @[c] \o PayloadsFor(SubSeq(s.frames, 1, k), c)]]
                       /\ IF k < Len(s.frames) THEN Exit ELSE UNCHANGED child
    /\ UNCHANGED <<fromRelay, inputOpen, outputOpen>>

\* read() returns zero: the application closed its write descriptor.
InputEnds ==
    /\ Running /\ relay.at = "loop" /\ toRelay = <<>> /\ ~inputOpen
    /\ Exit
    /\ UNCHANGED <<relay, toRelay, fromRelay, inputOpen, outputOpen, net>>

\* IsExpectedSender: only what the addressed port of the controller sent is
\* framed.
IsExpectedSender(sender) == sender = "controller"

\* ReceiveAndWriteFrame: a datagram arrives at one of the two sockets.
ReceiveAndWriteFrame(c, sender) ==
    LET k == net.arrived[c] + 1 IN
    /\ Running /\ relay.at = "loop" /\ net.arrived[c] < Arrivals[c]
    /\ net' = [net EXCEPT !.arrived[c] = k,
                 !.foreign[c] = IF sender = "controller" THEN @ ELSE @ \cup {k}]
    /\ IF IsExpectedSender(sender)
       THEN WriteAll(EncodeBridgeFrame(c, Payload(k)))
       ELSE UNCHANGED <<child, fromRelay>>
    /\ UNCHANGED <<relay, toRelay, inputOpen, outputOpen>>

\* The relay, the remote host or ssh fails, or the child dies of SIGTERM.
Dies ==
    /\ Running
    /\ Exit
    /\ UNCHANGED <<relay, toRelay, fromRelay, inputOpen, outputOpen, net>>

RelayNext ==
    \/ WriteHello \/ OpenEndpoints \/ SendInputFrames \/ InputEnds \/ Dies
    \/ \E c \in Channels, sender \in Senders :
          ReceiveAndWriteFrame(c, sender)

-----------------------------------------------------------------------------
(***************************************************************************)
(* BridgeConnection (hardware/BridgeConnection.cpp) with the two           *)
(* transports on top of it (BridgeCommandTransport, BridgeDataReceiver).   *)
(* Three threads meet in it: the command worker, which opens, sends,       *)
(* receives command responses and closes; the acquisition receiver's       *)
(* thread, which only receives data; and the connection's own reader       *)
(* thread.  A section under stateMutex_ is one step.  The other mutexes    *)
(* order calls of the worker with each other and are not contended.        *)
(***************************************************************************)

CONSTANTS
    QueueCapacity,   \* 256 in the code
    PipeCapacity,    \* cells the pipe to the child holds, 64 KiB on Linux
    MaxCalls,        \* calls the worker makes before it closes the session
    Sendable         \* payloads of requests

CapacityAssumption == QueueCapacity \in Nat \ {0}
PipeAssumption == PipeCapacity \in Nat \ {0}

VARIABLES
    conn,       \* the flags of the connection
    queue,      \* commandQueue_ and dataQueue_
    reader,     \* [at, d]: the reader thread and its decoder
    worker,     \* [at, then, c, buf, calls]: the call the worker is in
    opened,     \* open_ of the two transports
    receiver,   \* the data thread: off, running, stopping
    told        \* what Receive returned, what was discarded, what Send wrote

connVars == <<conn, queue, reader, worker, opened, receiver, told>>

InitConnection ==
    /\ conn = [open |-> [c \in Channels |-> FALSE], failure |-> FALSE,
               handshake |-> FALSE, stop |-> FALSE, closed |-> FALSE,
               endpointSet |-> FALSE]
    /\ queue = [c \in Channels |-> <<>>]
    /\ reader = [at |-> "none", d |-> NewDecoder]
    /\ worker = [at |-> "idle", then |-> "idle", c |-> Command,
                 buf |-> <<>>, calls |-> 0]
    /\ opened = [c \in Channels |-> FALSE]
    /\ receiver = "off"
    /\ told = [got |-> [c \in Channels |-> <<>>],
               dropped |-> [c \in Channels |-> {}],
               written |-> [c \in Channels |-> <<>>]]

\* The number of a datagram.
Ident(payload) == IF payload = <<>> THEN 0 ELSE payload[1]

AllClosed == [c \in Channels |-> FALSE]

FailLocked(s) == [s EXCEPT !.failure = TRUE, !.open = AllClosed, !.stop = TRUE]

\* Worker moves; StopAndJoin starts at "shut" and comes back to then.
Return == worker' = [worker EXCEPT !.at = "idle"]
ReturnAfterStop == worker' = [worker EXCEPT !.at = "shut", !.then = "idle"]

Idle == worker.at = "idle" /\ worker.calls < MaxCalls
Called(at, c, buf) ==
    worker' = [worker EXCEPT !.at = at, !.c = c, !.buf = buf,
                             !.calls = @ + 1]

-----------------------------------------------------------------------------
\* Discarding what a queue holds.
Discard(cs) ==
    /\ queue' = [c \in Channels |-> IF c \in cs THEN <<>> ELSE queue[c]]
    /\ told' = [told EXCEPT !.dropped = [c \in Channels |->
                  IF c \in cs
                  THEN @[c] \cup {Ident(queue[c][i]) : i \in 1..Len(queue[c])}
                  ELSE @[c]]]

\* CloseChannel: the connection itself closes with its last channel.
CloseChannel(c, then) ==
    LET open == [conn.open EXCEPT ![c] = FALSE]
        last == open = AllClosed
    IN  /\ conn' = [conn EXCEPT !.open = open, !.stop = @ \/ last]
        /\ Discard(IF last THEN Channels ELSE {c})
        /\ opened' = [opened EXCEPT ![c] = FALSE]
        /\ worker' = IF last
                     THEN [worker EXCEPT !.at = "shut", !.then = then]
                     ELSE [worker EXCEPT !.at = then]

\* Open of a transport closes it first.  The session opens its command
\* transport once.
Open(c) ==
    /\ Idle /\ (c = Command => ~opened[c])
    /\ receiver = "off"
    /\ Called("opening", c, <<>>)
    /\ UNCHANGED <<conn, queue, reader, opened, receiver, told, relayVars>>

CloseBeforeOpen ==
    /\ worker.at = "opening" /\ opened[worker.c]
    /\ CloseChannel(worker.c, "opening")
    /\ UNCHANGED <<reader, receiver, relayVars>>

OpenRefused(c) ==
    \/ conn.closed \/ conn.failure \/ ~inputOpen \/ ~outputOpen
    \/ c = Data /\ ~conn.endpointSet

\* OpenChannel up to the start of the reader; starting a thread may fail.
OpenChannel ==
    LET c == worker.c IN
    /\ worker.at = "opening" /\ ~opened[c]
    /\ \/ OpenRefused(c) /\ Return /\ UNCHANGED <<conn, reader, opened>>
       \/ /\ ~OpenRefused(c) /\ reader.at # "none"
          /\ conn' = [conn EXCEPT !.open[c] = TRUE]
          /\ opened' = [opened EXCEPT ![c] = TRUE]
          /\ Return /\ UNCHANGED reader
       \/ /\ ~OpenRefused(c) /\ reader.at = "none"
          /\ conn' = [conn EXCEPT !.open[c] = TRUE, !.endpointSet = TRUE]
          /\ reader' = [reader EXCEPT !.at = "loop"]
          /\ worker' = [worker EXCEPT !.at = "hello",
                                      !.buf = EncodeBridgeHelloFrame]
          /\ UNCHANGED opened
       \/ /\ ~OpenRefused(c) /\ reader.at = "none"
          /\ conn' = [FailLocked(conn) EXCEPT !.endpointSet = TRUE]
          /\ ReturnAfterStop /\ UNCHANGED <<reader, opened>>
    /\ UNCHANGED <<queue, receiver, told, relayVars>>

\* Mutant: the wait for the hello has no timeout.
AwaitHelloForever ==
    /\ worker.at = "await"
    /\ \/ /\ conn.handshake
          /\ opened' = [opened EXCEPT ![worker.c] = TRUE]
          /\ Return
       \/ /\ ~conn.handshake /\ (conn.failure \/ conn.stop)
          /\ ReturnAfterStop /\ UNCHANGED opened
    /\ UNCHANGED <<conn, queue, reader, receiver, told, relayVars>>

\* wait_for of OpenChannel: hello, failure, stop or the timeout.
AwaitHello ==
    /\ worker.at = "await"
    /\ \/ /\ conn.handshake
          /\ opened' = [opened EXCEPT ![worker.c] = TRUE]
          /\ Return /\ UNCHANGED conn
       \/ /\ ~conn.handshake
          /\ conn' = IF conn.failure \/ conn.stop THEN conn
                     ELSE FailLocked(conn)
          /\ ReturnAfterStop /\ UNCHANGED opened
    /\ UNCHANGED <<queue, reader, receiver, told, relayVars>>

\* Send checks under the lock and writes after it.
Send(c, payload) ==
    /\ Idle /\ opened[c] /\ CanEncode(c, payload)
    /\ IF conn.failure \/ ~conn.open[c] \/ ~conn.handshake
       THEN Called("idle", c, <<>>) /\ UNCHANGED told
       ELSE /\ Called("send", c, EncodeBridgeFrame(c, payload))
            /\ told' = [told EXCEPT !.written[c] = Append(@, payload)]
    /\ UNCHANGED <<conn, queue, reader, opened, receiver, relayVars>>

\* WriteFrame: write() takes any part of what is left that the pipe has room
\* for, and blocks without a timeout while it has none; a failing write, for
\* one because the child is gone, fails the connection.  Only the worker sends
\* and closes, so CloseWriteDescriptor, which needs the same writeMutex_, comes
\* after it.
WriteFrame ==
    /\ worker.at \in {"hello", "send"}
    /\ \/ /\ inputOpen /\ Running
          /\ \E n \in 1..Len(worker.buf) :
                /\ Len(toRelay) + n <= PipeCapacity
                /\ toRelay' = toRelay \o SubSeq(worker.buf, 1, n)
                /\ worker' =
                     IF n < Len(worker.buf)
                     THEN [worker EXCEPT !.buf = SubSeq(@, n + 1, Len(@))]
                     ELSE [worker EXCEPT !.buf = <<>>,
                             !.at = IF @ = "hello" THEN "await" ELSE "idle"]
          /\ UNCHANGED conn
       \/ /\ ~inputOpen \/ ~Running
          /\ conn' = FailLocked(conn)
          /\ ReturnAfterStop /\ UNCHANGED toRelay
    /\ UNCHANGED <<queue, reader, opened, receiver, told,
                   relay, child, fromRelay, inputOpen, outputOpen, net>>

\* What Receive takes from a queue; it does so even after a failure.
Take(c) ==
    /\ queue[c] # <<>>
    /\ queue' = [queue EXCEPT ![c] = Tail(@)]
    /\ told' = [told EXCEPT !.got[c] = Append(@, Ident(queue[c][1]))]

\* Receive of the worker on the command channel: a response, an error, or
\* the timeout.
ReceiveCommand ==
    /\ Idle /\ opened[Command]
    /\ Called("idle", Command, <<>>)
    /\ Take(Command) \/ (queue[Command] = <<>> /\ UNCHANGED <<queue, told>>)
    /\ UNCHANGED <<conn, reader, opened, receiver, relayVars>>

\* Close of a transport by the worker.
Close(c) ==
    /\ Idle /\ opened[c] /\ receiver = "off"
    /\ CloseChannel(c, "idle")
    /\ UNCHANGED <<reader, receiver, relayVars>>

\* StopAndJoin: the write descriptor goes first, then the reader is joined,
\* and only then the read descriptor is closed.
CloseWriteDescriptor ==
    /\ worker.at = "shut"
    /\ conn' = [conn EXCEPT !.stop = TRUE]
    /\ inputOpen' = FALSE
    /\ worker' = [worker EXCEPT !.at = "join"]
    /\ UNCHANGED <<queue, reader, opened, receiver, told,
                   relay, child, toRelay, fromRelay, outputOpen, net>>

Joinable == reader.at \in {"none", "exited"}

JoinReader ==
    /\ worker.at = "join" /\ Joinable
    /\ outputOpen' = FALSE
    /\ conn' = [conn EXCEPT !.closed = TRUE]
    /\ worker' = [worker EXCEPT !.at = worker.then]
    /\ UNCHANGED <<queue, reader, opened, receiver, told,
                   relay, child, toRelay, fromRelay, inputOpen, net>>

-----------------------------------------------------------------------------
\* ReadLoop: the stop flag is looked at between two polls.
ReaderChecksStop ==
    /\ reader.at = "loop"
    /\ reader' = [reader EXCEPT !.at = IF conn.stop THEN "exited" ELSE "poll"]
    /\ UNCHANGED <<conn, queue, worker, opened, receiver, told, relayVars>>

ReaderPollTimesOut ==
    /\ reader.at = "poll" /\ fromRelay = <<>> /\ Running
    /\ reader' = [reader EXCEPT !.at = "loop"]
    /\ UNCHANGED <<conn, queue, worker, opened, receiver, told, relayVars>>

\* read() returns zero: everything was read and the child is gone.
PeerCloses ==
    /\ reader.at = "poll" /\ fromRelay = <<>> /\ ~Running
    /\ reader' = [reader EXCEPT !.at = "exited"]
    /\ conn' = IF conn.stop THEN conn ELSE FailLocked(conn)
    /\ UNCHANGED <<queue, worker, opened, receiver, told, relayVars>>

\* Mutant: a frame for a full queue is skipped.
RouteFrameSkips(r, f) ==
    IF f.channel = Hello THEN [r EXCEPT !.conn.handshake = TRUE]
    ELSE IF ~r.conn.open[f.channel]
         THEN [r EXCEPT !.dropped[f.channel] = @ \cup {Ident(f.payload)}]
    ELSE IF Len(r.queue[f.channel]) >= QueueCapacity THEN r
    ELSE [r EXCEPT !.queue[f.channel] = Append(@, f.payload)]

\* One frame of RouteFrames; r is the connection, queues and discards so far.
RouteFrame(r, f) ==
    IF ~r.ok THEN r
    ELSE IF f.channel = Hello THEN [r EXCEPT !.conn.handshake = TRUE]
    ELSE IF ~r.conn.open[f.channel]
         THEN [r EXCEPT !.dropped[f.channel] = @ \cup {Ident(f.payload)}]
    ELSE IF Len(r.queue[f.channel]) >= QueueCapacity
         THEN [r EXCEPT !.conn = FailLocked(@), !.ok = FALSE]
    ELSE [r EXCEPT !.queue[f.channel] = Append(@, f.payload)]

RouteFrames(frames) ==
    FoldLeft(RouteFrame,
             [conn |-> conn, queue |-> queue, dropped |-> told.dropped,
              ok |-> TRUE], frames)

\* The reader reads, decodes and routes one chunk.
ReadChunk ==
    /\ reader.at = "poll" /\ fromRelay # <<>>
    /\ \E n \in 1..MaxRead :
          /\ n <= Len(fromRelay)
          /\ fromRelay' = SubSeq(fromRelay, n + 1, Len(fromRelay))
          /\ LET s == Consume(reader.d, SubSeq(fromRelay, 1, n))
                 r == RouteFrames(s.frames)
             IN  IF s.d.failed
                 THEN /\ reader' = [at |-> "exited", d |-> s.d]
                      /\ conn' = FailLocked(conn)
                      /\ UNCHANGED <<queue, told>>
                 ELSE /\ reader' = [at |-> IF r.ok THEN "loop" ELSE "exited",
                                    d |-> s.d]
                      /\ conn' = r.conn
                      /\ queue' = r.queue
                      /\ told' = [told EXCEPT !.dropped = r.dropped]
    /\ UNCHANGED <<worker, opened, receiver, relay, child, toRelay,
                   inputOpen, outputOpen, net>>

-----------------------------------------------------------------------------
\* The data thread: AcquisitionReceiver::Run calls Receive until it is told
\* to stop or Receive reports an error.
StartReceiver ==
    /\ Idle /\ opened[Data] /\ receiver = "off"
    /\ receiver' = "running"
    /\ Called("idle", Data, <<>>)
    /\ UNCHANGED <<conn, queue, reader, opened, told, relayVars>>

StopReceiver ==
    /\ worker.at = "idle" /\ receiver = "running"
    /\ receiver' = "stopping"
    /\ UNCHANGED <<conn, queue, reader, worker, opened, told, relayVars>>

\* Mutant: the data thread looks for errors only.
ReceiveDataUntilError ==
    /\ receiver # "off"
    /\ \/ Take(Data) /\ UNCHANGED receiver
       \/ /\ queue[Data] = <<>> /\ (conn.failure \/ ~conn.open[Data])
          /\ receiver' = "off" /\ UNCHANGED <<queue, told>>
    /\ UNCHANGED <<conn, reader, worker, opened, relayVars>>

ReceiveData ==
    /\ receiver # "off"
    /\ \/ Take(Data) /\ UNCHANGED receiver
       \/ /\ queue[Data] = <<>> /\ (conn.failure \/ ~conn.open[Data])
          /\ receiver' = "off" /\ UNCHANGED <<queue, told>>
       \/ /\ queue[Data] = <<>> /\ receiver = "stopping"
          /\ receiver' = "off" /\ UNCHANGED <<queue, told>>
    /\ UNCHANGED <<conn, reader, worker, opened, relayVars>>

-----------------------------------------------------------------------------
ReaderNext == ReaderChecksStop \/ ReaderPollTimesOut \/ PeerCloses \/ ReadChunk

\* The steps inside a call of the worker.
WorkerStep ==
    \/ CloseBeforeOpen \/ OpenChannel \/ AwaitHello \/ WriteFrame
    \/ CloseWriteDescriptor \/ JoinReader

WorkerCalls ==
    \/ \E c \in Channels : Open(c) \/ Close(c)
    \/ \E c \in Channels, payload \in Sendable : Send(c, payload)
    \/ ReceiveCommand \/ StartReceiver \/ StopReceiver

-----------------------------------------------------------------------------
(***************************************************************************)
(* SshBridgeProcess and TransportSession: the ssh child, the thread that   *)
(* collects what it writes to its standard error, and the end of a         *)
(* session, which closes both transports, the connection and the child.    *)
(* A child may hang (nothing makes it take a step), may ignore SIGTERM,    *)
(* and a process it started may hold its standard error open after its     *)
(* end.                                                                    *)
(***************************************************************************)

CONSTANTS
    Holders,     \* may somebody else hold the child's standard error open?
    MaxErr,      \* characters the child writes to its standard error
    StderrSize   \* MaximumCapturedStderrSize, 64 KiB in the code

StderrAssumption == MaxErr \in Nat /\ StderrSize \in Nat \ {0}

VARIABLES
    holder,   \* a process the child started keeps its standard error open
    stderr    \* [at, pipe, wrote, text, stop]: the standard error reader

vars == <<relayVars, connVars, holder, stderr>>

Init ==
    /\ InitRelay /\ InitConnection
    /\ holder \in Holders
    /\ stderr = [at |-> "loop", pipe |-> <<>>, wrote |-> 0,
                 text |-> <<>>, stop |-> FALSE]

-----------------------------------------------------------------------------
\* The child writes one character to its standard error.
WriteStderr ==
    /\ Running /\ stderr.wrote < MaxErr
    /\ stderr' = [stderr EXCEPT !.wrote = @ + 1,
                    !.pipe = Append(@, stderr.wrote + 1)]
    /\ UNCHANGED <<relayVars, connVars, holder>>

\* AppendStderr keeps the last StderrSize characters.
AppendStderr(text, chunk) ==
    IF Len(chunk) >= StderrSize
    THEN SubSeq(chunk, Len(chunk) - StderrSize + 1, Len(chunk))
    ELSE LET total == Len(text) + Len(chunk)
             excess == IF total > StderrSize THEN total - StderrSize ELSE 0
         IN  SubSeq(text, excess + 1, Len(text)) \o chunk

\* ReadStderr: data first; at the end of the stream, or when a poll times
\* out after Stop asked for it, the thread ends.
ReadStderr ==
    /\ stderr.at = "loop"
    /\ \/ \E n \in 1..Len(stderr.pipe) :
             stderr' = [stderr EXCEPT
                !.pipe = SubSeq(@, n + 1, Len(@)),
                !.text = AppendStderr(@, SubSeq(stderr.pipe, 1, n))]
       \/ /\ stderr.pipe = <<>>
          /\ \/ ~Running /\ ~holder
             \/ stderr.stop
          /\ stderr' = [stderr EXCEPT !.at = "exited"]
    /\ UNCHANGED <<relayVars, connVars, holder>>

-----------------------------------------------------------------------------
Goto(at) == worker' = [worker EXCEPT !.at = at]

\* TransportSession::Close, after the acquisition receiver was joined: data
\* transport, command transport, bridge process.
CloseSession ==
    /\ worker.at = "idle" /\ receiver = "off"
    /\ Goto("closeData")
    /\ UNCHANGED <<conn, queue, reader, opened, receiver, told, relayVars,
                   holder, stderr>>

CloseTransports ==
    /\ \/ /\ worker.at = "closeData"
          /\ IF opened[Data] THEN CloseChannel(Data, "closeCommand")
             ELSE Goto("closeCommand") /\ UNCHANGED <<conn, queue, opened, told>>
       \/ /\ worker.at = "closeCommand"
          /\ IF opened[Command] THEN CloseChannel(Command, "stop")
             ELSE Goto("stop") /\ UNCHANGED <<conn, queue, opened, told>>
    /\ UNCHANGED <<reader, receiver, relayVars, holder, stderr>>

\* Stop begins with Close of the connection.
Stop ==
    /\ worker.at = "stop"
    /\ conn' = [conn EXCEPT !.open = AllClosed, !.stop = TRUE]
    /\ Discard(Channels)
    /\ worker' = [worker EXCEPT !.at = "shut", !.then = "wait"]
    /\ UNCHANGED <<reader, opened, receiver, relayVars, holder, stderr>>

\* WaitForChild sees the exited child; otherwise its time runs out, which is
\* answered with SIGTERM first (the child may die of it, or ignore it), then
\* with SIGKILL and a wait without a limit.
Reap(at) ==
    /\ child = "exited"
    /\ child' = "reaped"
    /\ Goto(at)

ChildWaits ==
    /\ \/ worker.at \in {"wait", "waitTerm", "reap"} /\ Reap("joinStderr")
       \/ /\ worker.at = "wait" /\ Running
          /\ Goto("waitTerm") /\ UNCHANGED child
       \/ /\ worker.at = "waitTerm" /\ Running
          /\ Exit /\ Goto("reap")
    /\ UNCHANGED <<conn, queue, reader, opened, receiver, told, relay, toRelay,
                   fromRelay, inputOpen, outputOpen, net, holder, stderr>>

JoinStderr ==
    /\ \/ /\ worker.at = "joinStderr"
          /\ stderr' = [stderr EXCEPT !.stop = TRUE] /\ Goto("joining")
       \/ /\ worker.at = "joining" /\ stderr.at = "exited"
          /\ Goto("stopped") /\ UNCHANGED stderr
    /\ UNCHANGED <<conn, queue, reader, opened, receiver, told, relayVars, holder>>

Stopping == CloseTransports \/ Stop \/ ChildWaits \/ JoinStderr

Finished == worker.at = "stopped" /\ UNCHANGED vars

Next ==
    \/ RelayNext /\ UNCHANGED <<connVars, holder, stderr>>
    \/ (ReaderNext \/ WorkerStep \/ WorkerCalls \/ ReceiveData)
          /\ UNCHANGED <<holder, stderr>>
    \/ WriteStderr \/ ReadStderr \/ CloseSession \/ Stopping
    \/ Finished

\* Threads of the application are scheduled; the relay and the child are
\* assumed to do nothing at all.
Spec ==
    /\ Init /\ [][Next]_vars
    /\ WF_vars(ReaderNext /\ UNCHANGED <<holder, stderr>>)
    /\ WF_vars(WorkerStep /\ UNCHANGED <<holder, stderr>>)
    /\ WF_vars(ReceiveData /\ UNCHANGED <<holder, stderr>>)
    /\ WF_vars(ReadStderr)
    /\ WF_vars(Stopping)

-----------------------------------------------------------------------------
\* Everything Receive has returned or will return of a channel, in order.
Stream(c) ==
    told.got[c] \o [i \in 1..Len(queue[c]) |-> Ident(queue[c][i])]

\* RouteFrames and Receive hand the datagrams of a channel on in the order
\* the controller sent them, each once, however reads cut the byte stream;
\* one that is missing between two others was sent by somebody else or came
\* while the channel was closed (BridgeConnection.cpp RouteFrames).
NoSilentLoss ==
    \A c \in Channels :
        LET s == Stream(c) IN
        /\ \A i, j \in 1..Len(s) : i < j => s[i] < s[j]
        /\ \A i \in 1..Len(s) : s[i] \notin net.foreign[c]
        /\ \A k \in 1..Arrivals[c] :
             (\E i \in 1..Len(s) : k < s[i])
               => \/ \E i \in 1..Len(s) : s[i] = k
                  \/ k \in told.dropped[c] \cup net.foreign[c]

\* What the relay sends to the controller on a channel is what Send was
\* called with, in order, nothing twice and nothing of another channel, in
\* whatever pieces the pipe takes and returns the bytes.
RequestsArriveInOrder ==
    \A c \in Channels : IsPrefix(net.sent[c], told.written[c])

\* The reader thread polls and reads its descriptor only while StopAndJoin
\* has not closed it (a closed number may already belong to another file).
ReaderOwnsDescriptor == reader.at \in {"loop", "poll"} => outputOpen

\* A stream that starts with anything but the relay's hello, such as the
\* text of a login shell, never opens a transport.
OnlyRelayOpens ==
    \A c \in Channels :
        opened[c] => relay.banner = <<>> /\ relay.at # "hello"

\* The captured text is the tail of everything read from the child's
\* standard error.
CapturedIsTail ==
    LET seen == stderr.wrote - Len(stderr.pipe)
        n == IF seen < StderrSize THEN seen ELSE StderrSize
    IN  stderr.text = [i \in 1..n |-> seen - n + i]

\* When the session's end returns, the child was reaped and no thread of the
\* bridge is left.
StoppedIsClean ==
    worker.at = "stopped" =>
        /\ child = "reaped" /\ stderr.at = "exited" /\ Joinable
        /\ ~inputOpen /\ ~outputOpen

\* A call of the worker, or the end of the session, has not returned yet.
Calling == worker.at \notin {"idle", "stopped"}

\* The worker is in write() on the full pipe of a child that still runs.
WriteBlocks ==
    /\ worker.at \in {"hello", "send"}
    /\ inputOpen /\ Running /\ Len(toRelay) >= PipeCapacity

\* The data thread has been told to end, or its connection failed.
ReceiverEnding ==
    receiver # "off" /\ (receiver = "stopping" \/ conn.failure)
=============================================================================

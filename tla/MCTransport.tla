---------------------------- MODULE MCTransport ----------------------------
(***************************************************************************)
(* The way of a register access and of a waveform between FIDGET and the   *)
(* crate, in small instances: MVLC transactions over datagrams, the direct *)
(* sockets, the bridge over ssh (its start, its streams, its end), the     *)
(* decoder of the readout stream and the receiver thread.  A behaviour is  *)
(* one of a single component: part names it, and the variables of the      *)
(* others rest.                                                            *)
(***************************************************************************)
EXTENDS Naturals, Sequences, TLC

CONSTANTS
    Values, NoValue, MvlcTransactionAttemptCount, MvlcMaximumResponseDatagrams,
    MaxOperations, MaxAccesses, MaxAddresses, MaxOpens, MaxSends,
    BridgeMaximumPayloadSize, MaxRead, QueueCapacity, PipeCapacity, Free, Inherited,
    Modulus, PacketWords, HistoryCapacity, MaxFaults,
    MaxRuns, MaxHits, MaxChanges, MaxPublishes, MaxTasks

VARIABLES
    part,
    regs, call, seen, late, requests, replies, stack, tx, session,
    isData, sockets, held, op, created, inbox, asked, sends, received,
    relay, child, toRelay, fromRelay, inputOpen, outputOpen, net, conn, queue,
    reader, worker, opened, receiver, told, holder, stderr,
    fd, std, mine, at, next, spawned, childFd,
    sent, outbox, wire, packets, arrived, faults, dec,
    module, socket, history, thread, stored, tasks, service, state, run, shown

transaction == <<regs, call, seen, late, requests, replies, stack, tx, session>>
direct == <<isData, sockets, held, op, created, inbox, asked, sends, received>>
bridge == <<relay, child, toRelay, fromRelay, inputOpen, outputOpen, net, conn,
            queue, reader, worker, opened, receiver, told, holder, stderr>>
start == <<fd, std, mine, at, next, spawned, childFd>>
decoder == <<sent, outbox, wire, packets, arrived, faults, dec>>
stream == <<module, socket, history, thread, stored, tasks, service, state, run,
            shown>>
vars == <<part, transaction, direct, bridge, start, decoder, stream>>

Transaction == INSTANCE VmeTransaction WITH MaxCalls <- MaxAccesses
Direct == INSTANCE DirectTransport WITH requests <- asked
Start == INSTANCE SshBridgeStart WITH child <- spawned
Receiver == INSTANCE AcquisitionReceiver WITH worker <- service

\* Channel 0 carries commands and channel 1 data.  Datagrams of the
\* controller and of others arrive on the data channel.
Downstream == INSTANCE SshBridgeProcess WITH
    Arrivals <- (0 :> 0) @@ (1 :> 3), Senders <- {"controller", "other"},
    Banners <- {<<>>}, MaxCalls <- 3, Sendable <- {},
    MaxErr <- 0, StderrSize <- 2, Holders <- {FALSE}
\* Requests are sent and one is answered.
Upstream == INSTANCE SshBridgeProcess WITH
    Arrivals <- (0 :> 1) @@ (1 :> 0), Senders <- {"controller"},
    Banners <- {<<>>}, MaxCalls <- 3, Sendable <- {<<>>, <<7>>},
    MaxErr <- 0, StderrSize <- 2, Holders <- {FALSE}
\* The login shell prints nothing, or bytes that look like the header of an
\* empty command frame; the child writes to its standard error, and a process
\* it started may keep that open.
Process == INSTANCE SshBridgeProcess WITH
    Arrivals <- (0 :> 0) @@ (1 :> 0), Senders <- {"controller"},
    Banners <- {<<>>, <<0, 0>>}, MaxCalls <- 3, Sendable <- {},
    MaxErr <- 2, StderrSize <- 1, Holders <- {TRUE, FALSE}

\* Channel 1 fills its history, then changes its source; one event is of
\* another channel and longer.
FiveEvents ==
    <<[channel |-> 1, source |-> 0, samples |-> 1],
      [channel |-> 1, source |-> 0, samples |-> 1],
      [channel |-> 5, source |-> 0, samples |-> 2],
      [channel |-> 1, source |-> 0, samples |-> 1],
      [channel |-> 1, source |-> 1, samples |-> 1]>>
Decoder == INSTANCE StreamDecoder WITH Events <- FiveEvents

ASSUME TransportInstances ==
    /\ Transaction!TransactionAssumption /\ Direct!DirectAssumption
    /\ Decoder!DecoderAssumption
    /\ Downstream!PayloadAssumption /\ Downstream!CapacityAssumption
    /\ Downstream!PipeAssumption
    /\ Downstream!StderrAssumption /\ Process!StderrAssumption

\* The variables of a component whose part it is not.
DirectRests ==
    /\ isData = 0 /\ sockets = 0 /\ held = 0 /\ op = 0 /\ created = 0
    /\ inbox = 0 /\ asked = 0 /\ sends = 0 /\ received = 0
BridgeRests ==
    /\ relay = 0 /\ child = 0 /\ toRelay = 0 /\ fromRelay = 0 /\ inputOpen = 0
    /\ outputOpen = 0 /\ net = 0 /\ conn = 0 /\ queue = 0 /\ reader = 0
    /\ worker = 0 /\ opened = 0 /\ receiver = 0 /\ told = 0 /\ holder = 0
    /\ stderr = 0
StartRests ==
    /\ fd = 0 /\ std = 0 /\ mine = 0 /\ at = 0 /\ next = 0 /\ spawned = 0
    /\ childFd = 0
DecoderRests ==
    /\ sent = 0 /\ outbox = 0 /\ wire = 0 /\ packets = 0 /\ arrived = 0
    /\ faults = 0 /\ dec = 0
StreamRests ==
    /\ module = 0 /\ socket = 0 /\ history = 0 /\ thread = 0 /\ stored = 0
    /\ tasks = 0 /\ service = 0 /\ state = 0 /\ run = 0 /\ shown = 0

Init ==
    /\ part \in {"transaction", "direct", "downstream", "upstream", "process",
                 "start", "decoder", "receiver"}
    /\ Transaction!Init
    /\ part # "transaction" => \A a \in DOMAIN regs : regs[a] = (CHOOSE x \in Values : TRUE)
    /\ IF part = "direct" THEN Direct!Init ELSE DirectRests
    /\ CASE part = "downstream" -> Downstream!Init
         [] part = "upstream" -> Upstream!Init
         [] part = "process" -> Process!Init
         [] OTHER -> BridgeRests
    /\ IF part = "start" THEN Start!Init ELSE StartRests
    /\ IF part = "decoder" THEN Decoder!Init ELSE DecoderRests
    /\ IF part = "receiver" THEN Receiver!Init ELSE StreamRests

TransactionSteps ==
    /\ part = "transaction" /\ Transaction!Next
    /\ UNCHANGED <<part, direct, bridge, start, decoder, stream>>
DirectSteps ==
    /\ part = "direct" /\ Direct!Next
    /\ UNCHANGED <<part, transaction, bridge, start, decoder, stream>>
BridgeSteps ==
    /\ \/ part = "downstream" /\ Downstream!Next
       \/ part = "upstream" /\ Upstream!Next
       \/ part = "process" /\ Process!Next
    /\ UNCHANGED <<part, transaction, direct, start, decoder, stream>>
StartSteps ==
    /\ part = "start" /\ Start!Next
    /\ UNCHANGED <<part, transaction, direct, bridge, decoder, stream>>
DecoderSteps ==
    /\ part = "decoder" /\ Decoder!Next
    /\ UNCHANGED <<part, transaction, direct, bridge, start, stream>>
ReceiverSteps ==
    /\ part = "receiver" /\ Receiver!Next
    /\ UNCHANGED <<part, transaction, direct, bridge, start, decoder>>

Next == \/ TransactionSteps \/ DirectSteps \/ BridgeSteps \/ StartSteps
        \/ DecoderSteps \/ ReceiverSteps

Spec == Init /\ [][Next]_vars

----------------------------------------------------------------------------
\* Datagrams that are lost or late, retries and reused reference numbers
\* implement the register access the operations are written against: a
\* success is the success of that access (RunStackTransaction,
\* ReadLocalRegister).
IsRegisterAccess == Transaction!IsRegisterAccess

\* No answer is taken for that of another request: neither one an earlier
\* operation left behind under the same reference, nor one that was sent to
\* the transport before it was opened again; and no path through Open leaks a
\* socket (RunStackTransaction, Open of MvlcCommandTransport.cpp and
\* MvlcDataReceiver.cpp).
AnswersAreOwn ==
    /\ part = "transaction" => Transaction!AnswersAreFresh
    /\ part = "direct" => Direct!AnswersAreOfThisOpen /\ Direct!NoSocketLeaks

\* The bridge hands the datagrams of a channel on in the order they were
\* sent, in both directions, each once, however the pipes cut the stream; one
\* that is missing was a stranger's or came while the channel was closed
\* (BridgeConnection.cpp RouteFrames, Send).
BridgeDelivers ==
    /\ part = "downstream" => Downstream!NoSilentLoss
    /\ part = "upstream" => Upstream!RequestsArriveInOrder

\* A start that fails at any step leaves no descriptor and no child, one that
\* succeeds wires the three streams whatever the caller had open, only the
\* relay's hello opens a transport, no thread uses a descriptor that was
\* closed, and the end of the session reaps the child and joins the threads
\* (SshBridgeProcess.cpp StartProgram, StopAndJoin).
BridgeLeavesNothing ==
    /\ part = "start" => Start!FailureLeaksNothing /\ Start!StartedIsWired
    /\ part = "process" =>
          /\ Process!ReaderOwnsDescriptor /\ Process!OnlyRelayOpens
          /\ Process!CapturedIsTail /\ Process!StoppedIsClean

\* A decoded waveform is one the module recorded, whatever packets were lost,
\* repeated or swapped; a loss costs only the events it touches, is counted,
\* and a history has one configuration (StreamDecoder.cpp
\* ProcessEthernetPacket).
WaveformsAreWhole ==
    part = "decoder" =>
        /\ Decoder!NoSplicedWaveform /\ Decoder!WholeEventsDecoded
        /\ Decoder!LossIsCounted /\ Decoder!HistoryIsUniform

\* A running acquisition shows only its own waveforms, of one sample source:
\* nothing that an earlier receiver posted late (AcquisitionReceiver.cpp,
\* PublishDiagnosticStream).
ShownIsCurrent ==
    part = "receiver" => Receiver!ShownIsCurrent /\ Receiver!SourcesDoNotMix
=============================================================================

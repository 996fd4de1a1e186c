----------------------------- MODULE MCProgress -----------------------------
(***************************************************************************)
(* What FIDGET eventually does, in small instances: the threads at the     *)
(* command worker's queue, the bridge, the receiver of an acquisition, a   *)
(* probe of the target, the command line, and recovery and stop of the     *)
(* diagnostic acquisition.  A behaviour is one of a single component: part *)
(* names it, and the others rest in an initial state.                      *)
(***************************************************************************)
EXTENDS Naturals, Sequences, TLC

CONSTANTS
    Quads, Words, Params, NonTargets, MvmeSample, MvmeParam, Sources,
    PreviewValues, MaxCommands,
    BridgeMaximumPayloadSize, MaxRead, QueueCapacity, PipeCapacity,
    MaxRuns, MaxHits, MaxChanges, MaxPublishes, MaxTasks,
    e1, eBad, t1, tBad, a1, None,
    Tampering, Streaming, MaxTunes, Requested, Given

VARIABLES
    part,
    hw, mvme, calm, journal, svc, ses, pc, tx,
    tasks, running, open, own, link, stopping, dog, fe, left, fate,
    relay, child, toRelay, fromRelay, inputOpen, outputOpen, net, conn, frames,
    reader, caller, opened, receiver, told, holder, stderr,
    module, socket, history, thread, stored, posted, streamer, state, run, shown,
    target, workspace, evidence, prefs, asked, prober, active, cancelled,
    tokens, directory, discovery, daq, acq, submitted, faults, others, accepting,
    looked,
    snap, newer, queue, busy, watchdog, session, disk,
    cli, interrupted

service == <<hw, mvme, calm, journal, svc, ses, pc, tx>>
threads == <<tasks, running, open, own, link, stopping, dog, fe, left, fate>>
bridge == <<relay, child, toRelay, fromRelay, inputOpen, outputOpen, net, conn,
            frames, reader, caller, opened, receiver, told, holder, stderr>>
stream == <<module, socket, history, thread, stored, posted, streamer, state,
            run, shown>>
probe == <<target, workspace, evidence, prefs, asked, prober, active, cancelled,
           tokens, directory, discovery, daq, acq, submitted, faults, others,
           accepting, looked>>
commandLine == <<snap, newer, queue, busy, watchdog, session, disk, cli,
                 interrupted>>
vars == <<part, service, threads, bridge, stream, probe, commandLine>>

Service == INSTANCE OwnershipService WITH
    FoundSample <- [b \in Quads \cup {0} |-> 4 * b],
    FoundParam <- [b \in Quads \cup {0} |-> 0]
Threads == INSTANCE CommandWorker
Bridge == INSTANCE SshBridgeProcess WITH
    Arrivals <- (0 :> 0) @@ (1 :> 0), Senders <- {"controller"},
    Banners <- {<<>>}, MaxCalls <- 3, Sendable <- {<<7>>},
    MaxErr <- 0, StderrSize <- 1, Holders <- {TRUE},
    queue <- frames, worker <- caller
Stream == INSTANCE AcquisitionReceiver WITH tasks <- posted, worker <- streamer
Probe == INSTANCE TuningSession WITH
    Endpoints <- {e1, eBad}, ValidEndpoints <- {e1}, ModuleTexts <- {t1, tBad},
    Addresses <- {a1}, AddressOf <- (t1 :> a1) @@ (tBad :> None),
    Devices <- {<<e1, a1>>}, Entries <- {},
    EditInputs <- {[endpoint |-> e1, text |-> t1]},
    MaxCommands <- 3, MaxQueue <- 1, MaxFaults <- 1, MaxMvme <- 0,
    queue <- asked, worker <- prober, mvme <- others, open <- accepting
Cli == INSTANCE CliApp

ASSUME ProgressInstances ==
    /\ Threads!BoundAssumption /\ Bridge!PayloadAssumption
    /\ Bridge!CapacityAssumption /\ Bridge!PipeAssumption
    /\ Bridge!StderrAssumption
    /\ Probe!TuningSessionAssumption

\* Of several initial states a component rests in one.
Init ==
    /\ part \in {"service", "threads", "bridge", "stream", "probe", "cli"}
    /\ Service!Init /\ Threads!Init /\ Bridge!Init /\ Stream!Init /\ Probe!Init
    /\ Cli!Init
    /\ part # "service" => \A m \in NonTargets : hw.others[m] = 0
    /\ part # "probe" => discovery = "empty"
    /\ part # "threads" => own = "Other"
    /\ part # "cli" => disk.journal = "None" /\ cli.command = "recover"
                       /\ cli.given = {"project"}

----------------------------------------------------------------------------
OfService(A) ==
    /\ part = "service" /\ A
    /\ UNCHANGED <<part, threads, bridge, stream, probe, commandLine>>
OfThreads(A) ==
    /\ part = "threads" /\ A
    /\ UNCHANGED <<part, service, bridge, stream, probe, commandLine>>
OfBridge(A) ==
    /\ part = "bridge" /\ A
    /\ UNCHANGED <<part, service, threads, stream, probe, commandLine>>
OfStream(A) ==
    /\ part = "stream" /\ A
    /\ UNCHANGED <<part, service, threads, bridge, probe, commandLine>>
OfProbe(A) ==
    /\ part = "probe" /\ A
    /\ UNCHANGED <<part, service, threads, bridge, stream, commandLine>>
OfCli(A) ==
    /\ part = "cli" /\ A
    /\ UNCHANGED <<part, service, threads, bridge, stream, probe>>

Next ==
    \/ OfService(Service!Next \/ Service!Calms) \/ OfThreads(Threads!Next)
    \/ OfBridge(Bridge!Next) \/ OfStream(Stream!Next) \/ OfProbe(Probe!Next)
    \/ OfCli(Cli!Next)

(***************************************************************************)
(* The fairness of each component's own specification.  part never         *)
(* changes, so a condition on a disjunction of steps of different parts is *)
(* the condition on each of them.                                          *)
(***************************************************************************)
FirstThread ==
    \/ OfService(Service!Operation)
    \/ OfThreads(Threads!FrontEnd /\ ~Threads!Between)
    \/ OfBridge(Bridge!ReaderNext /\ UNCHANGED <<holder, stderr>>)
    \/ OfStream(Stream!ThreadEnds) \/ OfProbe(Probe!Worker)
    \/ OfCli(Cli!Cli)
SecondThread ==
    \/ OfService(Service!Launch) \/ OfThreads(Threads!Worker)
    \/ OfBridge(Bridge!WorkerStep /\ UNCHANGED <<holder, stderr>>)
    \/ OfStream(Stream!WorkerNext)
    \/ OfCli(cli.phase # "exited" /\ Cli!Work /\ UNCHANGED <<cli, interrupted>>)
ThirdThread ==
    \/ OfThreads(Threads!Watchdog)
    \/ OfBridge(Bridge!ReceiveData /\ UNCHANGED <<holder, stderr>>)
Fairness ==
    /\ WF_vars(FirstThread) /\ WF_vars(SecondThread) /\ WF_vars(ThirdThread)
    /\ WF_vars(OfBridge(Bridge!ReadStderr)) /\ WF_vars(OfBridge(Bridge!Stopping))
    /\ SF_vars(OfService(Service!StopDiagnosticAcquisition))
    /\ SF_vars(OfService(Service!RecoverDiagnosticOrphan))

Spec == Init /\ [][Next]_vars /\ Fairness

----------------------------------------------------------------------------
\* Once the environment is calm, a pending journal is eventually resolved by
\* recovery, unless its gate refuses, and Stop ends an acquisition that is
\* still FIDGET's own (RecoverDiagnosticOrphan, StopDiagnosticAcquisition).
RecoveryCompletes == Service!RecoveryCompletes /\ Service!StopEndsRun

\* Every call comes back: a Submit that joins the watchdog and the destructor;
\* a call of the bridge, the end of its session included; a probe, whatever is
\* cancelled, edited or failing meanwhile; and the command line after Ctrl-C,
\* wherever it is.  There are two exceptions and no third, each a wait that
\* nobody ends: a join of a watchdog whose stop request StartWatchdog cleared,
\* and a write to an ssh child that neither reads nor ends while its pipe is
\* full (StopWatchdog, SshBridgeProcess.cpp StopAndJoin, BridgeConnection.cpp
\* WriteFrame, ProbeTarget, WaitForRevision).
Pending ==
    \/ Threads!Calling \/ Bridge!Calling \/ Probe!InProgress \/ Cli!Interrupted
Blocked ==
    \/ part = "threads" /\ Threads!StopLost
    \/ part = "bridge" /\ Bridge!WriteBlocks
CallsReturn == Pending ~> (~Pending \/ Blocked)

\* A failure is noticed: the receiver of a bridge that failed ends, and a
\* receiver thread that died stops its acquisition (BridgeConnection.cpp
\* FailLocked, PublishDiagnosticStream).
Unnoticed == Bridge!ReceiverEnding \/ Stream!Failing
FailuresAreNoticed == Unnoticed ~> ~Unnoticed
=============================================================================

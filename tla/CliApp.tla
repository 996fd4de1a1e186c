-------------------------------- MODULE CliApp --------------------------------
(***************************************************************************)
(* The command line front end.  A command is a fixed flow of stages; most  *)
(* stages note the revision of the published snapshot, submit one command  *)
(* to the tuner, and wait until a newer snapshot satisfies a predicate or  *)
(* a timeout passes.  SIGINT only sets a flag, which the flow looks at     *)
(* between stages.  The user answers the prompts, types tune commands, or  *)
(* closes the input.                                                       *)
(***************************************************************************)
EXTENDS TunerControl

CONSTANTS
    Requested,  \* the commands the command line may name
    Given,      \* the options that may be given with them
    MaxTunes    \* tune commands typed during one acquisition

VARIABLES
    cli,          \* where the front end is
    interrupted   \* InterruptRequested

vars == <<tuner, cli, interrupted>>

Opening == <<"confirm", "handoff", "open">>

(* The stages of each Run function, in the order of the code.              *)
RunCliStatus == <<"use", "check">>
Loading == RunCliStatus \o <<"load">> \o Opening
RunCliSession == RunCliStatus \o Opening \o <<"watch", "release">>
RunCliAudit == RunCliStatus \o Opening \o <<"audit", "release">>
RunCliCapture == RunCliStatus \o Opening \o <<"capture", "save", "release">>
RunCliCompare == Loading \o <<"capture", "release">>
RunCliApply == Loading \o <<"capture", "ask", "apply", "release">>
RunCliStartup == Loading \o <<"audit", "capture", "ask", "startup", "release">>
RunCliAcquire == Loading \o <<"audit", "capture", "ask", "startup", "start", "tune",
                              "stop", "csv", "release">>
RunCliRecover == <<"use", "look", "ask", "recover">>

(* The dispatch of main.                                                   *)
Flow == [status |-> RunCliStatus, session |-> RunCliSession, audit |-> RunCliAudit,
         capture |-> RunCliCapture, compare |-> RunCliCompare, apply |-> RunCliApply,
         startup |-> RunCliStartup, acquire |-> RunCliAcquire, recover |-> RunCliRecover]

Stage == Flow[cli.command][cli.at]

CliAssumption == Requested \subseteq DOMAIN Flow

-----------------------------------------------------------------------------
(* Which options a command needs and which it takes (apart from help).     *)
NeedsProject(command) == command \in {"acquire", "recover"}
NeedsProfile(command) == command \in {"compare", "apply", "startup"}
TakesProfile(command) == NeedsProfile(command) \/ command = "acquire"

ParseCliOptions(command, given) ==
    /\ {"project", "host"} \cap given # {}
    /\ NeedsProject(command) => "project" \in given
    /\ "save" \in given => command = "capture"
    /\ "profile" \in given => TakesProfile(command)
    /\ NeedsProfile(command) => "profile" \in given
    /\ {"register", "quad"} \cap given # {} => command = "apply"
    /\ command = "apply" => {"register", "quad"} \subseteq given
    /\ {"channel", "seconds", "csv"} \cap given # {} => command = "acquire"
    /\ command = "acquire" => "channel" \in given

(* A host given with a project only overrides the project's endpoint.      *)
Init ==
    /\ TunerInit
    /\ \E command \in Requested, given \in SUBSET Given :
          /\ ~({"project", "host"} \subseteq given)
          /\ cli = [command |-> command, given |-> given, at |-> 1, phase |-> "parse",
                    id |-> 0, op |-> "none", ready |-> FALSE, result |-> 1, code |-> 0,
                    tunes |-> 0, late |-> FALSE]
    /\ interrupted = FALSE

-----------------------------------------------------------------------------
Exit(code) == cli' = [cli EXCEPT !.phase = "exited", !.code = code]
Advance(c) == [c EXCEPT !.phase = "enter", !.at = @ + 1]
Go == cli' = Advance(cli)

(* An option that is unknown, lacks its value or has a malformed one ends  *)
(* the run, as does a set of options the command does not take.            *)
ParseOptions ==
    /\ cli.phase = "parse"
    /\ \/ /\ ParseCliOptions(cli.command, cli.given)
          /\ cli' = [cli EXCEPT !.phase = "resolve"]
       \/ Exit(1)
    /\ UNCHANGED <<tuner, interrupted>>

(* The project file may not load or not be valid; a host alone makes a     *)
(* project of one module.                                                  *)
ResolveProject ==
    /\ cli.phase = "resolve"
    /\ cli' = [cli EXCEPT !.phase = "enter"] \/ Exit(1)
    /\ UNCHANGED <<tuner, interrupted>>

(* The condition of each stage's branch.                                   *)
Runs(stage) ==
    CASE stage = "audit" -> ~interrupted
      [] stage = "capture" ->
            /\ ~interrupted
            /\ cli.command \in {"startup", "acquire"} => AuditComplete(snap)
      [] stage = "save" -> cli.result = 0 /\ "save" \in cli.given /\ ~interrupted
      [] stage = "ask" -> cli.command = "recover" \/ (cli.ready /\ ~interrupted)
      [] stage = "apply" -> cli.ready /\ ~interrupted
      [] stage = "startup" -> cli.ready /\ (cli.command = "acquire" \/ ~interrupted)
      [] stage = "start" -> snap.passed /\ ~interrupted
      [] stage = "tune" -> cli.ready
      [] stage = "stop" -> cli.ready /\ snap.acquisition = "Running"
      [] OTHER -> TRUE

Conversations == {"confirm", "ask", "watch", "tune", "csv"}

(* The revision the wait compares with: noted at the submission, except    *)
(* where the code keeps the one of the snapshot it last read.              *)
KeepsRevision(stage) == \/ cli.command = "audit" /\ stage = "audit"
                        \/ stage = "recover"
NoteRevision(stage) == newer' = (IF KeepsRevision(stage) THEN newer ELSE FALSE)

Submit(name, phase) ==
    /\ cli' = [cli EXCEPT !.phase = IF StopsWatchdog(name) THEN "joining" ELSE phase,
                          !.id = @ + 1]
    /\ NoteRevision(name)
    /\ IF StopsWatchdog(name)
       THEN RequestWatchdogStop /\ UNCHANGED queue
       ELSE Post(name, cli.id + 1) /\ UNCHANGED watchdog
    /\ UNCHANGED <<snap, busy, session, disk, interrupted>>

(* A stage whose branch is not taken falls through to the next; the        *)
(* cleanup report of a run that is no longer running is taken all the      *)
(* same.                                                                   *)
EnterStage ==
    /\ cli.phase = "enter"
    /\ \/ /\ ~Runs(Stage)
          /\ cli' = IF Stage = "stop" /\ cli.ready /\ ~snap.clean
                    THEN Advance([cli EXCEPT !.result = 1]) ELSE Advance(cli)
          /\ UNCHANGED <<tuner, interrupted>>
       \/ /\ Runs(Stage) /\ Stage \in Conversations
          /\ cli' = [cli EXCEPT !.phase = "talk"]
          /\ UNCHANGED <<tuner, interrupted>>
       \/ /\ Runs(Stage) /\ Stage \notin Conversations
          /\ Submit(Stage, "waiting")

JoinWatchdog ==
    /\ cli.phase = "joining"
    /\ Post(Stage, cli.id)
    /\ cli' = [cli EXCEPT !.phase = "waiting"]
    /\ UNCHANGED <<snap, newer, busy, watchdog, session, disk, interrupted>>

-----------------------------------------------------------------------------
(* The predicate each WaitForRevision waits for.                           *)
Finished(r) == r.state \notin {"NotRun", "Running"}
Awaits(stage) ==
    CASE stage = "use" -> snap.project
      [] stage \in {"check", "open"} -> snap.ownership # "Checking"
      [] stage = "handoff" -> snap.handoff
      [] stage \in {"load", "save"} -> TRUE
      [] stage = "look" -> snap.readings \/ snap.ownership = "RecoveryRequired"
      [] stage = "audit" -> Finished(snap.audit)
      [] stage = "capture" -> Finished(snap.capture)
      [] stage = "apply" -> Finished(snap.apply)
      [] stage = "startup" -> Finished(snap.startup)
      [] stage = "start" -> snap.acquisition \in {"Running", "Failed"}
      [] stage = "stop" -> snap.acquisition \in {"Stopped", "Failed"}
      [] stage = "recover" -> Finished(snap.recovery)
      [] stage = "release" -> snap.ownership = "Disconnected"
      [] stage = "source" -> snap.source.state \in {"Passed", "Failed"}
      [] stage = "preview" -> snap.preview.state \in {"Active", "Failed"}
      [] stage = "restore" -> snap.preview.state \in {"Restored", "Failed"}

Waiting == cli.phase \in {"waiting", "tuning"}
Awaited == IF cli.phase = "tuning" THEN cli.op ELSE Stage

WaitForAnyRevision ==
    /\ Waiting
    /\ Awaits(Awaited)
    /\ cli' = [cli EXCEPT !.phase = IF @ = "tuning" THEN "tuned" ELSE "read"]
    /\ UNCHANGED <<tuner, interrupted>>

WaitForRevision ==
    /\ Waiting
    /\ newer /\ Awaits(Awaited)
    /\ cli' = [cli EXCEPT !.phase = IF @ = "tuning" THEN "tuned" ELSE "read"]
    /\ UNCHANGED <<tuner, interrupted>>

(* The timeout: fatal before the session is open and for the release,      *)
(* otherwise the flow goes on to release with a failed result.             *)
TimeOut ==
    /\ Waiting
    /\ \/ /\ Stage \in {"use", "check", "load", "handoff", "open", "look", "recover", "release"}
          /\ cli' = [cli EXCEPT !.phase = "exited", !.code = 1, !.late = TRUE]
       \/ /\ Stage \in {"audit", "capture", "apply", "startup", "start"}
          /\ cli' = Advance([cli EXCEPT !.ready = FALSE, !.late = TRUE])
       \/ /\ Stage \in {"save", "stop", "tune"}
          /\ cli' = Advance([cli EXCEPT !.result = 1, !.late = TRUE])
    /\ UNCHANGED <<tuner, interrupted>>

(* What each stage makes of the snapshot it reads after its wait.          *)
Zero(b) == IF b THEN 0 ELSE 1
Then(c) == cli' = Advance(c)

ReadProject == IF cli.command # "recover" \/ snap.journal = "Pending" THEN Go
               ELSE Exit(Zero(snap.journal = "None"))

ReadStatus == IF cli.command = "status" \/ interrupted \/ snap.ownership # "Idle"
              THEN Exit(IF interrupted THEN 130 ELSE Zero(snap.ownership = "Idle"))
              ELSE Go

ReadLoaded == IF ~snap.loaded THEN Exit(1)
              ELSE IF interrupted /\ cli.command # "acquire" THEN Exit(130)
              ELSE Go

ReadHandoff == IF interrupted THEN Exit(130) ELSE Go

ReadOpened == IF snap.ownership = "SessionOpen" THEN Go ELSE Exit(1)

ReadAudit == Then([cli EXCEPT !.result = IF cli.command = "audit"
                                         THEN Zero(snap.audit.state = "Ready") ELSE 1])

(* Compare succeeds on an identical profile; apply goes on with a current  *)
(* difference, startup and acquisition with a recipe.                      *)
ReadCaptured == LET complete == snap.capture.state = "Complete" IN
    CASE cli.command = "capture" -> Then([cli EXCEPT !.result = Zero(complete)])
      [] cli.command = "compare" ->
            Then([cli EXCEPT !.result =
                    Zero(complete /\ RefreshProfileComparison(snap) = "equal")])
      [] cli.command = "apply" ->
            Then([cli EXCEPT !.ready =
                    complete /\ RefreshProfileComparison(snap) = "differs"])
      [] OTHER -> Then([cli EXCEPT !.ready = StartupPlanAvailable(snap)])

ReadSaved == Then([cli EXCEPT !.result = Zero(snap.good)])

ReadApplied == Then([cli EXCEPT !.result = Zero(snap.apply.state = "Passed")])

ReadStartup == Then([cli EXCEPT !.ready = FALSE,
                                !.result = IF cli.command = "startup"
                                           THEN Zero(snap.startup.state = "Passed") ELSE 1])

ReadStarted == LET running == snap.acquisition = "Running"
               IN  Then([cli EXCEPT !.ready = running, !.result = Zero(running)])

ReadCleanup == Then(IF snap.clean THEN cli ELSE [cli EXCEPT !.result = 1])

ReadLook == IF snap.readings THEN Go ELSE Exit(1)

ReadRecovery == Exit(IF interrupted THEN 130 ELSE Zero(snap.recovery.state = "Recovered"))

ReleaseOperationSession == Exit(IF interrupted THEN 130 ELSE cli.result)

ReadSnapshot ==
    /\ cli.phase = "read"
    /\ CASE Stage = "use" -> ReadProject
         [] Stage = "check" -> ReadStatus
         [] Stage = "load" -> ReadLoaded
         [] Stage = "handoff" -> ReadHandoff
         [] Stage = "open" -> ReadOpened
         [] Stage = "audit" -> ReadAudit
         [] Stage = "capture" -> ReadCaptured
         [] Stage = "save" -> ReadSaved
         [] Stage = "apply" -> ReadApplied
         [] Stage = "startup" -> ReadStartup
         [] Stage = "start" -> ReadStarted
         [] Stage = "stop" -> ReadCleanup
         [] Stage = "look" -> ReadLook
         [] Stage = "recover" -> ReadRecovery
         [] Stage = "release" -> ReleaseOperationSession
    /\ IF Stage \in {"open", "look"} THEN newer' = FALSE ELSE UNCHANGED newer
    /\ UNCHANGED <<snap, queue, busy, watchdog, session, disk, interrupted>>

-----------------------------------------------------------------------------
(* ReadPromptResponse and the two confirmations: a prompt is answered, or  *)
(* the input ends.                                                         *)
AnswerPrompt ==
    /\ cli.phase = "talk"
    /\ Stage \in {"confirm", "ask"}
    /\ \/ /\ ~(cli.command = "recover" /\ interrupted)
          /\ Go
       \/ IF Stage = "confirm" \/ cli.command = "recover"
          THEN Exit(IF interrupted THEN 130 ELSE 1)
          ELSE Then([cli EXCEPT !.ready = FALSE])
    /\ UNCHANGED <<tuner, interrupted>>

(* The loop of RunCliSession: it ends well on input or an interrupt, and   *)
(* badly when the wait fails or the session is seen to be open no more.    *)
WatchSession ==
    /\ cli.phase = "talk" /\ Stage = "watch"
    /\ \/ interrupted /\ Then([cli EXCEPT !.result = 0])
       \/ ~interrupted /\ \/ Then([cli EXCEPT !.result = 0])
                          \/ Then([cli EXCEPT !.result = 1])
    /\ UNCHANGED <<tuner, interrupted>>

(* The loop of RunCliAcquire: it ends when the run no longer runs, on an   *)
(* interrupt, after the given seconds, or on an empty or closed input.     *)
TuneLoop ==
    /\ cli.phase = "talk" /\ Stage = "tune"
    /\ \/ interrupted /\ Go /\ UNCHANGED tuner
       \/ /\ ~interrupted /\ snap.acquisition # "Running"
          /\ Then([cli EXCEPT !.result = 1])
          /\ UNCHANGED tuner
       \/ /\ ~interrupted /\ snap.acquisition = "Running"
          /\ Go \/ Then([cli EXCEPT !.result = 1])
          /\ UNCHANGED tuner
    /\ UNCHANGED interrupted

(* s0..s3, p and r submit a command and wait for its result.               *)
ParseAcquisitionCommand ==
    /\ cli.phase = "talk" /\ Stage = "tune"
    /\ ~interrupted /\ snap.acquisition = "Running"
    /\ cli.tunes < MaxTunes
    /\ \E op \in {"source", "preview", "restore"} :
          /\ cli' = [cli EXCEPT !.phase = "tuning", !.op = op, !.id = @ + 1,
                                !.tunes = @ + 1]
          /\ newer' = FALSE
          /\ Post(op, cli.id + 1)
    /\ UNCHANGED <<snap, busy, watchdog, session, disk, interrupted>>

AfterTuneCommand ==
    /\ cli.phase = "tuned"
    /\ IF snap.acquisition = "Running" THEN cli' = [cli EXCEPT !.phase = "talk"]
       ELSE Then([cli EXCEPT !.result = 1])
    /\ UNCHANGED <<tuner, interrupted>>

DumpRequestedWaveformCsv ==
    /\ cli.phase = "talk" /\ Stage = "csv"
    /\ Go \/ (cli.result = 0 /\ "csv" \in cli.given /\ Then([cli EXCEPT !.result = 1]))
    /\ UNCHANGED <<tuner, interrupted>>

HandleInterrupt == /\ ~interrupted
                   /\ cli.phase \notin {"parse", "resolve", "exited"}
                   /\ interrupted' = TRUE
                   /\ UNCHANGED <<tuner, cli>>

Exited == cli.phase = "exited" /\ UNCHANGED vars

Cli == \/ ParseOptions \/ ResolveProject \/ EnterStage \/ JoinWatchdog \/ WaitForRevision
       \/ TimeOut \/ ReadSnapshot \/ AnswerPrompt \/ WatchSession \/ TuneLoop
       \/ ParseAcquisitionCommand \/ AfterTuneCommand \/ DumpRequestedWaveformCsv

Next == \/ Cli
        \/ HandleInterrupt
        \/ cli.phase # "exited" /\ Threads /\ UNCHANGED <<cli, interrupted>>
        \/ Exited

Spec == Init /\ [][Next]_vars /\ WF_vars(Cli)
        /\ WF_vars(cli.phase # "exited" /\ Work /\ UNCHANGED <<cli, interrupted>>)

-----------------------------------------------------------------------------
CommandsWaiting == \E i \in DOMAIN queue : queue[i].id # 0

(* Unless one of its waits timed out, the front end returns only when the  *)
(* tuner has dealt with everything it submitted, the session is not open   *)
(* and no acquisition session is held: whatever the interrupts, the        *)
(* watchdog polls in between, and the stage that failed.                   *)
QuietExit ==
    cli.phase = "exited" /\ ~cli.late =>
        /\ ~CommandsWaiting /\ busy = Nothing
        /\ snap.ownership # "SessionOpen" /\ session = "none"

(* An acquisition that is going to be reported as a success has been       *)
(* stopped with verified cleanup before the session is released, also when *)
(* another controller took over between the last look of the tune loop     *)
(* and the stop.                                                           *)
CleanBeforeRelease ==
    (cli.command = "acquire" /\ cli.phase = "enter" /\ Stage = "release"
        /\ cli.result = 0) => snap.clean /\ session = "none"

(* The acquisition command reaches the tuner only for a run with a crate   *)
(* project, without which there is no path for the recovery journal.       *)
StartHasJournalPath ==
    (\E i \in DOMAIN queue : queue[i].name = "start") => "project" \in cli.given

(* Interrupted and not yet returned.  Every wait has a timeout, every loop *)
(* looks at the flag, and the watchdog joined by the release is waiting    *)
(* for a worker that makes progress.                                       *)
Interrupted == interrupted /\ cli.phase # "exited"

(* README: "--save stores the resulting profile".  A capture that returns  *)
(* zero has its profile on disk.  Not so: the wait after the save accepts  *)
(* any newer snapshot, and a watchdog poll published first carries the     *)
(* success message of the capture.                                         *)
SavedWhenZero ==
    (cli.phase = "exited" /\ cli.code = 0 /\ "save" \in cli.given) => disk.saved

(* The acceptance checklist passes each source change on what is reported  *)
(* for it.  The result read after a source command is the one of that      *)
(* command.  Not so: the wait accepts any newer snapshot in which the      *)
(* source change has a result, and a stream or watchdog publication still  *)
(* carries the result of the previous one.                                 *)
SourceReportIsOwn ==
    (cli.phase = "tuned" /\ cli.op = "source") => snap.source.of = cli.id
=============================================================================

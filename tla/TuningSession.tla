--------------------------- MODULE TuningSession ---------------------------
(***************************************************************************)
(* TuningSessionCoordinator.cpp, TargetProbeOperation.cpp, TunerTarget.cpp *)
(* and ApplicationRecoveryDiscovery.cpp: the user names a controller and a *)
(* module, connects to the one, checks the other and opens a session.  The *)
(* user interface submits commands to the command worker and cancels the   *)
(* probe under way by a token; the worker copies the published snapshot,   *)
(* works on the copy and publishes it.                                     *)
(***************************************************************************)
EXTENDS Naturals, Sequences, FiniteSets

CONSTANTS
    Endpoints, ValidEndpoints,    \* what the endpoint fields may hold
    ModuleTexts,                  \* what the module address field may hold
    Addresses, AddressOf,         \* the address a text parses to
    Devices,                      \* the <<endpoint, address>> that are supported
    Entries,                      \* names in the recovery directory
    None,
    EditInputs,        \* the inputs the user enters
    MaxCommands,       \* bound on submitted commands
    MaxQueue,          \* bound on waiting commands
    MaxFaults,         \* bound on failing accesses and disk calls
    MaxMvme            \* bound on starts and stops of MVME

TuningSessionAssumption ==
    /\ ValidEndpoints \subseteq Endpoints
    /\ AddressOf \in [ModuleTexts -> Addresses \cup {None}]
    /\ Devices \subseteq Endpoints \X Addresses
    /\ EditInputs \subseteq [endpoint : Endpoints, text : ModuleTexts]
    /\ MaxCommands \in Nat /\ MaxQueue \in Nat
    /\ MaxFaults \in Nat /\ MaxMvme \in Nat
    /\ None \notin Endpoints \cup ModuleTexts \cup Addresses

VARIABLES
    target,      \* TunerTargetState of the published snapshot
    workspace,   \* the MVME workspace and the target it was evaluated for
    evidence,    \* noRecoveryPending, recoveryContextEstablished
    prefs,       \* preferences.ini: the last verified target, the ssh fields
    queue,       \* the worker's tasks
    worker,      \* the task that runs
    active,      \* activeProbeCancellation_, None or a token
    cancelled,   \* the tokens that are cancelled
    tokens,      \* tokens made
    directory,   \* the recovery directory: what each entry is
    discovery,   \* what DiscoverApplicationRecovery found at the start
    daq, acq,    \* the endpoints in use by MVME, the devices acquiring
    submitted, faults, mvme, open,
    looked       \* ghost: what the probes have seen

disk == <<prefs, directory, discovery>>
bounds == <<submitted, mvme, open>>
world == <<daq, acq, directory, discovery>>
vars == <<target, workspace, evidence, prefs, queue, worker, active,
          cancelled, tokens, directory, discovery, daq, acq,
          submitted, faults, mvme, open, looked>>

----------------------------------------------------------------------------
Inputs == [endpoint : Endpoints, text : ModuleTexts]
DefaultInput == CHOOSE i \in Inputs :
    i.endpoint \notin ValidEndpoints /\ AddressOf[i.text] = None

NotRun == [inProgress |-> FALSE, invalidated |-> FALSE, probed |-> None,
           outcome |-> "notRun"]
NoTarget == [input |-> DefaultInput, ctrl |-> NotRun, verif |-> NotRun,
             gate |-> "notRequested"]
NoWorkspace == [outcome |-> "none", evaluated |-> None]
NoTask == [kind |-> "idle", pc |-> "idle", token |-> 0, input |-> DefaultInput,
           outcome |-> "notRun", reverified |-> FALSE]

Blocks(d) == d \in {"pending", "blocked"}

\* DiscoverApplicationRecovery.  Staging directories of the journal are left
\* out, everything else counts; an unreadable directory blocks.
Discovered(dir, readable) ==
    LET records == {e \in Entries : dir[e] \notin {"absent", "staging"}}
    IN IF ~readable THEN "blocked"
       ELSE IF records = {} THEN "empty"
       ELSE IF \E e \in records : records = {e} /\ dir[e] = "v5" THEN "pending"
       ELSE "blocked"

\* ApplyApplicationRecoveryDiscovery, part of every publication.
ApplyApplicationRecoveryDiscovery(d, e) ==
    IF Blocks(d) THEN [noRecoveryPending |-> FALSE, context |-> TRUE]
    ELSE IF e.context THEN e ELSE [e EXCEPT !.noRecoveryPending = TRUE]

Init ==
    /\ directory \in [Entries -> {"absent", "staging", "v5", "v4", "damaged"}]
    /\ \E readable \in BOOLEAN : discovery = Discovered(directory, readable)
    /\ evidence = ApplyApplicationRecoveryDiscovery(discovery,
                      [noRecoveryPending |-> FALSE, context |-> FALSE])
    /\ target = NoTarget /\ workspace = NoWorkspace
    /\ prefs = [verified |-> None, ssh |-> None]
    /\ queue = <<>> /\ worker = NoTask
    /\ active = None /\ cancelled = {} /\ tokens = 0
    /\ daq = {} /\ acq = {}
    /\ submitted = 0 /\ faults = 0 /\ mvme = 0 /\ open = TRUE
    /\ looked = [idle |-> {}, probed |-> {}]

----------------------------------------------------------------------------
\* TunerTarget.cpp
Address(i) == AddressOf[i.text]

ControllerProbeEvidenceIsCurrent(t) ==
    /\ ~t.ctrl.invalidated
    /\ t.ctrl.probed = t.input.endpoint
    /\ t.ctrl.outcome \notin {"notRun", "inProgress"}

ControllerVerificationIsFresh(t) ==
    ControllerProbeEvidenceIsCurrent(t) /\ t.ctrl.outcome = "verifiedIdle"

TargetProbeEvidenceIsCurrent(t) ==
    /\ ~t.verif.invalidated
    /\ t.verif.probed = t.input
    /\ t.verif.outcome \notin {"notRun", "inProgress"}

TargetVerificationIsFresh(t) ==
    /\ ControllerVerificationIsFresh(t)
    /\ TargetProbeEvidenceIsCurrent(t)
    /\ t.verif.outcome = "verifiedIdle"

\* RefreshWorkspaceTargetEvidence: the scripts of the workspace are evaluated
\* for the address of the current target.
RefreshWorkspaceTargetEvidence(w, input) ==
    [w EXCEPT !.evaluated = IF w.outcome = "loaded" THEN Address(input)
                                                    ELSE None]

\* Publication.  RefreshPresentationEvidence: without a recovery in sight
\* noRecoveryPending follows the journal of the other workflow, which is none.
Publish(t, w) ==
    /\ target' = t /\ workspace' = w
    /\ evidence' = ApplyApplicationRecoveryDiscovery(discovery,
          IF evidence.context THEN evidence
          ELSE [evidence EXCEPT !.noRecoveryPending = TRUE])

----------------------------------------------------------------------------
\* The user interface.
CancelPendingProbe ==
    cancelled' = IF active = None THEN cancelled ELSE cancelled \cup {active}

BeginProbe ==
    /\ CancelPendingProbe
    /\ tokens' = tokens + 1
    /\ active' = tokens + 1

Post(task) == queue' = Append(queue, task)

Submit(task, cancels) ==
    /\ open /\ submitted < MaxCommands /\ Len(queue) < MaxQueue
    /\ submitted' = submitted + 1
    /\ Post(task)
    /\ cancels
    /\ UNCHANGED <<target, workspace, evidence, disk, worker, daq, acq,
                   faults, mvme, open, looked>>

Keep == UNCHANGED <<active, cancelled, tokens>>
CancelOnly == CancelPendingProbe /\ UNCHANGED <<active, tokens>>
Task(kind, token, input) ==
    [NoTask EXCEPT !.kind = kind, !.pc = "begin", !.token = token,
                   !.input = input]

SubmitEdit == \E i \in EditInputs : Submit(Task("edit", 0, i), CancelOnly)
SubmitConnect ==
    Submit(Task("connect", tokens + 1, DefaultInput), BeginProbe)
SubmitCheck == Submit(Task("check", tokens + 1, DefaultInput), BeginProbe)
SubmitOpen == Submit(Task("open", 0, DefaultInput), Keep)
SubmitClear == Submit(Task("clear", 0, DefaultInput), CancelOnly)
SubmitWorkspace ==
    \E kind \in {"setWorkspace", "clearWorkspace"} :
        Submit(Task(kind, 0, DefaultInput), Keep)

\* ~OwnershipService: no command is accepted any more, the queue is drained.
Shutdown ==
    /\ open /\ open' = FALSE
    /\ CancelOnly
    /\ UNCHANGED <<target, workspace, evidence, disk, queue, worker, daq, acq,
                   submitted, faults, mvme, looked>>

----------------------------------------------------------------------------
\* The worker takes the next task.
TakeTask ==
    /\ worker.pc = "idle" /\ queue # <<>>
    /\ worker' = Head(queue) /\ queue' = Tail(queue)
    /\ UNCHANGED <<target, workspace, evidence, disk, active, cancelled,
                   tokens, daq, acq, faults, bounds, looked>>

Begins(kind) == worker.pc = "begin" /\ worker.kind = kind

\* The end of a task that has no effect outside the snapshot.
Ends == /\ worker' = NoTask
        /\ UNCHANGED <<disk, queue, active, cancelled, tokens, daq, acq,
                       faults, bounds>>

Stale(v) == [v EXCEPT !.inProgress = FALSE, !.invalidated = TRUE]

\* Mutant: a changed module address does not withdraw the check.
EditedTargetKeeps(input) ==
    [target EXCEPT !.input = input, !.gate = "notRequested",
        !.ctrl = IF target.input.endpoint # input.endpoint \/ target.input = input
                   THEN Stale(@) ELSE @]

EditedTarget(input) ==
    LET old == target.input
        endpointChanged == old.endpoint # input.endpoint
        all == endpointChanged \/ old = input
    IN [target EXCEPT !.input = input, !.gate = "notRequested",
           !.ctrl = IF all THEN Stale(@) ELSE @,
           !.verif = Stale(@)]

EditTarget ==
    /\ Begins("edit")
    /\ Publish(EditedTarget(worker.input),
          IF target.input.text # worker.input.text
            THEN RefreshWorkspaceTargetEvidence(workspace, worker.input)
            ELSE workspace)
    /\ looked' = [looked EXCEPT
           !.probed = {},
           !.idle = IF target.input.endpoint = worker.input.endpoint
                       /\ target.input # worker.input THEN @ ELSE {}]
    /\ Ends

ClearTarget ==
    /\ Begins("clear")
    /\ Publish(NoTarget, RefreshWorkspaceTargetEvidence(workspace, DefaultInput))
    /\ looked' = [looked EXCEPT !.probed = {}, !.idle = {}]
    /\ Ends

FinishProbe(token) == active' = IF active = token THEN None ELSE active

\* A probe that is refused before it starts.
Refuse(t) ==
    /\ Publish(t, workspace)
    /\ FinishProbe(worker.token)
    /\ worker' = NoTask
    /\ UNCHANGED <<disk, queue, cancelled, tokens, daq, acq, faults, bounds,
                   looked>>

\* A probe of input begins; the endpoint or target is published as in progress.
Start(t) ==
    /\ Publish(t, workspace)
    /\ worker' = [worker EXCEPT !.pc = "controller", !.input = target.input]
    /\ UNCHANGED <<directory, discovery, queue, active, cancelled,
                   tokens, daq, acq, bounds, looked>>

Probing(probed) == [inProgress |-> TRUE, invalidated |-> FALSE,
                    probed |-> probed, outcome |-> "inProgress"]
Failing == faults < MaxFaults /\ faults' = faults + 1

\* Mutant: Connect saves all fields.
ConnectSavesTarget ==
    /\ Begins("connect")
    /\ IF target.input.endpoint \in ValidEndpoints
         THEN /\ Start([target EXCEPT !.gate = "notRequested",
                           !.ctrl = Probing(target.input.endpoint),
                           !.verif = Stale(@)])
              /\ prefs' = [verified |-> target.input,
                           ssh |-> target.input.endpoint]
              /\ UNCHANGED faults
         ELSE Refuse(target)

\* SaveBridgeConvenienceFields; it may fail.
ConnectController ==
    /\ Begins("connect")
    /\ IF target.input.endpoint \in ValidEndpoints
         THEN /\ Start([target EXCEPT !.gate = "notRequested",
                           !.ctrl = Probing(target.input.endpoint),
                           !.verif = Stale(@)])
              /\ \/ /\ prefs' = [prefs EXCEPT !.ssh = target.input.endpoint]
                    /\ UNCHANGED faults
                 \/ Failing /\ UNCHANGED prefs
         ELSE Refuse([target EXCEPT !.gate = "notRequested",
                         !.ctrl = Stale([@ EXCEPT !.outcome = "notRun"])])

ProbeTarget ==
    /\ Begins("check")
    /\ IF ControllerVerificationIsFresh(target) /\ Address(target.input) # None
         THEN /\ Start([target EXCEPT !.gate = "notRequested",
                                      !.verif = Probing(target.input)])
              /\ UNCHANGED <<prefs, faults>>
         ELSE Refuse([target EXCEPT
                         !.verif = Stale([@ EXCEPT !.outcome = "notRun"])])

\* MakeSessionPaths: a stem under which neither a log nor a record exists.
OpenTargetSession ==
    /\ Begins("open")
    /\ \/ /\ ~evidence.noRecoveryPending
          /\ Publish([target EXCEPT !.gate = "recoveryPending"], workspace)
          /\ UNCHANGED faults
       \/ /\ evidence.noRecoveryPending /\ ~TargetVerificationIsFresh(target)
          /\ Publish([target EXCEPT !.gate = "notFresh"], workspace)
          /\ UNCHANGED faults
       \/ /\ evidence.noRecoveryPending /\ TargetVerificationIsFresh(target)
          /\ \/ /\ Publish([target EXCEPT !.gate = "ready"], workspace)
                /\ UNCHANGED faults
             \/ /\ Failing
                /\ Publish([target EXCEPT !.gate = "noStorage"], workspace)
    /\ worker' = NoTask
    /\ UNCHANGED <<prefs, directory, discovery, queue, active, cancelled,
                   tokens, daq, acq, bounds, looked>>

SetWorkspace ==
    /\ Begins("setWorkspace")
    /\ Publish([target EXCEPT !.gate = "notRequested"],
               [outcome |-> "loading", evaluated |-> None])
    /\ worker' = [worker EXCEPT !.pc = "reading"]
    /\ UNCHANGED <<disk, queue, active, cancelled, tokens, daq, acq, faults,
                   bounds, looked>>

ReadWorkspace ==
    /\ worker.pc = "reading"
    /\ \E outcome \in {"notLoaded", "loaded"} :
          Publish(target, RefreshWorkspaceTargetEvidence(
                     [workspace EXCEPT !.outcome = outcome], target.input))
    /\ looked' = looked
    /\ Ends

ClearWorkspace ==
    /\ Begins("clearWorkspace")
    /\ Publish([target EXCEPT !.gate = "notRequested"], NoWorkspace)
    /\ looked' = looked
    /\ Ends

----------------------------------------------------------------------------
\* The probes.  Every register read is followed by a look at the token; a
\* token that is cancelled while a read is under way also fails the read.
Cancelled == worker.token \in cancelled

Decides(outcome, reverified) ==
    worker' = [worker EXCEPT !.pc = "publish", !.outcome = outcome,
                             !.reverified = reverified]

ProbeOnly == UNCHANGED <<target, workspace, evidence, disk, queue, active,
                         cancelled, tokens, daq, acq, bounds>>

\* ghost: what a look at the controller saw, and whether the token had been
\* cancelled before it.
Sees(saw) ==
    looked' = [looked EXCEPT
        !.idle = IF saw = "idle" THEN @ \cup {worker.input.endpoint}
                 ELSE @ \ {worker.input.endpoint}]

\* RunControllerProbe and the first half of ProbeTargetOnOpenTransport.
ControllerRead ==
    /\ worker.pc = "controller"
    /\ \/ /\ Cancelled
          /\ Decides("cancelled", FALSE) /\ Sees("nothing") /\ UNCHANGED faults
       \/ /\ ~Cancelled /\ Failing
          /\ Decides("unavailable", FALSE) /\ Sees("nothing")
       \/ /\ ~Cancelled /\ worker.input.endpoint \in daq
          /\ Decides("daqActive", FALSE) /\ Sees("active") /\ UNCHANGED faults
       \/ /\ ~Cancelled /\ worker.input.endpoint \notin daq
          /\ IF \E a \in Addresses : <<worker.input.endpoint, a>> \in Devices
               THEN /\ worker' = [worker EXCEPT !.pc = "controllerDone"]
                    /\ Sees("idle")
               ELSE Decides("wrongController", FALSE) /\ Sees("nothing")
          /\ UNCHANGED faults
    /\ ProbeOnly

\* The look at the token after the read.
ControllerDone ==
    /\ worker.pc = "controllerDone"
    /\ \/ Cancelled /\ Decides("cancelled", FALSE)
       \/ ~Cancelled /\ worker.kind = "connect" /\ Decides("verifiedIdle", TRUE)
       \/ ~Cancelled /\ worker.kind = "check"
          /\ worker' = [worker EXCEPT !.pc = "identity"]
    /\ UNCHANGED <<faults, looked>>
    /\ ProbeOnly

Device == <<worker.input.endpoint, Address(worker.input)>>

\* Hardware and firmware identity of the module.
TargetIdentity ==
    /\ worker.pc = "identity"
    /\ \/ Cancelled /\ Decides("cancelled", TRUE) /\ UNCHANGED faults
       \/ ~Cancelled /\ Failing /\ Decides("unavailable", TRUE)
       \/ /\ ~Cancelled /\ UNCHANGED faults
          /\ IF Device \in Devices
               THEN worker' = [worker EXCEPT !.pc = "acquisition"]
               ELSE Decides("wrongTarget", TRUE)
    /\ UNCHANGED looked
    /\ ProbeOnly

TargetAcquisition ==
    /\ worker.pc = "acquisition"
    /\ \/ /\ Cancelled /\ Decides("cancelled", TRUE)
          /\ UNCHANGED <<faults, looked>>
       \/ /\ ~Cancelled /\ Failing /\ Decides("unavailable", TRUE)
          /\ UNCHANGED looked
       \/ /\ ~Cancelled /\ Device \in acq /\ Decides("targetActive", TRUE)
          /\ looked' = [looked EXCEPT !.probed = @ \ {worker.input}]
          /\ UNCHANGED faults
       \/ /\ ~Cancelled /\ Device \notin acq
          /\ worker' = [worker EXCEPT !.pc = "targetDone"]
          /\ looked' = [looked EXCEPT !.probed = @ \cup {worker.input}]
          /\ UNCHANGED faults
    /\ ProbeOnly

TargetDone ==
    /\ worker.pc = "targetDone"
    /\ \/ Cancelled /\ Decides("cancelled", TRUE)
       \/ ~Cancelled /\ Decides("verifiedIdle", TRUE)
    /\ UNCHANGED <<faults, looked>>
    /\ ProbeOnly

\* The result is published for what was probed.
Result(probed) == [inProgress |-> FALSE, invalidated |-> FALSE,
                   probed |-> probed, outcome |-> worker.outcome]

FinishConnect ==
    /\ worker.pc = "publish" /\ worker.kind = "connect"
    /\ Publish([target EXCEPT !.ctrl = Result(worker.input.endpoint)], workspace)
    /\ FinishProbe(worker.token)
    /\ worker' = NoTask
    /\ UNCHANGED <<disk, queue, cancelled, tokens, daq, acq, faults, bounds,
                   looked>>

CheckedTarget ==
    [target EXCEPT
        !.verif = Result(worker.input),
        !.ctrl = IF worker.reverified THEN @ ELSE Stale(@)]

\* SaveApplicationPreferences after a check that passed; it may fail.
FinishCheck ==
    /\ worker.pc = "publish" /\ worker.kind = "check"
    /\ IF worker.outcome = "verifiedIdle"
         THEN \/ /\ prefs' = [verified |-> worker.input,
                              ssh |-> worker.input.endpoint]
                 /\ UNCHANGED faults
              \/ Failing /\ UNCHANGED prefs
         ELSE UNCHANGED <<prefs, faults>>
    /\ Publish(CheckedTarget, workspace)
    /\ FinishProbe(worker.token)
    /\ worker' = NoTask
    /\ UNCHANGED <<directory, discovery, queue, cancelled, tokens,
                   daq, acq, bounds, looked>>

----------------------------------------------------------------------------
\* MVME (external) starts or stops a run at an endpoint.
Mvme ==
    /\ mvme < MaxMvme /\ mvme' = mvme + 1
    /\ \E e \in ValidEndpoints :
          IF e \in daq
            THEN daq' = daq \ {e} /\ acq' = {d \in acq : d[1] # e}
            ELSE /\ daq' = daq \cup {e}
                 /\ acq' = acq \cup {d \in Devices : d[1] = e}
    /\ UNCHANGED <<target, workspace, evidence, disk, queue, worker, active,
                   cancelled, tokens, faults, submitted, open, looked>>

Worker ==
    \/ TakeTask \/ EditTarget \/ ClearTarget \/ ConnectController
    \/ ProbeTarget \/ OpenTargetSession \/ SetWorkspace \/ ReadWorkspace
    \/ ClearWorkspace \/ ControllerRead \/ ControllerDone \/ TargetIdentity
    \/ TargetAcquisition \/ TargetDone \/ FinishConnect \/ FinishCheck

UserInterface ==
    \/ SubmitEdit \/ SubmitConnect \/ SubmitCheck \/ SubmitOpen \/ SubmitClear
    \/ SubmitWorkspace \/ Shutdown

Done == ~open /\ queue = <<>> /\ worker = NoTask /\ UNCHANGED vars

Next == UserInterface \/ Worker \/ Mvme \/ Done

Spec == Init /\ [][Next]_vars /\ WF_vars(Worker)

----------------------------------------------------------------------------
(***************************************************************************)
(* A session is offered only for a target that was found idle since the    *)
(* fields last named it: no edit away and back, no probe of another target *)
(* and no cancelled probe leaves a verification that OpenTargetSession     *)
(* would accept.                                                           *)
(***************************************************************************)
ReadyIsVerified ==
    target.gate = "ready" =>
        /\ target.input \in looked.probed
        /\ target.input.endpoint \in looked.idle

(***************************************************************************)
(* What Connect established is withdrawn as soon as a later check does not *)
(* find the controller idle (ProbeTarget, controllerRevalidated).          *)
(***************************************************************************)
FreshIsLastLook ==
    (worker.pc \in {"idle", "begin"} /\ ControllerVerificationIsFresh(target))
        => target.input.endpoint \in looked.idle

(***************************************************************************)
(* Normal tuning is never offered over a recovery record that was in the   *)
(* directory when FIDGET started, however damaged the record is.           *)
(***************************************************************************)
ReadyMeansNothingToRecover ==
    target.gate = "ready" =>
        \A e \in Entries : directory[e] \in {"absent", "staging"}

(***************************************************************************)
(* The scripts of the workspace are evaluated for the address the target   *)
(* fields hold now (RefreshWorkspaceTargetEvidence).                       *)
(***************************************************************************)
WorkspaceMatchesTarget ==
    workspace.outcome = "loaded" => workspace.evaluated = Address(target.input)

(***************************************************************************)
(* The preferences name a target as verified only when a check found it    *)
(* idle; Connect alone saves the ssh fields and nothing else.              *)
(***************************************************************************)
PreferencesNameVerified ==
    prefs'.verified # prefs.verified =>
        /\ worker.kind = "check" /\ worker.outcome = "verifiedIdle"
        /\ prefs'.verified = worker.input
        /\ worker.input \in looked.probed

(***************************************************************************)
(* A probe is shown as in progress.  It must not stay so: the worker       *)
(* reaches its result whatever is cancelled, edited or failing meanwhile,  *)
(* and a shutdown lets it end.                                             *)
(***************************************************************************)
InProgress == target.ctrl.inProgress \/ target.verif.inProgress
=============================================================================

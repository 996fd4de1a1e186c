---------------------------- MODULE TuningProofs ----------------------------
(***************************************************************************)
(* The tuning session, its preparation and its pages, for any endpoints,   *)
(* addresses, edits, records in the recovery directory, quads, values and  *)
(* bounds.                                                                 *)
(***************************************************************************)
EXTENDS MCTuning, SequenceTheorems, TLAPS

----------------------------------------------------------------------------
(***************************************************************************)
(* The session.  None of its properties is inductive: that a session is    *)
(* offered only for what was found idle needs, at every read of a probe,   *)
(* what that probe has seen (ProbeOK), that the fields cannot change under *)
(* it, and what the evidence of a probe that ended means (EvidenceOK).     *)
(***************************************************************************)
Fields(r, names) == DOMAIN r = names
LookFields == {"inProgress", "invalidated", "probed", "outcome"}
TaskFields == {"kind", "pc", "token", "input", "outcome", "reverified"}
Reads == {"controller", "controllerDone", "identity", "acquisition",
          "targetDone", "publish"}
Waiting == [kind : {"edit", "connect", "check", "open", "clear",
                    "setWorkspace", "clearWorkspace"},
            pc : {"begin"}, token : Nat,
            input : EditInputs \cup {Session!DefaultInput},
            outcome : {"notRun"}, reverified : {FALSE}]

\* The records have their fields, and a task that waits has not begun.
Shapes ==
    /\ Fields(target, {"input", "ctrl", "verif", "gate"})
    /\ Fields(target.ctrl, LookFields) /\ Fields(target.verif, LookFields)
    /\ Fields(workspace, {"outcome", "evaluated"})
    /\ Fields(evidence, {"noRecoveryPending", "context"})
    /\ Fields(prefs, {"verified", "ssh"})
    /\ Fields(looked, {"idle", "probed"})
    /\ Fields(worker, TaskFields)
    /\ worker.pc \in Reads \cup {"idle", "begin", "reading"}
    /\ tokens \in Nat /\ queue \in Seq(Waiting)

\* What the evidence of the probes that ended means.
EvidenceOK ==
    /\ Session!ControllerVerificationIsFresh(target) =>
          target.input.endpoint \in looked.idle
    /\ Session!TargetVerificationIsFresh(target) => target.input \in looked.probed

\* A probe under way is one of what the fields name; no session is offered;
\* and what it has seen so far.
ProbeOK ==
    /\ worker.kind \in {"connect", "check"}
    /\ worker.input = target.input /\ target.gate = "notRequested"
    /\ worker.kind = "connect" =>
          /\ target.verif.invalidated
          /\ worker.pc \in {"controller", "controllerDone", "publish"}
    /\ worker.kind = "check" => target.verif.outcome = "inProgress"
    /\ worker.pc \in {"controllerDone", "identity", "acquisition", "targetDone"}
          => worker.input.endpoint \in looked.idle
    /\ worker.pc = "targetDone" => worker.input \in looked.probed
    /\ worker.pc = "publish" =>
          /\ worker.reverified \/ worker.outcome = "verifiedIdle" =>
                worker.input.endpoint \in looked.idle
          /\ worker.kind = "check" /\ worker.outcome = "verifiedIdle" =>
                worker.input \in looked.probed

\* What was found in the recovery directory at the start stays there.
DirectoryOK ==
    /\ discovery \in {"empty", "pending", "blocked"}
    /\ discovery = "empty" => \A e \in Entries : directory[e] \in {"absent", "staging"}
    /\ Session!Blocks(discovery) => ~evidence.noRecoveryPending
    /\ target.gate = "ready" => discovery = "empty"

SessionInv ==
    /\ Shapes /\ DirectoryOK /\ Session!WorkspaceMatchesTarget
    /\ Session!ReadyIsVerified
    /\ worker.pc \in Reads => ProbeOK
    /\ worker.pc \notin Reads => EvidenceOK

\* Before anything is submitted nothing is verified and nothing is offered.
LEMMA SessionStart ==
    ASSUME Session!Init PROVE SessionInv
<1> USE DEF Session!Init, Session!NoTarget, Session!NotRun, Session!NoWorkspace,
            Session!NoTask
<1>1. Shapes
  BY EmptySeq DEF Shapes, Fields, LookFields, TaskFields,
                  Session!ApplyApplicationRecoveryDiscovery, Session!Blocks
<1>2. DirectoryOK
  <2>1. /\ discovery \in {"empty", "pending", "blocked"}
        /\ discovery = "empty" =>
              \A e \in Entries : directory[e] \in {"absent", "staging"}
    BY DEF Session!Discovered
  <2> QED
    BY <2>1 DEF DirectoryOK, Session!ApplyApplicationRecoveryDiscovery, Session!Blocks
<1>3. Session!WorkspaceMatchesTarget /\ Session!ReadyIsVerified
  BY DEF Session!WorkspaceMatchesTarget, Session!ReadyIsVerified
<1>4. EvidenceOK
  BY DEF EvidenceOK, Session!TargetVerificationIsFresh,
         Session!ControllerVerificationIsFresh,
         Session!ControllerProbeEvidenceIsCurrent
<1> QED
  BY <1>1, <1>2, <1>3, <1>4 DEF SessionInv, Reads

\* Submitting a command or closing the program changes only the queue and the
\* tokens.
LEMMA UserKept ==
    ASSUME SessionInv, Session!UserInterface PROVE SessionInv'
<1>1. UNCHANGED <<target, workspace, evidence, prefs, directory, discovery, worker,
                  looked>>
  BY DEF Session!UserInterface, Session!SubmitEdit, Session!SubmitConnect,
         Session!SubmitCheck, Session!SubmitOpen, Session!SubmitClear,
         Session!SubmitWorkspace, Session!Submit, Session!Shutdown, Session!disk
<1>2. tokens' \in Nat
  BY DEF SessionInv, Shapes, Session!UserInterface, Session!SubmitEdit,
         Session!SubmitConnect, Session!SubmitCheck, Session!SubmitOpen,
         Session!SubmitClear, Session!SubmitWorkspace, Session!Submit,
         Session!Shutdown, Session!Keep, Session!CancelOnly, Session!BeginProbe
<1>3. ASSUME NEW kind \in {"edit", "connect", "check", "open", "clear",
                           "setWorkspace", "clearWorkspace"},
             NEW token \in Nat,
             NEW input \in EditInputs \cup {Session!DefaultInput},
             queue' = Append(queue, Session!Task(kind, token, input))
      PROVE  queue' \in Seq(Waiting)
  <2>1. Session!Task(kind, token, input) \in Waiting
    BY DEF Session!Task, Session!NoTask, Waiting
  <2> QED
    BY <1>3, <2>1, AppendProperties DEF SessionInv, Shapes
<1>4. queue' \in Seq(Waiting)
  <2>1. CASE Session!SubmitEdit
    BY <1>3, <2>1 DEF Session!SubmitEdit, Session!Submit, Session!Post
  <2>2. CASE Session!SubmitWorkspace
    BY <1>3, <2>2 DEF Session!SubmitWorkspace, Session!Submit, Session!Post
  <2>3. CASE Session!Shutdown
    BY <2>3 DEF Session!Shutdown, SessionInv, Shapes
  <2>4. CASE \/ Session!SubmitConnect \/ Session!SubmitCheck
             \/ Session!SubmitOpen \/ Session!SubmitClear
    <3>1. tokens + 1 \in Nat /\ 0 \in Nat
      BY DEF SessionInv, Shapes
    <3> QED
      BY <1>3, <2>4, <3>1
         DEF Session!SubmitConnect, Session!SubmitCheck, Session!SubmitOpen,
             Session!SubmitClear, Session!Submit, Session!Post
  <2> QED
    BY <2>1, <2>2, <2>3, <2>4 DEF Session!UserInterface
<1> QED
  BY <1>1, <1>2, <1>4
     DEF SessionInv, Shapes, DirectoryOK, ProbeOK, EvidenceOK,
         Session!WorkspaceMatchesTarget, Session!ReadyIsVerified, Session!Address,
         Session!TargetVerificationIsFresh, Session!ControllerVerificationIsFresh,
         Session!ControllerProbeEvidenceIsCurrent,
         Session!TargetProbeEvidenceIsCurrent

\* The worker takes a task that has not begun.
LEMMA TakeKept ==
    ASSUME SessionInv, Session!TakeTask PROVE SessionInv'
<1>1. /\ worker' \in Waiting /\ queue' \in Seq(Waiting)
      /\ UNCHANGED <<target, workspace, evidence, prefs, directory, discovery, looked,
                     tokens>>
      /\ worker.pc = "idle"
  BY HeadTailProperties
     DEF Session!TakeTask, SessionInv, Shapes, Session!disk
<1>2. Fields(worker', TaskFields) /\ worker'.pc = "begin"
  BY <1>1 DEF Waiting, Fields, TaskFields
<1> QED
  BY <1>1, <1>2
     DEF SessionInv, Shapes, Fields, Reads, DirectoryOK, EvidenceOK,
         Session!WorkspaceMatchesTarget, Session!ReadyIsVerified, Session!Address,
         Session!TargetVerificationIsFresh, Session!ControllerVerificationIsFresh,
         Session!ControllerProbeEvidenceIsCurrent,
         Session!TargetProbeEvidenceIsCurrent

\* What is published beside the target.
LEMMA PublishKeeps ==
    ASSUME Shapes, DirectoryOK, NEW t, NEW w, Session!Publish(t, w),
           UNCHANGED <<directory, discovery>>,
           t.gate = "ready" => discovery = "empty"
    PROVE  /\ target' = t /\ workspace' = w
           /\ Fields(evidence', {"noRecoveryPending", "context"})
           /\ DirectoryOK'
BY DEF Shapes, Fields, DirectoryOK, Session!Publish, Session!Blocks,
       Session!ApplyApplicationRecoveryDiscovery

\* A task that ends leaves the worker at rest.
LEMMA AtRest ==
    /\ Fields(Session!NoTask, TaskFields) /\ Session!NoTask.pc = "idle"
    /\ "idle" \notin Reads /\ "begin" \notin Reads /\ "reading" \notin Reads
BY DEF Fields, TaskFields, Session!NoTask, Reads

\* A step that ends a task preserves the invariant if what it publishes is
\* offered and verified by what has been seen.
LEMMA EndKeeps ==
    ASSUME Shapes, DirectoryOK, NEW t, NEW w, Session!Publish(t, w),
           UNCHANGED <<directory, discovery, queue, tokens>>,
           Fields(prefs', {"verified", "ssh"}), Fields(looked', {"idle", "probed"}),
           Fields(worker', TaskFields), worker'.pc \in {"idle", "reading"},
           Fields(t, {"input", "ctrl", "verif", "gate"}),
           Fields(t.ctrl, LookFields), Fields(t.verif, LookFields),
           Fields(w, {"outcome", "evaluated"}),
           t.gate = "ready" =>
              /\ discovery = "empty"
              /\ t.input \in looked'.probed /\ t.input.endpoint \in looked'.idle,
           w.outcome = "loaded" => w.evaluated = Session!Address(t.input),
           Session!ControllerVerificationIsFresh(t) => t.input.endpoint \in looked'.idle,
           Session!TargetVerificationIsFresh(t) => t.input \in looked'.probed
    PROVE  SessionInv'
<1>1. /\ target' = t /\ workspace' = w
      /\ Fields(evidence', {"noRecoveryPending", "context"})
      /\ DirectoryOK'
  BY PublishKeeps
<1>2. Shapes'
  BY <1>1 DEF Shapes
<1>3. Session!WorkspaceMatchesTarget' /\ Session!ReadyIsVerified'
  BY <1>1 DEF Session!WorkspaceMatchesTarget, Session!ReadyIsVerified, Session!Address
<1>4. EvidenceOK'
  BY <1>1 DEF EvidenceOK, Session!TargetVerificationIsFresh,
              Session!ControllerVerificationIsFresh,
              Session!ControllerProbeEvidenceIsCurrent,
              Session!TargetProbeEvidenceIsCurrent
<1> QED
  BY <1>1, <1>2, <1>3, <1>4, AtRest DEF SessionInv

\* Editing withdraws what was verified of other fields, clearing all of it.
LEMMA EditKept ==
    ASSUME SessionInv, Session!EditTarget PROVE SessionInv'
<1> DEFINE t == Session!EditedTarget(worker.input)
           w == IF target.input.text # worker.input.text
                  THEN Session!RefreshWorkspaceTargetEvidence(workspace, worker.input)
                  ELSE workspace
<1>1. /\ Shapes /\ DirectoryOK /\ Session!WorkspaceMatchesTarget /\ EvidenceOK
      /\ Session!Publish(t, w) /\ worker' = Session!NoTask
      /\ UNCHANGED <<directory, discovery, queue, tokens, prefs>>
  BY DEF Session!EditTarget, Session!Begins, Session!Ends, Session!disk, SessionInv,
         Reads
<1>2. /\ Fields(t, {"input", "ctrl", "verif", "gate"})
      /\ Fields(t.ctrl, LookFields) /\ Fields(t.verif, LookFields)
      /\ t.input = worker.input /\ t.gate = "notRequested" /\ t.verif.invalidated
      /\ t.ctrl.invalidated \/ /\ target.input.endpoint = worker.input.endpoint
                               /\ target.input # worker.input
                               /\ t.ctrl = target.ctrl
  BY <1>1 DEF Shapes, Fields, LookFields, Session!EditedTarget, Session!Stale
<1>3. /\ Fields(looked', {"idle", "probed"})
      /\ target.input.endpoint = worker.input.endpoint /\ target.input # worker.input
            => looked'.idle = looked.idle
  BY <1>1 DEF Shapes, Fields, Session!EditTarget
<1>4. /\ Fields(w, {"outcome", "evaluated"})
      /\ w.outcome = "loaded" => w.evaluated = Session!Address(t.input)
  BY <1>1, <1>2 DEF Shapes, Fields, Session!RefreshWorkspaceTargetEvidence,
                    Session!WorkspaceMatchesTarget, Session!Address
<1>5. /\ Session!ControllerVerificationIsFresh(t) => t.input.endpoint \in looked'.idle
      /\ ~Session!TargetVerificationIsFresh(t)
  BY <1>1, <1>2, <1>3
     DEF EvidenceOK, Session!TargetVerificationIsFresh,
         Session!ControllerVerificationIsFresh,
         Session!ControllerProbeEvidenceIsCurrent,
         Session!TargetProbeEvidenceIsCurrent
<1> HIDE DEF t, w
<1> QED
  BY <1>1, <1>2, <1>3, <1>4, <1>5, EndKeeps, AtRest DEF Shapes

\* Cleared fields are verified by nothing.
LEMMA ClearKept ==
    ASSUME SessionInv, Session!ClearTarget PROVE SessionInv'
<1> DEFINE t == Session!NoTarget
           w == Session!RefreshWorkspaceTargetEvidence(workspace, Session!DefaultInput)
<1>1. /\ Shapes /\ DirectoryOK
      /\ Session!Publish(t, w) /\ worker' = Session!NoTask
      /\ UNCHANGED <<directory, discovery, queue, tokens, prefs>>
  BY DEF Session!ClearTarget, Session!Ends, Session!disk, SessionInv
<1>2. /\ Fields(t, {"input", "ctrl", "verif", "gate"})
      /\ Fields(t.ctrl, LookFields) /\ Fields(t.verif, LookFields)
      /\ t.input = Session!DefaultInput /\ t.gate = "notRequested"
      /\ t.ctrl.outcome = "notRun"
  BY DEF Fields, LookFields, Session!NoTarget, Session!NotRun
<1>3. Fields(looked', {"idle", "probed"})
  BY <1>1 DEF Shapes, Fields, Session!ClearTarget
<1>4. /\ Fields(w, {"outcome", "evaluated"})
      /\ w.outcome = "loaded" => w.evaluated = Session!Address(t.input)
  BY <1>1, <1>2 DEF Shapes, Fields, Session!RefreshWorkspaceTargetEvidence
<1>5. /\ ~Session!ControllerVerificationIsFresh(t)
      /\ ~Session!TargetVerificationIsFresh(t)
  BY <1>2 DEF Session!TargetVerificationIsFresh,
              Session!ControllerVerificationIsFresh,
              Session!ControllerProbeEvidenceIsCurrent
<1> HIDE DEF t, w
<1> QED
  BY <1>1, <1>2, <1>3, <1>4, <1>5, EndKeeps, AtRest DEF Shapes

\* A probe begins by withdrawing what it is going to establish.
LEMMA StartKeeps ==
    ASSUME SessionInv, NEW t, Session!Start(t), worker.pc = "begin",
           worker.kind \in {"connect", "check"},
           Fields(prefs', {"verified", "ssh"}),
           Fields(t, {"input", "ctrl", "verif", "gate"}),
           Fields(t.ctrl, LookFields), Fields(t.verif, LookFields),
           t.input = target.input, t.gate = "notRequested",
           worker.kind = "connect" => t.verif.invalidated,
           worker.kind = "check" => t.verif.outcome = "inProgress"
    PROVE  SessionInv'
<1>1. /\ Shapes /\ DirectoryOK /\ Session!WorkspaceMatchesTarget
      /\ Session!Publish(t, workspace)
      /\ worker' = [worker EXCEPT !.pc = "controller", !.input = target.input]
      /\ UNCHANGED <<directory, discovery, queue, tokens, looked>>
  BY DEF Session!Start, SessionInv
<1>2. /\ target' = t /\ workspace' = workspace
      /\ Fields(evidence', {"noRecoveryPending", "context"})
      /\ DirectoryOK'
  BY <1>1, PublishKeeps
<1>3. /\ Fields(worker', TaskFields) /\ worker'.pc = "controller"
      /\ worker'.kind = worker.kind /\ worker'.input = target.input
  BY <1>1 DEF Shapes, Fields, TaskFields
<1>4. Shapes'
  BY <1>1, <1>2, <1>3 DEF Shapes, Reads
<1>5. ProbeOK'
  BY <1>2, <1>3 DEF ProbeOK
<1>6. Session!WorkspaceMatchesTarget' /\ Session!ReadyIsVerified'
  BY <1>1, <1>2
     DEF Session!WorkspaceMatchesTarget, Session!ReadyIsVerified, Session!Address
<1> QED
  BY <1>2, <1>3, <1>4, <1>5, <1>6 DEF SessionInv, Reads

\* A probe that is refused withdraws evidence and establishes none.
LEMMA RefuseKeeps ==
    ASSUME SessionInv, NEW t, Session!Refuse(t), worker.pc = "begin",
           Fields(t, {"input", "ctrl", "verif", "gate"}),
           Fields(t.ctrl, LookFields), Fields(t.verif, LookFields),
           t.input = target.input, t.gate \in {target.gate, "notRequested"},
           t.ctrl = target.ctrl \/ t.ctrl.invalidated,
           t.verif = target.verif \/ t.verif.invalidated
    PROVE  SessionInv'
<1>1. /\ Shapes /\ DirectoryOK /\ Session!WorkspaceMatchesTarget /\ EvidenceOK
      /\ Session!ReadyIsVerified
      /\ Session!Publish(t, workspace) /\ worker' = Session!NoTask
      /\ UNCHANGED <<directory, discovery, queue, tokens, looked, prefs>>
  BY DEF Session!Refuse, Session!disk, SessionInv, Reads
<1>2. t.gate = "ready" =>
         /\ discovery = "empty"
         /\ t.input \in looked'.probed /\ t.input.endpoint \in looked'.idle
  BY <1>1 DEF DirectoryOK, Session!ReadyIsVerified
<1>3. /\ Session!ControllerVerificationIsFresh(t) => t.input.endpoint \in looked'.idle
      /\ Session!TargetVerificationIsFresh(t) => t.input \in looked'.probed
  BY <1>1 DEF EvidenceOK, Session!TargetVerificationIsFresh,
              Session!ControllerVerificationIsFresh,
              Session!ControllerProbeEvidenceIsCurrent,
              Session!TargetProbeEvidenceIsCurrent
<1>4. workspace.outcome = "loaded" => workspace.evaluated = Session!Address(t.input)
  BY <1>1 DEF Session!WorkspaceMatchesTarget
<1> QED
  BY <1>1, <1>2, <1>3, <1>4, EndKeeps, AtRest DEF Shapes

\* Connect looks at the controller again and forgets what it knew of the module.
LEMMA ConnectKept ==
    ASSUME SessionInv, Session!ConnectController PROVE SessionInv'
<1>1. Shapes /\ worker.pc = "begin" /\ worker.kind = "connect"
  BY DEF SessionInv, Session!ConnectController, Session!Begins
<1>2. CASE target.input.endpoint \in ValidEndpoints
  <2> DEFINE t == [target EXCEPT
                      !.gate = "notRequested",
                      !.ctrl = Session!Probing(target.input.endpoint),
                      !.verif = Session!Stale(@)]
  <2>1. Session!Start(t)
    BY <1>2 DEF Session!ConnectController
  <2>2. Fields(prefs', {"verified", "ssh"})
    BY <1>1, <1>2 DEF Session!ConnectController, Shapes, Fields
  <2>3. /\ Fields(t, {"input", "ctrl", "verif", "gate"})
        /\ Fields(t.ctrl, LookFields) /\ Fields(t.verif, LookFields)
        /\ t.input = target.input /\ t.gate = "notRequested"
        /\ t.verif.invalidated
    BY <1>1 DEF Shapes, Fields, LookFields, Session!Probing, Session!Stale
  <2> HIDE DEF t
  <2> QED
    BY <1>1, <2>1, <2>2, <2>3, StartKeeps
<1>3. CASE target.input.endpoint \notin ValidEndpoints
  <2> DEFINE t == [target EXCEPT
                      !.gate = "notRequested",
                      !.ctrl = Session!Stale([@ EXCEPT !.outcome = "notRun"])]
  <2>1. Session!Refuse(t)
    BY <1>3 DEF Session!ConnectController
  <2>2. /\ Fields(t, {"input", "ctrl", "verif", "gate"})
        /\ Fields(t.ctrl, LookFields) /\ Fields(t.verif, LookFields)
        /\ t.input = target.input /\ t.gate = "notRequested"
        /\ t.ctrl.invalidated /\ t.verif = target.verif
    BY <1>1 DEF Shapes, Fields, LookFields, Session!Stale
  <2> HIDE DEF t
  <2> QED
    BY <1>1, <2>1, <2>2, RefuseKeeps
<1> QED
  BY <1>2, <1>3

\* A check looks at the module the fields name.
LEMMA CheckKept ==
    ASSUME SessionInv, Session!ProbeTarget PROVE SessionInv'
<1>1. Shapes /\ worker.pc = "begin" /\ worker.kind = "check"
  BY DEF SessionInv, Session!ProbeTarget, Session!Begins
<1> DEFINE proceeds == /\ Session!ControllerVerificationIsFresh(target)
                       /\ Session!Address(target.input) # None
<1>2. CASE proceeds
  <2> DEFINE t == [target EXCEPT !.gate = "notRequested",
                                 !.verif = Session!Probing(target.input)]
  <2>1. Session!Start(t) /\ prefs' = prefs
    BY <1>2 DEF Session!ProbeTarget
  <2>2. /\ Fields(t, {"input", "ctrl", "verif", "gate"})
        /\ Fields(t.ctrl, LookFields) /\ Fields(t.verif, LookFields)
        /\ t.input = target.input /\ t.gate = "notRequested"
        /\ t.verif.outcome = "inProgress"
    BY <1>1 DEF Shapes, Fields, LookFields, Session!Probing
  <2> HIDE DEF t
  <2> QED
    BY <1>1, <2>1, <2>2, StartKeeps DEF Shapes
<1>3. CASE ~proceeds
  <2> DEFINE t == [target EXCEPT
                      !.verif = Session!Stale([@ EXCEPT !.outcome = "notRun"])]
  <2>1. Session!Refuse(t)
    BY <1>3 DEF Session!ProbeTarget
  <2>2. /\ Fields(t, {"input", "ctrl", "verif", "gate"})
        /\ Fields(t.ctrl, LookFields) /\ Fields(t.verif, LookFields)
        /\ t.input = target.input /\ t.gate = target.gate
        /\ t.verif.invalidated /\ t.ctrl = target.ctrl
    BY <1>1 DEF Shapes, Fields, LookFields, Session!Stale
  <2> HIDE DEF t
  <2> QED
    BY <1>1, <2>1, <2>2, RefuseKeeps
<1> QED
  BY <1>2, <1>3

\* A session is offered when the record of the start is clear and the target
\* verified.
LEMMA OpenKept ==
    ASSUME SessionInv, Session!OpenTargetSession PROVE SessionInv'
<1>1. /\ Shapes /\ DirectoryOK /\ Session!WorkspaceMatchesTarget /\ EvidenceOK
      /\ worker' = Session!NoTask
      /\ UNCHANGED <<directory, discovery, queue, tokens, looked, prefs>>
  BY DEF Session!OpenTargetSession, Session!Begins, SessionInv, Reads
<1>2. PICK gate \in {"recoveryPending", "notFresh", "ready", "noStorage"} :
         /\ Session!Publish([target EXCEPT !.gate = gate], workspace)
         /\ gate = "ready" => /\ evidence.noRecoveryPending
                              /\ Session!TargetVerificationIsFresh(target)
  BY DEF Session!OpenTargetSession
<1> DEFINE t == [target EXCEPT !.gate = gate]
<1>3. /\ Fields(t, {"input", "ctrl", "verif", "gate"})
      /\ t.input = target.input /\ t.gate = gate
      /\ t.ctrl = target.ctrl /\ t.verif = target.verif
  BY <1>1 DEF Shapes, Fields
<1>4. /\ Session!ControllerVerificationIsFresh(t)
            <=> Session!ControllerVerificationIsFresh(target)
      /\ Session!TargetVerificationIsFresh(t)
            <=> Session!TargetVerificationIsFresh(target)
  BY <1>3 DEF Session!TargetVerificationIsFresh,
              Session!ControllerVerificationIsFresh,
              Session!ControllerProbeEvidenceIsCurrent,
              Session!TargetProbeEvidenceIsCurrent
<1>5. /\ Session!ControllerVerificationIsFresh(t) => t.input.endpoint \in looked'.idle
      /\ Session!TargetVerificationIsFresh(t) => t.input \in looked'.probed
  BY <1>1, <1>3, <1>4 DEF EvidenceOK
<1>6. t.gate = "ready" =>
         /\ discovery = "empty"
         /\ t.input \in looked'.probed /\ t.input.endpoint \in looked'.idle
  BY <1>1, <1>2, <1>3, <1>4, <1>5
     DEF DirectoryOK, Session!Blocks, Session!TargetVerificationIsFresh
<1>7. workspace.outcome = "loaded" => workspace.evaluated = Session!Address(t.input)
  BY <1>1, <1>3 DEF Session!WorkspaceMatchesTarget
<1> HIDE DEF t
<1>8. Session!Publish(t, workspace)
  BY <1>2 DEF t
<1>9. Fields(t.ctrl, LookFields) /\ Fields(t.verif, LookFields)
  BY <1>1, <1>3 DEF Shapes
<1> QED
  BY <1>1, <1>3, <1>5, <1>6, <1>7, <1>8, <1>9, EndKeeps, AtRest DEF Shapes

\* A workspace that is read is evaluated for the target of that moment.
LEMMA WorkspaceKept ==
    ASSUME SessionInv,
           \/ Session!SetWorkspace \/ Session!ReadWorkspace
           \/ Session!ClearWorkspace
    PROVE  SessionInv'
<1>1. PICK t, w :
         /\ Session!Publish(t, w)
         /\ t \in {target, [target EXCEPT !.gate = "notRequested"]}
         /\ Fields(w, {"outcome", "evaluated"})
         /\ w.outcome = "loaded" => w.evaluated = Session!Address(target.input)
  <2>1. CASE Session!SetWorkspace
    BY <2>1 DEF Session!SetWorkspace, Fields
  <2>2. CASE Session!ReadWorkspace
    <3>1. PICK outcome \in {"notLoaded", "loaded"} :
             Session!Publish(target, Session!RefreshWorkspaceTargetEvidence(
                     [workspace EXCEPT !.outcome = outcome], target.input))
      BY <2>2 DEF Session!ReadWorkspace
    <3>2. Fields(workspace, {"outcome", "evaluated"})
      BY DEF SessionInv, Shapes
    <3> DEFINE w == Session!RefreshWorkspaceTargetEvidence(
                       [workspace EXCEPT !.outcome = outcome], target.input)
    <3>3. /\ Fields(w, {"outcome", "evaluated"})
          /\ w.outcome = "loaded" => w.evaluated = Session!Address(target.input)
      BY <3>2 DEF Fields, Session!RefreshWorkspaceTargetEvidence
    <3> QED
      BY <3>1, <3>3
  <2>3. CASE Session!ClearWorkspace
    BY <2>3 DEF Session!ClearWorkspace, Session!NoWorkspace, Fields
  <2> QED
    BY <2>1, <2>2, <2>3
<1>2. /\ Shapes /\ DirectoryOK /\ EvidenceOK /\ Session!ReadyIsVerified
      /\ Fields(worker', TaskFields) /\ worker'.pc \in {"idle", "reading"}
      /\ UNCHANGED <<directory, discovery, queue, tokens, looked, prefs>>
  BY AtRest
     DEF Session!SetWorkspace, Session!ReadWorkspace, Session!ClearWorkspace,
         Session!Begins, Session!Ends, Session!disk, SessionInv, Shapes, Fields,
         TaskFields, Reads
<1>3. /\ Fields(t, {"input", "ctrl", "verif", "gate"})
      /\ t.input = target.input /\ t.gate \in {target.gate, "notRequested"}
      /\ t.ctrl = target.ctrl /\ t.verif = target.verif
  BY <1>1, <1>2 DEF Shapes, Fields
<1>4. /\ Session!ControllerVerificationIsFresh(t)
            => Session!ControllerVerificationIsFresh(target)
      /\ Session!TargetVerificationIsFresh(t)
            => Session!TargetVerificationIsFresh(target)
  BY <1>3 DEF Session!TargetVerificationIsFresh,
              Session!ControllerVerificationIsFresh,
              Session!ControllerProbeEvidenceIsCurrent,
              Session!TargetProbeEvidenceIsCurrent
<1>5. /\ Session!ControllerVerificationIsFresh(t) => t.input.endpoint \in looked'.idle
      /\ Session!TargetVerificationIsFresh(t) => t.input \in looked'.probed
      /\ t.gate = "ready" =>
            /\ discovery = "empty"
            /\ t.input \in looked'.probed /\ t.input.endpoint \in looked'.idle
  BY <1>2, <1>3, <1>4 DEF EvidenceOK, DirectoryOK, Session!ReadyIsVerified
<1>6. Fields(t.ctrl, LookFields) /\ Fields(t.verif, LookFields)
  BY <1>2, <1>3 DEF Shapes
<1> QED
  BY <1>1, <1>2, <1>3, <1>5, <1>6, EndKeeps DEF Shapes

\* A read decides the outcome of the probe or leads to the next one.  What it
\* changes besides is what the probe has seen.
ReadStep ==
    /\ UNCHANGED <<target, workspace, evidence, prefs, directory, discovery, queue,
                   tokens>>
    /\ Fields(worker', TaskFields) /\ Fields(looked', {"idle", "probed"})
    /\ worker'.pc \in Reads \ {"controller"}
    /\ worker'.kind = worker.kind /\ worker'.input = worker.input

\* The fields and what is published stay while a probe reads.
LEMMA ReadMoves ==
    ASSUME SessionInv,
           \/ Session!ControllerRead \/ Session!ControllerDone
           \/ Session!TargetIdentity \/ Session!TargetAcquisition
           \/ Session!TargetDone
    PROVE  ReadStep
<1>1. Fields(worker, TaskFields) /\ Fields(looked, {"idle", "probed"})
  BY DEF SessionInv, Shapes
<1>2. UNCHANGED <<target, workspace, evidence, prefs, directory, discovery, queue,
                  tokens>>
  BY DEF Session!ControllerRead, Session!ControllerDone, Session!TargetIdentity,
         Session!TargetAcquisition, Session!TargetDone, Session!ProbeOnly,
         Session!disk
<1>3. Fields(looked', {"idle", "probed"})
  BY <1>1 DEF Session!ControllerRead, Session!ControllerDone,
              Session!TargetIdentity, Session!TargetAcquisition,
              Session!TargetDone, Session!Sees, Fields
<1>4. /\ Fields(worker', TaskFields) /\ worker'.pc \in Reads \ {"controller"}
      /\ worker'.kind = worker.kind /\ worker'.input = worker.input
  BY <1>1 DEF Session!ControllerRead, Session!ControllerDone,
              Session!TargetIdentity, Session!TargetAcquisition,
              Session!TargetDone, Session!Decides, Fields, TaskFields, Reads
<1> QED
  BY <1>2, <1>3, <1>4 DEF ReadStep

\* A probe has seen what its place says.
LEMMA ReadKept ==
    ASSUME SessionInv,
           \/ Session!ControllerRead \/ Session!ControllerDone
           \/ Session!TargetIdentity \/ Session!TargetAcquisition
           \/ Session!TargetDone
    PROVE  SessionInv'
<1>1. ReadStep
  BY ReadMoves
<1>2. /\ Shapes /\ DirectoryOK /\ Session!WorkspaceMatchesTarget /\ ProbeOK
      /\ worker.pc \in Reads
  BY DEF SessionInv, Reads, Session!ControllerRead, Session!ControllerDone,
         Session!TargetIdentity, Session!TargetAcquisition, Session!TargetDone
<1>3. Shapes' /\ DirectoryOK' /\ Session!WorkspaceMatchesTarget'
  BY <1>1, <1>2 DEF ReadStep, Shapes, Reads, DirectoryOK,
                    Session!WorkspaceMatchesTarget, Session!Address
<1>4. Session!ReadyIsVerified'
  BY <1>1, <1>2 DEF ReadStep, ProbeOK, Session!ReadyIsVerified
<1>5. /\ (worker.kind = "connect" => worker'.pc \in {"controllerDone", "publish"})
      /\ worker'.pc \in {"controllerDone", "identity", "acquisition", "targetDone"}
            => worker'.input.endpoint \in looked'.idle
      /\ worker'.pc = "targetDone" => worker'.input \in looked'.probed
      /\ worker'.pc = "publish" =>
            /\ worker'.reverified \/ worker'.outcome = "verifiedIdle" =>
                  worker'.input.endpoint \in looked'.idle
            /\ worker'.kind = "check" /\ worker'.outcome = "verifiedIdle" =>
                  worker'.input \in looked'.probed
  <2> USE <1>1, <1>2 DEF ReadStep, Shapes, Fields, TaskFields, ProbeOK,
                         Session!Decides
  <2>1. CASE Session!ControllerRead
    <3>1. \/ \E outcome \in {"cancelled", "unavailable", "daqActive",
                              "wrongController"} : Session!Decides(outcome, FALSE)
          \/ /\ worker' = [worker EXCEPT !.pc = "controllerDone"]
             /\ Session!Sees("idle")
      BY <2>1 DEF Session!ControllerRead
    <3>2. ASSUME NEW outcome \in {"cancelled", "unavailable", "daqActive",
                                  "wrongController"},
                 Session!Decides(outcome, FALSE)
          PROVE  /\ worker'.pc = "publish" /\ worker'.reverified = FALSE
                 /\ worker'.outcome # "verifiedIdle"
      BY <3>2
    <3>3. CASE /\ worker' = [worker EXCEPT !.pc = "controllerDone"]
               /\ Session!Sees("idle")
      <4>1. looked'.idle = looked.idle \cup {worker.input.endpoint}
        BY <3>3 DEF Session!Sees
      <4> QED
        BY <3>3, <4>1
    <3> QED
      BY <3>1, <3>2, <3>3
  <2>2. CASE Session!ControllerDone
    <3>1. /\ worker.pc = "controllerDone" /\ looked' = looked
          /\ \/ Session!Decides("cancelled", FALSE)
             \/ worker.kind = "connect" /\ Session!Decides("verifiedIdle", TRUE)
             \/ worker.kind = "check" /\ worker' = [worker EXCEPT !.pc = "identity"]
      BY <2>2 DEF Session!ControllerDone
    <3>2. CASE Session!Decides("cancelled", FALSE)
      BY <3>1, <3>2
    <3>3. CASE worker.kind = "connect" /\ Session!Decides("verifiedIdle", TRUE)
      BY <3>1, <3>3
    <3>4. CASE worker.kind = "check" /\ worker' = [worker EXCEPT !.pc = "identity"]
      BY <3>1, <3>4
    <3> QED
      BY <3>1, <3>2, <3>3, <3>4
  <2>3. CASE Session!TargetIdentity
    BY <2>3 DEF Session!TargetIdentity
  <2>4. CASE Session!TargetAcquisition
    <3>1. looked'.idle = looked.idle /\ worker.pc = "acquisition"
      BY <2>4 DEF Session!TargetAcquisition
    <3>2. \/ worker'.pc = "publish" /\ worker'.outcome # "verifiedIdle"
          \/ /\ worker'.pc = "targetDone"
             /\ looked'.probed = looked.probed \cup {worker.input}
      BY <2>4 DEF Session!TargetAcquisition
    <3> QED
      BY <3>1, <3>2
  <2>5. CASE Session!TargetDone
    BY <2>5 DEF Session!TargetDone
  <2> QED
    BY <2>1, <2>2, <2>3, <2>4, <2>5
<1>6. ProbeOK'
  BY <1>1, <1>2, <1>5 DEF ReadStep, ProbeOK
<1> QED
  BY <1>1, <1>3, <1>4, <1>6 DEF SessionInv, ReadStep

\* The end of a probe publishes what it has seen.
LEMMA FinishKept ==
    ASSUME SessionInv, Session!FinishConnect \/ Session!FinishCheck
    PROVE  SessionInv'
<1>1. /\ Shapes /\ DirectoryOK /\ Session!WorkspaceMatchesTarget /\ ProbeOK
      /\ worker.pc = "publish"
  BY DEF SessionInv, Reads, Session!FinishConnect, Session!FinishCheck
<1>2. /\ worker' = Session!NoTask
      /\ UNCHANGED <<directory, discovery, queue, tokens, looked>>
  BY DEF Session!FinishConnect, Session!FinishCheck, Session!disk
<1>3. Fields(prefs', {"verified", "ssh"})
  BY <1>1 DEF Session!FinishConnect, Session!FinishCheck, Session!disk, Shapes, Fields
<1>4. CASE Session!FinishConnect
  <2> DEFINE t == [target EXCEPT !.ctrl = Session!Result(worker.input.endpoint)]
  <2>1. Session!Publish(t, workspace) /\ worker.kind = "connect"
    BY <1>4 DEF Session!FinishConnect
  <2>2. /\ Fields(t, {"input", "ctrl", "verif", "gate"})
        /\ Fields(t.ctrl, LookFields) /\ Fields(t.verif, LookFields)
        /\ t.input = target.input /\ t.gate = target.gate
        /\ t.ctrl.outcome = worker.outcome /\ t.verif = target.verif
    BY <1>1 DEF Shapes, Fields, LookFields, Session!Result
  <2>3. Session!ControllerVerificationIsFresh(t) => t.input.endpoint \in looked'.idle
    BY <1>1, <1>2, <2>2 DEF Session!ControllerVerificationIsFresh, ProbeOK
  <2>4. ~Session!TargetVerificationIsFresh(t)
    BY <1>1, <2>1, <2>2
       DEF Session!TargetVerificationIsFresh, Session!TargetProbeEvidenceIsCurrent,
           ProbeOK
  <2>5. /\ t.gate # "ready"
        /\ workspace.outcome = "loaded" => workspace.evaluated = Session!Address(t.input)
    BY <1>1, <2>2 DEF ProbeOK, Session!WorkspaceMatchesTarget
  <2> HIDE DEF t
  <2> QED
    BY <1>1, <1>2, <1>3, <2>1, <2>2, <2>3, <2>4, <2>5, EndKeeps, AtRest DEF Shapes
<1>5. CASE Session!FinishCheck
  <2> DEFINE t == Session!CheckedTarget
  <2>1. Session!Publish(t, workspace) /\ worker.kind = "check"
    BY <1>5 DEF Session!FinishCheck
  <2>2. /\ Fields(t, {"input", "ctrl", "verif", "gate"})
        /\ Fields(t.ctrl, LookFields) /\ Fields(t.verif, LookFields)
        /\ t.input = target.input /\ t.gate = target.gate
        /\ t.verif.outcome = worker.outcome
        /\ IF worker.reverified THEN t.ctrl = target.ctrl ELSE t.ctrl.invalidated
    BY <1>1 DEF Shapes, Fields, LookFields, Session!Result, Session!CheckedTarget,
                Session!Stale
  <2>3. /\ Session!ControllerVerificationIsFresh(t) => t.input.endpoint \in looked'.idle
        /\ Session!TargetVerificationIsFresh(t) => t.input \in looked'.probed
    BY <1>1, <1>2, <2>1, <2>2
       DEF Session!ControllerVerificationIsFresh, Session!TargetVerificationIsFresh,
           Session!ControllerProbeEvidenceIsCurrent, ProbeOK
  <2>4. /\ t.gate # "ready"
        /\ workspace.outcome = "loaded" => workspace.evaluated = Session!Address(t.input)
    BY <1>1, <2>2 DEF ProbeOK, Session!WorkspaceMatchesTarget
  <2> HIDE DEF t
  <2> QED
    BY <1>1, <1>2, <1>3, <2>1, <2>2, <2>3, <2>4, EndKeeps, AtRest DEF Shapes
<1> QED
  BY <1>4, <1>5

\* MVME changes nothing of FIDGET's, and no step changes nothing.
LEMMA RestKept ==
    ASSUME SessionInv,
           \/ Session!Mvme \/ Session!Done
           \/ UNCHANGED <<target, workspace, evidence, prefs, queue, worker, tokens,
                          directory, discovery, looked>>
    PROVE  SessionInv'
<1>1. UNCHANGED <<target, workspace, evidence, prefs, queue, worker, tokens, directory,
                  discovery, looked>>
  BY DEF Session!Mvme, Session!Done, Session!vars, Session!disk
<1> QED
  BY <1>1
     DEF SessionInv, Shapes, DirectoryOK, ProbeOK, EvidenceOK,
         Session!WorkspaceMatchesTarget, Session!ReadyIsVerified, Session!Address,
         Session!TargetVerificationIsFresh, Session!ControllerVerificationIsFresh,
         Session!ControllerProbeEvidenceIsCurrent,
         Session!TargetProbeEvidenceIsCurrent

\* The invariant of a session.
LEMMA SessionKept ==
    ASSUME SessionInv, [Session!Next]_(Session!vars) PROVE SessionInv'
BY UserKept, TakeKept, EditKept, ClearKept, ConnectKept, CheckKept, OpenKept,
   WorkspaceKept, ReadKept, FinishKept, RestKept
   DEF Session!Next, Session!Worker, Session!vars

\* It says what the properties ask.
LEMMA SessionImplies ==
    ASSUME SessionInv
    PROVE  /\ Session!ReadyIsVerified /\ Session!FreshIsLastLook
           /\ Session!WorkspaceMatchesTarget /\ Session!ReadyMeansNothingToRecover
BY DEF SessionInv, DirectoryOK, EvidenceOK, Reads, Session!FreshIsLastLook,
       Session!ReadyMeansNothingToRecover

\* Only a check that found its target idle names one as verified.
LEMMA OnlyChecksSave ==
    ASSUME SessionInv, [Session!Next]_(Session!vars)
    PROVE  Session!PreferencesNameVerified
<1>1. CASE Session!FinishCheck
  <2>1. ProbeOK /\ worker.pc = "publish" /\ worker.kind = "check"
    BY <1>1 DEF SessionInv, Reads, Session!FinishCheck
  <2>2. \/ prefs' = prefs
        \/ /\ worker.outcome = "verifiedIdle"
           /\ prefs'.verified = worker.input
    BY <1>1 DEF Session!FinishCheck
  <2> QED
    BY <2>1, <2>2 DEF ProbeOK, Session!PreferencesNameVerified
<1>2. CASE ~Session!FinishCheck
  <2>1. prefs'.verified = prefs.verified
    <3>1. CASE Session!ConnectController
      BY <3>1 DEF Session!ConnectController, Session!Refuse, Session!disk,
                  SessionInv, Shapes, Fields
    <3>2. CASE ~Session!ConnectController
      BY <1>2, <3>2
         DEF Session!Next, Session!UserInterface, Session!Worker, Session!SubmitEdit,
             Session!SubmitConnect, Session!SubmitCheck, Session!SubmitOpen,
             Session!SubmitClear, Session!SubmitWorkspace, Session!Submit,
             Session!Shutdown, Session!TakeTask, Session!EditTarget,
             Session!ClearTarget, Session!ProbeTarget, Session!Refuse,
             Session!OpenTargetSession, Session!SetWorkspace,
             Session!ReadWorkspace, Session!ClearWorkspace, Session!Ends,
             Session!ControllerRead, Session!ControllerDone,
             Session!TargetIdentity, Session!TargetAcquisition,
             Session!TargetDone, Session!ProbeOnly, Session!FinishConnect,
             Session!Mvme, Session!Done, Session!vars, Session!disk
    <3> QED
      BY <3>1, <3>2
  <2> QED
    BY <2>1 DEF Session!PreferencesNameVerified
<1> QED
  BY <1>1, <1>2

----------------------------------------------------------------------------
(***************************************************************************)
(* The preparation.  At each place of the operation (Placed): which record *)
(* is on the disk, that the selector is parked before the first and after  *)
(* the last selection, and what has been captured is what the module had,  *)
(* as long as nobody else has run.                                         *)
(***************************************************************************)
Early == {"preflight", "create"}
Capturing == {"bankGate", "select", "read"}
Parking == {"parkGate", "park"}
Acting == {"begin", "globals", "final", "promote"} \cup Capturing \cup Parking

PreparationTyped ==
    /\ hw \in [daq : {0, 1}, acq : {0, 1}, selector : Preparation!Quads,
               bank : Preparation!Banks]
    /\ original \in Preparation!Banks
    /\ cap \in [quad : 0 .. QuadCount, bank : Preparation!Banks, failed : BOOLEAN]
    /\ Fields(result, {"outcome", "phase"})
    /\ pc \in Early \cup Acting \cup {"ended", "lost"}
    /\ intruder \in {"away", "running", "stopped"}
    /\ intruder = "running" <=> hw.daq = 1

\* What may be found at the recovery path.
Known(r) ==
    \/ r \in {NoRecord, ForeignRecord, Preparation!Prepared}
    \/ \E b \in Preparation!Banks :
          /\ r = Preparation!Record("snapshot", FALSE, b)
          /\ intruder # "stopped" => b = original

Captured(quads) == \A q \in quads : cap.bank[q] = original[q]

Placed ==
    /\ pc \in Early =>
          /\ journal \in {NoRecord, ForeignRecord} /\ durable = journal
          /\ result.phase = "none" /\ cap.quad = 0 /\ ~cap.failed
    /\ pc \in Acting =>
          /\ journal = Preparation!Prepared /\ durable = journal
          /\ result.phase = "prepared"
    /\ pc \in {"begin", "globals"} => cap.quad = 0 /\ ~cap.failed
    /\ pc \in Capturing => cap.quad \in Preparation!Quads /\ ~cap.failed
    /\ pc \in Parking /\ ~cap.failed => cap.quad = QuadCount
    /\ pc \in {"final", "promote"} =>
          hw.selector = 0 /\ cap.quad = QuadCount /\ ~cap.failed
    /\ intruder = "away" => hw.bank = original
    /\ pc = "read" /\ intruder = "away" => hw.selector = cap.quad
    /\ pc \in Acting /\ ~cap.failed /\ intruder = "away" =>
          Captured(0 .. cap.quad - 1)
    /\ pc = "promote" /\ intruder # "stopped" => cap.bank = original

PreparationInv ==
    /\ PreparationTyped /\ Placed
    /\ Known(journal) /\ Known(durable)
    /\ journal = ForeignRecord => durable = ForeignRecord
    /\ hw.selector # 0 =>
          journal = Preparation!Prepared /\ durable = Preparation!Prepared
    /\ Preparation!ReportMatchesDisk
    /\ intrusions = 0 \/ /\ intrusions = 1 /\ intruder # "away"
                         /\ pc \in {"select", "park"} => intruder = "stopped"

\* Failures are counted, so one that happens is not taken for none.
FailuresCounted == failed \in Nat

\* An access that is fine does not fail.
LEMMA FineOrFails ==
    ASSUME FailuresCounted
    PROVE  ~(Preparation!Fine /\ ~cancel /\ Preparation!AccessFails)
BY DEF FailuresCounted, Preparation!Fine, Preparation!AccessFails, Preparation!Failing

\* A record is told from its absence and from a record of another session.
LEMMA RecordFacts ==
    ASSUME PreparationTyped
    PROVE  /\ QuadCount \in Nat \ {0} /\ 0 \in Preparation!Quads
           /\ Preparation!NoBanks \in Preparation!Banks
           /\ NoRecord # ForeignRecord
           /\ ~Preparation!Own(NoRecord) /\ ~Preparation!Own(ForeignRecord)
           /\ Preparation!Own(Preparation!Prepared)
           /\ Preparation!Prepared.phase = "prepared" /\ Preparation!Prepared.parking
           /\ \A b \in Preparation!Banks :
                 LET r == Preparation!Record("snapshot", FALSE, b)
                 IN  Preparation!Own(r) /\ r.phase = "snapshot" /\ r.bank = b
<1>1. Preparation!PrepareAssumption
  BY TuningInstances
<1>2. QuadCount \in Nat \ {0} /\ 0 \in Preparation!Quads
  BY <1>1 DEF Preparation!PrepareAssumption, Preparation!Quads
<1>3. Preparation!NoBanks \in Preparation!Banks
  <2>1. original[0] \in BankValues
    BY <1>2 DEF PreparationTyped, Preparation!Banks
  <2>2. Preparation!SomeBank \in BankValues
    BY <2>1 DEF Preparation!SomeBank
  <2> QED
    BY <2>2 DEF Preparation!NoBanks, Preparation!Banks
<1>4. ASSUME NEW stage \in {"prepared", "snapshot"}, NEW parking \in BOOLEAN,
             NEW b \in Preparation!Banks
      PROVE  LET r == Preparation!Record(stage, parking, b)
             IN  /\ Preparation!Own(r) /\ r.phase = stage /\ r.bank = b
                 /\ r.parking = parking
  <2>1. Preparation!Record(stage, parking, b)
           \in [phase : {"prepared", "snapshot"}, parking : BOOLEAN,
                bank : [0 .. QuadCount - 1 -> BankValues]]
    BY DEF Preparation!Record, Preparation!Banks, Preparation!Quads
  <2> QED
    BY <1>1, <2>1
       DEF Preparation!PrepareAssumption, Preparation!Own, Preparation!Record
<1> QED
  BY <1>1, <1>2, <1>3, <1>4
     DEF Preparation!Prepared, Preparation!PrepareAssumption, Preparation!Own

\* Nothing has been done at the start.
LEMMA PreparationStart == ASSUME Preparation!Init PROVE PreparationInv
<1>1. QuadCount \in Nat \ {0} /\ 0 \in Preparation!Quads
  BY TuningInstances DEF Preparation!PrepareAssumption, Preparation!Quads
<1>2. /\ hw \in [daq : {0, 1}, acq : {0, 1}, selector : {0},
                 bank : Preparation!Banks]
      /\ original = hw.bank
      /\ intruder = IF hw.daq = 1 THEN "running" ELSE "away"
      /\ journal \in {NoRecord, ForeignRecord} /\ durable = journal
      /\ pc = "preflight" /\ intrusions = 0
      /\ cap = [quad |-> 0, bank |-> Preparation!NoBanks, failed |-> FALSE]
      /\ result = [outcome |-> "notRun", phase |-> "none"]
  BY DEF Preparation!Init
<1>3. Preparation!NoBanks \in Preparation!Banks
  <2>1. hw.bank[0] \in BankValues
    BY <1>1, <1>2 DEF Preparation!Banks
  <2>2. Preparation!SomeBank \in BankValues
    BY <2>1 DEF Preparation!SomeBank
  <2> QED
    BY <2>2 DEF Preparation!NoBanks, Preparation!Banks
<1>4. PreparationTyped
  <2>1. /\ hw.daq \in {0, 1} /\ hw.acq \in {0, 1} /\ hw.selector = 0
        /\ hw = [daq |-> hw.daq, acq |-> hw.acq, selector |-> 0, bank |-> hw.bank]
        /\ hw.bank \in Preparation!Banks
    BY <1>2
  <2>2. hw \in [daq : {0, 1}, acq : {0, 1}, selector : Preparation!Quads,
                bank : Preparation!Banks]
    BY <1>1, <2>1
  <2>3. 0 \in 0 .. QuadCount
    BY <1>1
  <2>4. cap \in [quad : 0 .. QuadCount, bank : Preparation!Banks, failed : BOOLEAN]
    BY <1>2, <1>3, <2>3
  <2>5. Fields(result, {"outcome", "phase"})
    BY <1>2 DEF Fields
  <2>6. /\ intruder \in {"away", "running", "stopped"}
        /\ (intruder = "running") <=> (hw.daq = 1)
    BY <1>2, <2>1
  <2>7. pc \in Early \cup Acting \cup {"ended", "lost"} /\ original \in Preparation!Banks
    BY <1>2, <2>1 DEF Early
  <2> QED
    BY <2>2, <2>4, <2>5, <2>6, <2>7 DEF PreparationTyped
<1>5. Placed
  BY <1>2 DEF Placed, Early, Acting, Capturing, Parking
<1> QED
  BY <1>2, <1>4, <1>5 DEF PreparationInv, Known, Preparation!ReportMatchesDisk

\* What a step leaves alone that neither writes nor saves.
Disk == <<journal, durable>>
Module == <<hw, intrusions, intruder, original>>

\* The operation ends with what is on the disk.
LEMMA Returned ==
    ASSUME PreparationInv, NEW outcome, Preparation!Return(outcome),
           UNCHANGED Disk, UNCHANGED Module, UNCHANGED cap,
           pc \in Early \cup Acting
    PROVE  PreparationInv'
<1>1. PreparationTyped /\ Placed
  BY DEF PreparationInv
<1>2. /\ pc' = "ended" /\ result'.phase = result.phase
      /\ Fields(result', {"outcome", "phase"})
  BY <1>1 DEF Preparation!Return, PreparationTyped, Fields
<1>3. PreparationTyped'
  BY <1>1, <1>2 DEF PreparationTyped, Module
<1>4. Placed'
  BY <1>1, <1>2 DEF Placed, Module, Early, Acting, Capturing, Parking
<1>5. Known(journal)' /\ Known(durable)'
  BY DEF PreparationInv, Known, Disk, Module
<1>6. Preparation!ReportMatchesDisk'
  BY <1>1, <1>2, RecordFacts DEF Placed, Disk, Preparation!ReportMatchesDisk
<1> QED
  BY <1>2, <1>3, <1>4, <1>5, <1>6 DEF PreparationInv, Disk, Module

\* The operation goes on.
LEMMA Moved ==
    ASSUME PreparationInv, NEW next \in Early \cup Acting,
           pc' = next, UNCHANGED result, UNCHANGED Disk, UNCHANGED Module,
           cap' \in [quad : 0 .. QuadCount, bank : Preparation!Banks,
                     failed : BOOLEAN],
           Placed',
           next \in {"select", "park"} => intruder # "running"
    PROVE  PreparationInv'
<1>1. PreparationTyped
  BY DEF PreparationInv
<1>2. PreparationTyped'
  BY <1>1 DEF PreparationTyped, Module
<1>3. Known(journal)' /\ Known(durable)'
  BY DEF PreparationInv, Known, Disk, Module
<1>4. Preparation!ReportMatchesDisk'
  BY DEF Preparation!ReportMatchesDisk, Early, Acting, Capturing, Parking
<1> QED
  BY <1>1, <1>2, <1>3, <1>4 DEF PreparationInv, Disk, Module, PreparationTyped

\* The checks before anything is saved.
LEMMA PreflightKept ==
    ASSUME PreparationInv, Preparation!Preflight PROVE PreparationInv'
<1>1. /\ pc = "preflight" /\ UNCHANGED Disk /\ UNCHANGED Module /\ UNCHANGED cap
  BY DEF Preparation!Preflight, Preparation!env, Disk, Module
<1>2. ASSUME Preparation!Go("create") PROVE PreparationInv'
  <2>1. PreparationTyped /\ Placed /\ pc' = "create" /\ UNCHANGED result
    BY <1>2 DEF PreparationInv, Preparation!Go
  <2>2. Placed'
    BY <1>1, <2>1 DEF Placed, Disk, Module, Early, Acting, Capturing, Parking
  <2> QED
    BY <1>1, <2>1, <2>2, Moved DEF PreparationTyped, Early
<1> QED
  BY <1>1, <1>2, Returned DEF Preparation!Preflight, Early

\* The gates and reads that only move the capture on.
LEMMA GateKept ==
    ASSUME PreparationInv,
           \/ Preparation!CaptureGate \/ Preparation!CaptureGlobals
           \/ Preparation!BankGate \/ Preparation!ParkGate
           \/ Preparation!FinalGate
    PROVE  PreparationInv'
<1>1. PreparationTyped /\ Placed
  BY DEF PreparationInv
<1>2. /\ UNCHANGED Disk /\ UNCHANGED Module /\ UNCHANGED cap /\ pc \in Acting
  BY DEF Preparation!CaptureGate, Preparation!CaptureGlobals,
         Preparation!BankGate, Preparation!ParkGate, Preparation!FinalGate,
         Preparation!GateBefore, Preparation!DaqGate, Preparation!Incomplete,
         Preparation!FinalRefused, Preparation!env, Disk, Module, Acting,
         Capturing, Parking
<1>3. \/ \E outcome : Preparation!Return(outcome)
      \/ /\ UNCHANGED result
         /\ \/ pc = "globals" /\ pc' = "bankGate"
            \/ /\ intruder # "running"
               /\ \/ pc = "begin" /\ pc' = "globals"
                  \/ pc = "bankGate" /\ pc' = "select"
                  \/ pc = "parkGate" /\ pc' = "park"
                  \/ pc = "final" /\ pc' = "promote"
  BY <1>1
     DEF Preparation!CaptureGate, Preparation!CaptureGlobals,
         Preparation!BankGate, Preparation!ParkGate, Preparation!FinalGate,
         Preparation!GateBefore, Preparation!DaqGate, Preparation!Incomplete,
         Preparation!FinalRefused, Preparation!Go, PreparationTyped
<1>4. CASE \E outcome : Preparation!Return(outcome)
  BY <1>2, <1>4, Returned
<1>5. CASE ~\E outcome : Preparation!Return(outcome)
  <2>1. Placed'
    <3>1. pc = "final" /\ intruder # "stopped" /\ intruder # "running" => cap.bank = original
      <4>1. ASSUME pc = "final", intruder = "away" PROVE cap.bank = original
        <5>1. Captured(0 .. QuadCount - 1)
          BY <1>1, <4>1 DEF Placed, Acting
        <5> QED
          <6>1. \A q \in Preparation!Quads : cap.bank[q] = original[q]
            BY <5>1 DEF Captured, Preparation!Quads
          <6>2. /\ cap.bank \in [Preparation!Quads -> BankValues]
                /\ original \in [Preparation!Quads -> BankValues]
            BY <1>1 DEF PreparationTyped, Preparation!Banks
          <6> QED
            BY <6>1, <6>2
      <4> QED
        BY <1>1, <4>1 DEF PreparationTyped
    <3>2. 0 \in Preparation!Quads
      BY <1>1, RecordFacts
    <3> QED
      BY <1>1, <1>2, <1>3, <1>5, <3>1, <3>2
         DEF Placed, Disk, Module, Early, Acting, Capturing, Parking, Captured
  <2> QED
    BY <1>1, <1>2, <1>3, <1>5, <2>1, Moved
       DEF PreparationTyped, Early, Acting, Capturing, Parking
<1> QED
  BY <1>4, <1>5

\* Exclusive creation: the Prepared record is there, or nothing has changed.
LEMMA CreateKept ==
    ASSUME PreparationInv, Preparation!CreateJournal PROVE PreparationInv'
<1>1. /\ PreparationTyped /\ Placed /\ pc = "create"
      /\ UNCHANGED Module /\ UNCHANGED cap
  BY DEF PreparationInv, Preparation!CreateJournal, Preparation!env, Module
<1>2. CASE UNCHANGED Disk /\ \E outcome : Preparation!Return(outcome)
  BY <1>1, <1>2, Returned DEF Early
<1>3. CASE /\ journal = NoRecord /\ journal' = Preparation!Prepared
           /\ \/ /\ durable' = Preparation!Prepared /\ pc' = "begin"
                 /\ result' = [result EXCEPT !.phase = "prepared"]
              \/ /\ durable' = durable /\ pc' = "ended"
                 /\ result' = [outcome |-> "storage", phase |-> "prepared"]
  <2>1. /\ journal \in {NoRecord, ForeignRecord} /\ durable = journal
        /\ cap.quad = 0 /\ ~cap.failed
    BY <1>1 DEF Placed, Early
  <2>2. hw.selector = 0
    BY <2>1, <1>1, RecordFacts DEF PreparationInv
  <2>3. Fields(result', {"outcome", "phase"}) /\ result'.phase = "prepared"
    BY <1>1, <1>3 DEF PreparationTyped, Fields
  <2>4. PreparationTyped'
    BY <1>1, <1>3, <2>3 DEF PreparationTyped, Module, Acting
  <2>5. Placed'
    BY <1>1, <1>3, <2>1, <2>3
       DEF Placed, Module, Early, Acting, Capturing, Parking, Captured,
           PreparationTyped
  <2>6. Known(journal)' /\ Known(durable)'
    BY <1>3, <2>1 DEF Known
  <2>7. Preparation!ReportMatchesDisk'
    BY <1>1, <1>3, <2>3, RecordFacts DEF Preparation!ReportMatchesDisk
  <2>8. journal' # ForeignRecord
    BY <1>1, <1>3, RecordFacts
  <2> QED
    BY <1>1, <1>3, <2>2, <2>4, <2>5, <2>6, <2>7, <2>8 DEF PreparationInv, Module
<1> QED
  BY <1>1, <1>2, <1>3
     DEF Preparation!CreateJournal, Disk, Placed, Early, Preparation!Return

\* A write of the selector, done or perhaps done.
LEMMA SelectorWrites ==
    ASSUME PreparationTyped, NEW q \in Preparation!Quads, Preparation!WriteSelector(q)
    PROVE  /\ hw' \in [daq : {0, 1}, acq : {0, 1}, selector : Preparation!Quads,
                        bank : Preparation!Banks]
           /\ hw'.daq = hw.daq /\ hw'.bank = hw.bank
           /\ hw'.selector \in {hw.selector, q}
           /\ hw'.selector = q \/ Preparation!AccessFails
           /\ intrusions' = IF intruder = "running" THEN intrusions + 1
                                                   ELSE intrusions
BY DEF Preparation!WriteSelector, PreparationTyped

\* A step that wrote the selector while the record on the disk asks for it to
\* be parked.
LEMMA Selected ==
    ASSUME PreparationInv, NEW q \in Preparation!Quads, Preparation!WriteSelector(q),
           pc \in {"select", "park"}, pc' \in {"read", "parkGate", "final", "ended"},
           UNCHANGED <<intruder, original>>, UNCHANGED Disk,
           Fields(result', {"outcome", "phase"}), result'.phase = result.phase,
           cap' \in [quad : 0 .. QuadCount, bank : Preparation!Banks,
                     failed : BOOLEAN],
           Placed'
    PROVE  PreparationInv'
<1>1. /\ PreparationTyped /\ Placed
      /\ journal = Preparation!Prepared /\ durable = journal
      /\ result.phase = "prepared"
  BY DEF PreparationInv, Placed, Acting, Capturing, Parking
<1>2. /\ hw' \in [daq : {0, 1}, acq : {0, 1}, selector : Preparation!Quads,
                   bank : Preparation!Banks]
      /\ hw'.daq = hw.daq
      /\ intrusions' = IF intruder = "running" THEN intrusions + 1 ELSE intrusions
  BY <1>1, SelectorWrites
<1>3. PreparationTyped'
  BY <1>1, <1>2 DEF PreparationTyped, Acting, Capturing, Parking
<1>4. Known(journal)' /\ Known(durable)'
  BY <1>1 DEF Known, Disk
<1>5. Preparation!ReportMatchesDisk'
  BY <1>1, RecordFacts DEF Preparation!ReportMatchesDisk, Disk
<1>6. \/ intrusions' = 0
      \/ intrusions' = 1 /\ intruder' # "away"
  <2>1. \/ intrusions = 0
        \/ intrusions = 1 /\ (pc \in {"select", "park"} => intruder = "stopped")
    BY DEF PreparationInv
  <2> QED
    BY <1>1, <1>2, <2>1 DEF PreparationTyped
<1>7. journal' # ForeignRecord
  BY <1>1, RecordFacts DEF Disk
<1> QED
  BY <1>1, <1>3, <1>4, <1>5, <1>6, <1>7 DEF PreparationInv, Disk

\* A selection that may not have reached the module leads to the parking.
LEMMA SelectKept ==
    ASSUME PreparationInv, FailuresCounted, Preparation!SelectBank PROVE PreparationInv'
<1>1. /\ PreparationTyped /\ Placed /\ pc = "select"
      /\ UNCHANGED <<intruder, original>> /\ UNCHANGED Disk
      /\ Preparation!WriteSelector(cap.quad) /\ UNCHANGED result
      /\ \/ /\ Preparation!Fine /\ ~cancel /\ pc' = "read" /\ cap' = cap
         \/ /\ Preparation!AccessFails /\ pc' = "parkGate"
            /\ cap' = [cap EXCEPT !.failed = TRUE]
  BY DEF PreparationInv, Preparation!SelectBank, Preparation!env, Disk, Preparation!Go
<1>2. cap.quad \in Preparation!Quads /\ ~cap.failed
  BY <1>1 DEF Placed, Capturing
<1>3. cap' \in [quad : 0 .. QuadCount, bank : Preparation!Banks, failed : BOOLEAN]
  BY <1>1 DEF PreparationTyped
<1>4. /\ hw'.bank = hw.bank
      /\ pc' = "read" => hw'.selector = cap.quad
  <2>1. ~(Preparation!Fine /\ ~cancel /\ Preparation!AccessFails)
    BY FineOrFails
  <2> QED
    BY <1>1, <1>2, <2>1, SelectorWrites
<1>5. Placed'
  <2>1. pc' = "parkGate" => cap'.failed
    BY <1>1 DEF PreparationTyped
  <2> QED
    BY <1>1, <1>2, <1>4, <2>1
       DEF Placed, Disk, Early, Acting, Capturing, Parking, Captured
<1> QED
  BY <1>1, <1>2, <1>3, <1>5, Selected DEF PreparationTyped

\* Only an acknowledged parking write leads to the final gate.
LEMMA ParkKept ==
    ASSUME PreparationInv, FailuresCounted, Preparation!ParkSelector PROVE PreparationInv'
<1>1. /\ PreparationTyped /\ Placed /\ pc = "park"
      /\ UNCHANGED <<intruder, original>> /\ UNCHANGED Disk
      /\ Preparation!WriteSelector(0) /\ cap' = cap
      /\ \/ \E outcome : Preparation!Return(outcome)
         \/ /\ Preparation!Fine /\ ~cancel /\ pc' = "final" /\ UNCHANGED result
            /\ ~cap.failed
  BY DEF PreparationInv, Preparation!ParkSelector, Preparation!env, Disk,
         Preparation!Go
<1>2. 0 \in Preparation!Quads
  BY <1>1, RecordFacts
<1>3. cap' \in [quad : 0 .. QuadCount, bank : Preparation!Banks, failed : BOOLEAN]
  BY <1>1 DEF PreparationTyped
<1>4. /\ Fields(result', {"outcome", "phase"}) /\ result'.phase = result.phase
      /\ pc' \in {"final", "ended"}
  BY <1>1 DEF PreparationTyped, Fields, Preparation!Return
<1>5. /\ hw'.bank = hw.bank
      /\ pc' = "final" => hw'.selector = 0
  <2>1. ~(Preparation!Fine /\ ~cancel /\ Preparation!AccessFails)
    BY FineOrFails
  <2>2. pc' = "final" => Preparation!Fine /\ ~cancel
    BY <1>1 DEF Preparation!Return
  <2> QED
    BY <1>1, <1>2, <2>1, <2>2, SelectorWrites
<1>6. Placed'
  <2>1. pc' = "final" => ~cap.failed /\ cap.quad = QuadCount
    BY <1>1 DEF Placed, Parking, Preparation!Return
  <2> QED
    BY <1>1, <1>4, <1>5, <2>1
       DEF Placed, Disk, Early, Acting, Capturing, Parking, Captured
<1> QED
  BY <1>1, <1>2, <1>3, <1>4, <1>6, Selected

\* What has been read of a bank is what the module had.
LEMMA BankReadKept ==
    ASSUME PreparationInv, Preparation!ReadBank PROVE PreparationInv'
<1>1. /\ PreparationTyped /\ Placed /\ pc = "read"
      /\ UNCHANGED Disk /\ UNCHANGED Module /\ UNCHANGED result
      /\ \/ pc' = "parkGate" /\ cap' = [cap EXCEPT !.failed = TRUE]
         \/ /\ cap' = [cap EXCEPT !.bank[cap.quad] = hw.bank[hw.selector],
                                  !.quad = @ + 1]
            /\ pc' = IF cap.quad + 1 \in Preparation!Quads THEN "bankGate"
                                                           ELSE "parkGate"
  BY DEF PreparationInv, Preparation!ReadBank, Preparation!env, Disk, Module,
         Preparation!Go
<1>2. /\ cap.quad \in Preparation!Quads /\ ~cap.failed /\ QuadCount \in Nat \ {0}
  BY <1>1, RecordFacts DEF Placed, Capturing
<1>3. CASE pc' = "parkGate" /\ cap' = [cap EXCEPT !.failed = TRUE]
  <2>1. cap'.failed
    BY <1>1, <1>3 DEF PreparationTyped
  <2>2. cap' \in [quad : 0 .. QuadCount, bank : Preparation!Banks, failed : BOOLEAN]
    BY <1>1, <1>3 DEF PreparationTyped
  <2>3. Placed'
    BY <1>1, <1>2, <1>3, <2>1
       DEF Placed, Disk, Module, Early, Acting, Capturing, Parking, Captured
  <2> QED
    BY <1>1, <1>3, <2>2, <2>3, Moved DEF Acting, Parking
<1>4. CASE /\ cap' = [cap EXCEPT !.bank[cap.quad] = hw.bank[hw.selector],
                                 !.quad = @ + 1]
           /\ pc' = IF cap.quad + 1 \in Preparation!Quads THEN "bankGate"
                                                          ELSE "parkGate"
  <2>1. /\ hw.bank \in Preparation!Banks /\ hw.selector \in Preparation!Quads
        /\ cap.bank \in Preparation!Banks
    BY <1>1 DEF PreparationTyped
  <2>2. hw.bank[hw.selector] \in BankValues
    BY <2>1 DEF Preparation!Banks
  <2>3. /\ cap'.quad = cap.quad + 1 /\ cap'.failed = cap.failed
        /\ cap'.bank = [cap.bank EXCEPT ![cap.quad] = hw.bank[hw.selector]]
        /\ cap' = [quad |-> cap'.quad, bank |-> cap'.bank, failed |-> cap'.failed]
        /\ cap.failed \in BOOLEAN
    BY <1>1, <1>4 DEF PreparationTyped
  <2>4. cap'.bank \in Preparation!Banks
    BY <2>1, <2>2, <2>3 DEF Preparation!Banks
  <2>5. /\ cap'.quad \in 0 .. QuadCount
        /\ pc' = "bankGate" => cap'.quad \in Preparation!Quads
        /\ pc' = "parkGate" => cap'.quad = QuadCount
        /\ pc' \in {"bankGate", "parkGate"}
    BY <1>2, <1>4, <2>3 DEF Preparation!Quads
  <2>6. cap' \in [quad : 0 .. QuadCount, bank : Preparation!Banks, failed : BOOLEAN]
    BY <2>3, <2>4, <2>5
  <2>7. ASSUME intruder = "away" PROVE Captured(0 .. cap.quad - 1)'
    <3>1. /\ Captured(0 .. cap.quad - 1) /\ hw.bank = original
          /\ hw.selector = cap.quad
      BY <1>1, <1>2, <2>7 DEF Placed, Acting, Capturing
    <3>2. ASSUME NEW q \in 0 .. cap'.quad - 1 PROVE cap'.bank[q] = original[q]
      <4>1. q \in Preparation!Quads
        BY <1>2, <2>3, <2>5 DEF Preparation!Quads
      <4>2. CASE q = cap.quad
        BY <2>1, <2>3, <3>1, <4>1, <4>2 DEF Preparation!Banks
      <4>3. CASE q # cap.quad
        <5>1. q \in 0 .. cap.quad - 1
          BY <1>2, <2>3, <3>2, <4>3 DEF Preparation!Quads
        <5> QED
          BY <2>1, <2>3, <3>1, <4>1, <4>3, <5>1 DEF Preparation!Banks, Captured
      <4> QED
        BY <4>2, <4>3
    <3>3. original' = original
      BY <1>1 DEF Module
    <3> QED
      BY <3>2, <3>3 DEF Captured
  <2>8. Placed'
    BY <1>1, <1>2, <2>3, <2>5, <2>7
       DEF Placed, Disk, Module, Early, Acting, Capturing, Parking
  <2> QED
    BY <1>1, <2>5, <2>6, <2>8, Moved DEF Acting, Parking, Capturing
<1> QED
  BY <1>1, <1>3, <1>4

\* The record gets the captured values, which are the module's own unless
\* somebody else has run.
LEMMA PromoteKept ==
    ASSUME PreparationInv, Preparation!Promote PROVE PreparationInv'
<1>1. /\ PreparationTyped /\ Placed /\ pc = "promote"
      /\ UNCHANGED Module /\ UNCHANGED cap
  BY DEF PreparationInv, Preparation!Promote, Preparation!env, Module
<1>2. CASE UNCHANGED Disk /\ \E outcome : Preparation!Return(outcome)
  BY <1>1, <1>2, Returned DEF Acting
<1>3. CASE /\ journal' = Preparation!Snapshot /\ pc' = "ended"
           /\ durable' \in {durable, Preparation!Snapshot}
           /\ \E outcome : result' = [outcome |-> outcome, phase |-> "snapshot"]
  <2>1. /\ journal = Preparation!Prepared /\ durable = journal
        /\ hw.selector = 0
        /\ intruder # "stopped" => cap.bank = original
    BY <1>1 DEF Placed, Acting
  <2>2. cap.bank \in Preparation!Banks
    BY <1>1 DEF PreparationTyped
  <2>3. /\ Fields(result', {"outcome", "phase"}) /\ result'.phase = "snapshot"
    BY <1>3 DEF Fields
  <2>4. PreparationTyped'
    BY <1>1, <1>3, <2>3 DEF PreparationTyped, Module
  <2>5. Placed'
    BY <1>1, <1>3
       DEF Placed, Module, Early, Acting, Capturing, Parking, PreparationTyped
  <2>6. /\ journal' = Preparation!Record("snapshot", FALSE, cap.bank)
        /\ Preparation!Own(journal') /\ journal'.phase = "snapshot"
    BY <1>1, <1>3, <2>2, RecordFacts DEF Preparation!Snapshot
  <2>7. Known(journal)' /\ Known(durable)'
    BY <1>1, <1>3, <2>1, <2>2, <2>6 DEF Known, Module, Preparation!Snapshot
  <2>8. Preparation!ReportMatchesDisk'
    BY <2>3, <2>6 DEF Preparation!ReportMatchesDisk
  <2>9. journal' # ForeignRecord
    BY <1>1, <2>6, RecordFacts
  <2> QED
    BY <1>1, <1>3, <2>1, <2>4, <2>5, <2>7, <2>8, <2>9 DEF PreparationInv, Module
<1> QED
  BY <1>1, <1>2, <1>3 DEF Preparation!Promote, Disk

\* The operation is lost, and with the power perhaps what was not durable.
LEMMA LossKept ==
    ASSUME PreparationInv, Preparation!Crash \/ Preparation!PowerLoss
    PROVE  PreparationInv'
<1>1. /\ PreparationTyped /\ Placed /\ UNCHANGED Module /\ pc' = "lost"
      /\ UNCHANGED <<cap, result>>
      /\ journal' \in {journal, durable} /\ durable' \in {journal', durable}
  BY DEF PreparationInv, Preparation!Crash, Preparation!PowerLoss,
         Preparation!env, Module
<1>2. PreparationTyped'
  BY <1>1 DEF PreparationTyped, Module
<1>3. Placed'
  BY <1>1 DEF Placed, Module, Early, Acting, Capturing, Parking
<1>4. Known(journal)' /\ Known(durable)'
  BY <1>1 DEF PreparationInv, Known, Module
<1>5. Preparation!ReportMatchesDisk'
  BY <1>1 DEF Preparation!ReportMatchesDisk
<1>6. /\ hw'.selector # 0 => /\ journal' = Preparation!Prepared
                             /\ durable' = Preparation!Prepared
      /\ journal' = ForeignRecord => durable' = ForeignRecord
  BY <1>1 DEF PreparationInv, Module, Preparation!Crash, Preparation!PowerLoss
<1> QED
  BY <1>1, <1>2, <1>3, <1>4, <1>5, <1>6 DEF PreparationInv, Module

\* MVME starts a run with the selector parked, and stops it.
LEMMA MvmeKept ==
    ASSUME PreparationInv, Preparation!MvmeStart \/ Preparation!MvmeStop
    PROVE  PreparationInv'
<1>1. /\ PreparationTyped /\ Placed /\ UNCHANGED <<Disk, pc, cap, result>>
      /\ UNCHANGED <<intrusions, original>>
      /\ intruder' # "away" /\ intruder # "stopped"
      /\ \/ intruder = "away" /\ intruder' = "running"
         \/ intruder = "running" /\ intruder' = "stopped"
  BY DEF PreparationInv, Preparation!MvmeStart, Preparation!MvmeStop, Disk
<1>2. /\ hw' \in [daq : {0, 1}, acq : {0, 1}, selector : Preparation!Quads,
                  bank : Preparation!Banks]
      /\ intruder' = "running" <=> hw'.daq = 1
      /\ hw'.selector \in {0, hw.selector}
  <2>1. CASE Preparation!MvmeStart
    <3>1. 0 \in Preparation!Quads
      BY <1>1, RecordFacts
    <3> QED
      BY <2>1, <3>1 DEF Preparation!MvmeStart
  <2>2. CASE Preparation!MvmeStop
    <3>1. /\ hw' = [hw EXCEPT !.daq = 0, !.acq = 0] /\ intruder' = "stopped"
          /\ hw \in [daq : {0, 1}, acq : {0, 1}, selector : Preparation!Quads,
                     bank : Preparation!Banks]
      BY <1>1, <2>2 DEF Preparation!MvmeStop, PreparationTyped
    <3>2. /\ hw'.daq = 0 /\ hw'.selector = hw.selector
          /\ hw' \in [daq : {0, 1}, acq : {0, 1}, selector : Preparation!Quads,
                      bank : Preparation!Banks]
      BY <3>1
    <3> QED
      BY <3>1, <3>2
  <2> QED
    BY <2>1, <2>2
<1>3. PreparationTyped'
  BY <1>1, <1>2 DEF PreparationTyped
<1>4. Placed'
  BY <1>1, <1>2 DEF Placed, Disk, Early, Acting, Capturing, Parking
<1>5. Known(journal)' /\ Known(durable)'
  BY <1>1 DEF PreparationInv, Known, Disk
<1>6. Preparation!ReportMatchesDisk'
  BY <1>1 DEF PreparationInv, Preparation!ReportMatchesDisk, Disk,
              Preparation!Own
<1>7. \/ intrusions' = 0
      \/ /\ intrusions' = 1
         /\ pc' \in {"select", "park"} => intruder' = "stopped"
  BY <1>1 DEF PreparationInv
<1>8. /\ hw'.selector # 0 => /\ journal' = Preparation!Prepared
                             /\ durable' = Preparation!Prepared
      /\ journal' = ForeignRecord => durable' = ForeignRecord
  BY <1>1, <1>2 DEF PreparationInv, Disk
<1> QED
  BY <1>1, <1>3, <1>4, <1>5, <1>6, <1>7, <1>8 DEF PreparationInv

\* The invariant of the preparation is inductive.
LEMMA PreparationKept ==
    ASSUME PreparationInv, FailuresCounted,
           [Preparation!Next]_(Preparation!vars)
    PROVE  PreparationInv' /\ FailuresCounted'
<1>1. CASE Preparation!Operation
  <2>1. PreparationInv'
    BY <1>1, PreflightKept, CreateKept, GateKept, SelectKept, BankReadKept,
       ParkKept, PromoteKept
       DEF Preparation!Operation
  <2>2. FailuresCounted'
    BY <1>1
       DEF FailuresCounted, Preparation!Operation, Preparation!Preflight,
           Preparation!CreateJournal, Preparation!CaptureGate,
           Preparation!CaptureGlobals, Preparation!BankGate,
           Preparation!SelectBank, Preparation!WriteSelector,
           Preparation!ReadBank, Preparation!ParkGate,
           Preparation!ParkSelector, Preparation!FinalGate,
           Preparation!Promote, Preparation!GateBefore, Preparation!DaqGate,
           Preparation!AccessFails, Preparation!Failing, Preparation!Fine
  <2> QED
    BY <2>1, <2>2
<1>2. CASE Preparation!Crash \/ Preparation!PowerLoss
  BY <1>2, LossKept
     DEF FailuresCounted, Preparation!Crash, Preparation!PowerLoss
<1>3. CASE Preparation!MvmeStart \/ Preparation!MvmeStop
  BY <1>3, MvmeKept
     DEF FailuresCounted, Preparation!MvmeStart, Preparation!MvmeStop
<1>4. CASE \/ Preparation!Cancel \/ Preparation!Done
           \/ UNCHANGED Preparation!vars
  <2>1. UNCHANGED <<hw, journal, durable, pc, cap, result, intruder, failed,
                    intrusions, original>>
    BY <1>4 DEF Preparation!Cancel, Preparation!Done, Preparation!vars
  <2>2. PreparationTyped' /\ Placed'
    BY <2>1 DEF PreparationInv, PreparationTyped, Placed, Captured
  <2>3. Known(journal)' /\ Known(durable)' /\ Preparation!ReportMatchesDisk'
    BY <2>1 DEF PreparationInv, Known, Preparation!ReportMatchesDisk
  <2> QED
    BY <2>1, <2>2, <2>3 DEF FailuresCounted, PreparationInv
<1> QED
  BY <1>1, <1>2, <1>3, <1>4 DEF Preparation!Next

\* It says what the properties ask.
LEMMA PreparationImplies ==
    ASSUME PreparationInv
    PROVE  /\ Preparation!DisplacedIsJournaled /\ Preparation!SnapshotIsOriginal
           /\ Preparation!OneIntrusion /\ Preparation!ReportMatchesDisk
<1>1. Preparation!DisplacedIsJournaled
  BY RecordFacts DEF PreparationInv, Preparation!DisplacedIsJournaled
<1>2. Preparation!SnapshotIsOriginal
  <2>1. ASSUME Preparation!Own(journal), journal.phase = "snapshot",
               intruder # "stopped"
        PROVE  journal.bank = original
    <3>1. PICK b \in Preparation!Banks :
             /\ journal = Preparation!Record("snapshot", FALSE, b)
             /\ b = original
      BY <2>1, RecordFacts DEF PreparationInv, Known
    <3> QED
      BY <3>1 DEF Preparation!Record
  <2> QED
    BY <2>1 DEF Preparation!SnapshotIsOriginal
<1> QED
  BY <1>1, <1>2 DEF PreparationInv, Preparation!OneIntrusion

\* The record of another session is replaced by no step.
LEMMA ForeignRecordStays ==
    ASSUME PreparationInv, [Preparation!Next]_(Preparation!vars)
    PROVE  Preparation!ForeignRecordKept
<1> SUFFICES ASSUME journal = ForeignRecord PROVE journal' = ForeignRecord
  BY DEF Preparation!ForeignRecordKept
<1>1. durable = ForeignRecord /\ PreparationTyped /\ Placed
  BY DEF PreparationInv
<1>2. pc # "promote" /\ journal # NoRecord
  BY <1>1, RecordFacts DEF Placed, Acting
<1> QED
  BY <1>1, <1>2
     DEF Preparation!Next, Preparation!Operation, Preparation!Preflight,
         Preparation!CreateJournal, Preparation!CaptureGate,
         Preparation!CaptureGlobals, Preparation!BankGate,
         Preparation!SelectBank, Preparation!ReadBank, Preparation!ParkGate,
         Preparation!ParkSelector, Preparation!FinalGate, Preparation!Promote,
         Preparation!GateBefore, Preparation!DaqGate, Preparation!Crash,
         Preparation!PowerLoss, Preparation!Cancel, Preparation!MvmeStart,
         Preparation!MvmeStop, Preparation!Done, Preparation!vars

----------------------------------------------------------------------------
(***************************************************************************)
(* The pages.  PresentGui is a function of the snapshot and the selection, *)
(* so the properties are proved of every snapshot there can be; all that   *)
(* a behaviour adds is that it shows such snapshots.                       *)
(***************************************************************************)
Shown == snapshot \in Pages!Snapshots /\ selection \in Pages!Selections

Evidence == snapshot.evidence
Page == Pages!SelectPage(snapshot, selection)

HomePages == {"HomeDisconnected", "HomeSshExpanded", "HomeReady"}
WorkPages == {"Goal", "Group", "AutomaticLearnSignal", "AutomaticEnergy",
              "AutomaticTiming", "ManualEnergy", "ManualTiming",
              "CompareChannels", "GroupResult", "NextGroup"}
OtherPages == {"Preparing", "Restoring", "Finished"}
RecoveryPages == {"RecoveryBlocked", "OwnershipUncertain", "Recovered",
                  "Recovery", "ControllerConflict"}

\* Snapshots are shown from the start on.
LEMMA PagesStart == ASSUME Pages!Init PROVE Shown
BY TuningInstances DEF Pages!Init, Pages!ScenesAssumption, Shown

\* A change of the evidence is a snapshot again.
LEMMA PagesKept ==
    ASSUME Shown, [Pages!Next]_(Pages!vars) PROVE Shown'
<1>1. CASE Pages!LearnFact \/ Pages!LoseFact
  <2>1. PICK e \in SUBSET Pages!Facts : snapshot' = [snapshot EXCEPT !.evidence = e]
    BY <1>1 DEF Pages!LearnFact, Pages!LoseFact, Shown, Pages!Snapshots
  <2>2. UNCHANGED selection
    BY <1>1 DEF Pages!LearnFact, Pages!LoseFact, Pages!Changes
  <2> QED
    BY <2>1, <2>2 DEF Shown, Pages!Snapshots
<1>2. CASE Pages!ChangePhase
  BY <1>2 DEF Pages!ChangePhase, Pages!Changes, Shown, Pages!Snapshots
<1>3. CASE Pages!ChangeRecovery
  BY <1>3 DEF Pages!ChangeRecovery, Pages!Changes, Shown, Pages!Snapshots
<1>4. CASE Pages!Select
  BY <1>4 DEF Pages!Select, Shown, Pages!Selections
<1>5. CASE UNCHANGED Pages!vars
  BY <1>5 DEF Pages!vars, Shown
<1> QED
  BY <1>1, <1>2, <1>3, <1>4, <1>5 DEF Pages!Next

\* What the phase asks for is shown only with the evidence it needs.
LEMMA BasePage ==
    ASSUME Shown
    PROVE  LET base == Pages!SelectBaseNormalPage(snapshot.phase, Evidence, selection)
           IN  /\ base \in HomePages \cup WorkPages \cup OtherPages
               /\ base # "CompareChannels"
               /\ base \in WorkPages => Pages!PreparationComplete(Evidence)
               /\ base \in HomePages => snapshot.phase = "Home"
               /\ base = "Finished" => Pages!FinishedVerified(Evidence)
               /\ base = "Restoring" =>
                     Pages!RestorationInProgressVerified(Evidence)
<1>1. snapshot.phase \in Pages!Phases
  BY DEF Shown, Pages!Snapshots
<1> QED
  BY <1>1
     DEF Pages!Phases, Pages!SelectBaseNormalPage, Pages!RestoringOrPreparing,
         Pages!LatchReady, HomePages, WorkPages, OtherPages

\* So is the comparison of channels.
LEMMA NormalPage ==
    ASSUME Shown
    PROVE  LET page == Pages!SelectNormalPage(snapshot.phase, Evidence, selection)
           IN  /\ page \in HomePages \cup WorkPages \cup OtherPages
               /\ page \in WorkPages => Pages!PreparationComplete(Evidence)
               /\ page \in HomePages => snapshot.phase = "Home"
               /\ page = "Finished" => Pages!FinishedVerified(Evidence)
               /\ page = "Restoring" =>
                     Pages!RestorationInProgressVerified(Evidence)
BY BasePage
   DEF Pages!SelectNormalPage, Pages!SupportsChannelComparison, HomePages,
       WorkPages, OtherPages

\* Which page is shown in which situation.
LEMMA PageFacts ==
    ASSUME Shown
    PROVE  /\ Page \in HomePages \cup WorkPages \cup OtherPages \cup RecoveryPages
           /\ Page \in WorkPages => Pages!PreparationComplete(Evidence)
           /\ Page \in HomePages => snapshot.phase = "Home"
           /\ Page = "Finished" => Pages!FinishedVerified(Evidence)
           /\ Page = "Restoring" => Pages!RestorationInProgressVerified(Evidence)
           /\ Page \notin RecoveryPages <=>
                 /\ ~Pages!RecoveryCannotProceed(snapshot)
                 /\ ~Pages!OwnershipUncertaintyDetected(Evidence)
                 /\ ~Pages!RecoveryComplete(snapshot)
                 /\ ~Pages!RecoveryPending(snapshot)
                 /\ ~Pages!ConflictDetected(Evidence)
           /\ Page = "RecoveryBlocked" <=> Pages!RecoveryCannotProceed(snapshot)
           /\ Page = "OwnershipUncertain" <=>
                 /\ ~Pages!RecoveryCannotProceed(snapshot)
                 /\ Pages!OwnershipUncertaintyDetected(Evidence)
           /\ Page = "Recovered" <=>
                 /\ ~Pages!RecoveryCannotProceed(snapshot)
                 /\ ~Pages!OwnershipUncertaintyDetected(Evidence)
                 /\ Pages!RecoveryComplete(snapshot)
           /\ Page = "Recovery" <=>
                 /\ ~Pages!RecoveryCannotProceed(snapshot)
                 /\ ~Pages!OwnershipUncertaintyDetected(Evidence)
                 /\ ~Pages!RecoveryComplete(snapshot)
                 /\ Pages!RecoveryPending(snapshot)
           /\ Page = "ControllerConflict" <=>
                 /\ ~Pages!RecoveryCannotProceed(snapshot)
                 /\ ~Pages!OwnershipUncertaintyDetected(Evidence)
                 /\ ~Pages!RecoveryComplete(snapshot)
                 /\ ~Pages!RecoveryPending(snapshot)
                 /\ Pages!ConflictDetected(Evidence)
BY NormalPage
   DEF Page, Evidence, Pages!SelectPage, Pages!RestoringOrPreparing, HomePages,
       WorkPages, OtherPages, RecoveryPages

\* The four parts of what is shown.
LEMMA ViewFacts ==
    /\ Pages!View.page = Page
    /\ Pages!View.header = Pages!SelectHeader(snapshot)
    /\ Pages!View.claims = Pages!MakeClaims(snapshot)
    /\ \A a : a \in Pages!View.actions =>
          \/ a \in {"OpenDetails", "OpenLogs", "OpenHelp", "CloseDrawer"}
          \/ a \in Pages!AddNavigationActions(Page, Evidence)
          \/ a \in Pages!AddPageActions(Page, snapshot, selection)
    /\ Pages!AddPageActions(Page, snapshot, selection) \subseteq Pages!View.actions
BY DEF Pages!View, Pages!PresentGui, Pages!AddDrawerActions, Page, Evidence

\* Where each kind of work is offered.
LEMMA WorkIsOffered ==
    ASSUME Shown, NEW a \in Pages!AddPageActions(Page, snapshot, selection)
    PROVE  /\ a \in Pages!Edits => /\ Page \in WorkPages
                                   /\ Pages!CurrentOwnershipAvailable(Evidence)
           /\ a \in Pages!Exits => Page \in WorkPages
           /\ a \in {"Connect", "Check", "StartTuning"} => Page \in HomePages
           /\ a = "ReturnHome" => \/ Page = "Finished"
                                  \/ Page = "ControllerConflict"
           /\ a \in {"ReturnHome", "CheckAgain"} /\ Page = "ControllerConflict" =>
                 Pages!ConflictMitigationsVerified(Evidence)
           /\ a = "CheckAgain" => Page = "ControllerConflict"
           /\ a = "ContinueToHome" => Page = "Recovered"
           /\ a \notin {"NavigateHome", "NavigateTune"}
<1>1. Page \in HomePages \cup WorkPages \cup OtherPages \cup RecoveryPages
  BY PageFacts
<1>2. CASE Page \in HomePages
  BY <1>2
     DEF HomePages, Pages!AddPageActions, Pages!AddHomeActions, Pages!Edits,
         Pages!Exits
<1>3. CASE Page \in WorkPages
  BY <1>3
     DEF WorkPages, HomePages, Pages!AddPageActions, Pages!AddManualActions,
         Pages!Offers, Pages!Edits, Pages!Exits, Evidence
<1>4. CASE Page \in OtherPages \cup RecoveryPages
  BY <1>4
     DEF OtherPages, RecoveryPages, Pages!AddPageActions, Pages!Offers,
         Pages!Edits, Pages!Exits, Evidence
<1> QED
  BY <1>1, <1>2, <1>3, <1>4

\* The ways home from the navigation bar.
LEMMA NavigationFacts ==
    ASSUME Shown, NEW a \in Pages!AddNavigationActions(Page, Evidence)
    PROVE  /\ a \in {"NavigateHome", "NavigateTune"}
           /\ Page \notin RecoveryPages
           /\ \/ Pages!RestorationCanStart(Evidence)
              \/ {"controlHeld", "restorationRequired", "restorationInProgress"}
                    \cap Evidence = {}
BY DEF Pages!AddNavigationActions, RecoveryPages

\* A change of the module needs control, captured values and a durable record.
LEMMA WritesAreControlled == ASSUME Shown PROVE Pages!WritesNeedControl
<1>1. ASSUME NEW a \in Pages!View.actions, a \in Pages!Edits \cup Pages!Exits
      PROVE  /\ Page \in WorkPages
             /\ a \in Pages!Edits => Pages!CurrentOwnershipAvailable(Evidence)
  <2>1. a \in Pages!AddPageActions(Page, snapshot, selection)
    BY <1>1, ViewFacts, NavigationFacts DEF Pages!Edits, Pages!Exits
  <2> QED
    BY <1>1, <2>1, WorkIsOffered
<1>2. ASSUME Page \in WorkPages
      PROVE  /\ Pages!ControlHeldAndVerified(Evidence)
             /\ {"liveRestoreSnapshotCaptured", "recoveryRecordDurable"}
                   \subseteq Evidence
             /\ Pages!View.header = "HasControl"
  <2>1. Pages!PreparationComplete(Evidence)
    BY <1>2, PageFacts
  <2>2. /\ Pages!ControlHeldAndVerified(Evidence)
        /\ {"liveRestoreSnapshotCaptured", "recoveryRecordDurable"}
              \subseteq Evidence
    BY <2>1 DEF Pages!PreparationComplete
  <2>3. "controllerReleased" \notin Evidence
    BY <2>2 DEF Pages!ControlHeldAndVerified
  <2>4. Page \notin RecoveryPages
    BY <1>2 DEF WorkPages, RecoveryPages
  <2> QED
    BY <2>2, <2>3, <2>4, PageFacts, ViewFacts DEF Pages!SelectHeader, Evidence
<1>3. ASSUME Pages!CurrentOwnershipAvailable(Evidence)
      PROVE  /\ "operationIdle" \in Evidence
             /\ {"controlsFrozen", "restorationInProgress"} \cap Evidence = {}
  BY <1>3 DEF Pages!CurrentOwnershipAvailable
<1> QED
  BY <1>1, <1>2, <1>3 DEF Pages!WritesNeedControl, Evidence

\* A record in the way leaves only the pages of the recovery.
LEMMA RecordsBlock == ASSUME Shown PROVE Pages!NoTuningOverRecovery
<1> SUFFICES
      ASSUME Pages!RecoveryRecordOutstanding(snapshot), NEW a \in Pages!View.actions
      PROVE  a \notin Pages!Edits \cup Pages!Exits \cup
                {"Connect", "Check", "StartTuning", "NavigateTune", "NavigateHome",
                 "ReturnHome", "CheckAgain", "ContinueToHome"}
  BY DEF Pages!NoTuningOverRecovery, Pages!RecoveryRecordOutstanding,
         Pages!ApplicationRecoveryBlocksNormalTuning
<1>1. /\ Pages!RecoveryPending(snapshot) /\ ~Pages!RecoveryComplete(snapshot)
  BY DEF Pages!RecoveryPending, Pages!RecoveryComplete
<1>2. Page \in {"RecoveryBlocked", "OwnershipUncertain", "Recovery"}
  BY <1>1, PageFacts
<1>3. \/ a \in {"OpenDetails", "OpenLogs", "OpenHelp", "CloseDrawer"}
      \/ a \in Pages!AddPageActions(Page, snapshot, selection)
  BY <1>2, ViewFacts, NavigationFacts DEF RecoveryPages
<1>4. CASE a \in Pages!AddPageActions(Page, snapshot, selection)
  BY <1>2, <1>4, WorkIsOffered DEF WorkPages, HomePages
<1> QED
  BY <1>3, <1>4 DEF Pages!Edits, Pages!Exits

\* Every way out is one of the four safe ones.
LEMMA ExitsAreSafe == ASSUME Shown PROVE Pages!LeavingIsSafe
<1>1. ASSUME NEW a \in Pages!View.actions,
             a \in {"NavigateHome", "NavigateTune", "ReturnHome", "ContinueToHome"}
      PROVE  \/ Page = "Finished" \/ Page = "Recovered"
             \/ Page = "ControllerConflict"
                /\ Pages!ConflictMitigationsVerified(Evidence)
             \/ Pages!RestorationCanStart(Evidence)
             \/ {"controlHeld", "restorationRequired", "restorationInProgress"}
                   \cap Evidence = {}
  BY <1>1, ViewFacts, NavigationFacts, WorkIsOffered
<1>2. ASSUME Page = "Finished"
      PROVE  /\ Pages!MakeClaims(snapshot).sessionCapturedStateRestored
             /\ Pages!MakeClaims(snapshot).controllerReleased
  <2>1. /\ Pages!SessionRestorationVerified(snapshot.evidence)
        /\ "controllerReleased" \in snapshot.evidence
    BY <1>2, PageFacts DEF Pages!FinishedVerified, Evidence
  <2> QED
    BY <2>1 DEF Pages!MakeClaims
<1>3. CASE Page = "Recovered"
  BY <1>3, PageFacts, ViewFacts
     DEF Pages!RecoveryComplete, Pages!MakeClaims, Pages!LeavingIsSafe
<1>4. ASSUME Pages!ConflictMitigationsVerified(Evidence)
      PROVE  /\ Pages!MakeClaims(snapshot).noControlTaken
             /\ Pages!MakeClaims(snapshot).noVmeOrModuleSettingWritesSent
  <2>1. /\ Pages!ConflictDetected(snapshot.evidence)
        /\ {"noControlTaken", "noVmeOrModuleSettingWritesSent"}
              \subseteq snapshot.evidence
    BY <1>4
       DEF Pages!ConflictMitigationsVerified, Pages!ConflictDetected, Evidence
  <2> QED
    BY <2>1 DEF Pages!MakeClaims
<1> QED
  BY <1>1, <1>2, <1>3, <1>4, ViewFacts DEF Pages!LeavingIsSafe, Evidence

\* What can be put back can be asked to be put back.
LEMMA RestoreCanBeAsked == ASSUME Shown PROVE Pages!RestoreIsOffered
<1> SUFFICES
      ASSUME {"controlHeld", "ownershipFingerprintVerified",
              "liveRestoreSnapshotCaptured", "recoveryRecordDurable",
              "restorationRequired", "cancelAndRestoreAvailable"}
                 \subseteq Evidence,
             {"controllerReleased", "recoveryControllerReleased",
              "controlsFrozen", "activeControllerUseDetected",
              "ownershipUncertain", "restorationInProgress"}
                 \cap Evidence = {},
             ~Pages!RecoveryPending(snapshot), snapshot.phase # "Home"
      PROVE  "StopAndRestore" \in Pages!View.actions
  BY DEF Pages!RestoreIsOffered, Evidence
<1>1. Pages!RestorationCanStart(Evidence)
  BY DEF Pages!RestorationCanStart, Pages!ControlHeldAndVerified
<1>2. /\ ~Pages!OwnershipUncertaintyDetected(Evidence)
      /\ ~Pages!ConflictDetected(Evidence)
      /\ ~Pages!RestorationInProgressVerified(Evidence)
      /\ ~Pages!FinishedVerified(Evidence)
  BY DEF Pages!OwnershipUncertaintyDetected, Pages!ConflictDetected,
         Pages!RestorationInProgressVerified, Pages!FinishedVerified
<1>3. ~Pages!RecoveryCannotProceed(snapshot) /\ ~Pages!RecoveryComplete(snapshot)
  BY DEF Pages!RecoveryCannotProceed, Pages!RecoveryComplete,
         Pages!RecoveryPending, Evidence
<1>4. Page \in WorkPages \cup {"Preparing"}
  BY <1>2, <1>3, PageFacts DEF OtherPages, WorkPages
<1>5. "StopAndRestore" \in Pages!AddPageActions(Page, snapshot, selection)
  BY <1>1, <1>4 DEF WorkPages, Pages!AddPageActions, Pages!Offers, Evidence
<1> QED
  BY <1>5, ViewFacts

\* The header is chosen by the same conditions as the page.
LEMMA HeaderFollowsPage == ASSUME Shown PROVE Pages!HeaderFitsPage
<1>1. Page = "Finished" => ~Pages!ControlHeldAndVerified(Evidence)
  BY PageFacts DEF Pages!FinishedVerified, Pages!ControlHeldAndVerified
<1>2. Page = "Finished" => Page \notin RecoveryPages
  BY DEF RecoveryPages
<1> QED
  BY <1>1, <1>2, PageFacts, ViewFacts
     DEF Pages!HeaderFitsPage, Pages!SelectHeader, Evidence

----------------------------------------------------------------------------
(***************************************************************************)
(* The suite.  A behaviour is one of a single component.                   *)
(***************************************************************************)
SuiteInv ==
    /\ part \in Situations => SessionInv
    /\ part = "preparation" => PreparationInv /\ FailuresCounted
    /\ part = "pages" => Shown

\* Every component starts in its invariant,
LEMMA SuiteStart == ASSUME Init PROVE SuiteInv
<1>1. part \in Situations => SessionInv
  BY SessionStart DEF Init
<1>2. part = "preparation" => PreparationInv /\ FailuresCounted
  <2>1. part = "preparation" => Preparation!Init
    BY DEF Init
  <2>2. Preparation!Init => FailuresCounted
    BY DEF Preparation!Init, FailuresCounted
  <2> QED
    BY <2>1, <2>2, PreparationStart
<1>3. part = "pages" => Shown
  BY PagesStart DEF Init
<1> QED
  BY <1>1, <1>2, <1>3 DEF SuiteInv

\* The component of a behaviour takes its steps, and no other does.
LEMMA PartSteps ==
    ASSUME [Next]_vars
    PROVE  /\ part' = part
           /\ part \in Situations => [Session!Next]_(Session!vars)
           /\ part = "preparation" => [Preparation!Next]_(Preparation!vars)
           /\ part = "pages" => [Pages!Next]_(Pages!vars)
<1>1. CASE Next
  BY <1>1
     DEF Next, SessionSteps, PreparationSteps, PagesSteps, ScriptSteps,
         TextSteps, ExportSteps, LookupSteps, Situations
<1>2. CASE UNCHANGED vars
  BY <1>2
     DEF vars, session, preparation, pages, Session!vars, Preparation!vars,
         Pages!vars
<1> QED
  BY <1>1, <1>2

\* its steps keep it,
LEMMA SuiteKept == ASSUME SuiteInv, [Next]_vars PROVE SuiteInv'
BY PartSteps, SessionKept, PreparationKept, PagesKept DEF SuiteInv

\* and so it holds always.
LEMMA SuiteInvariant == Spec => []SuiteInv
BY SuiteStart, SuiteKept, PTL DEF Spec

\* A session is ready only for what was verified, fresh and still named, with
\* a workspace of that target and nothing to recover (TuningSessionCoordinator
\* .cpp OpenTargetSession, EditTarget, ProbeTarget).
THEOREM SessionIsAlwaysVerified == Spec => []SessionIsVerified
<1>1. SuiteInv => SessionIsVerified
  BY SessionImplies DEF SuiteInv, SessionIsVerified
<1> QED
  BY <1>1, SuiteInvariant, PTL

\* A moved selector has a durable record that asks for it to be parked, and a
\* snapshot holds what the module had (PrepareTuningSessionOperation.cpp).
THEOREM PreparationIsAlwaysJournaled == Spec => []PreparationIsJournaled
<1>1. SuiteInv => PreparationIsJournaled
  BY PreparationImplies DEF SuiteInv, PreparationIsJournaled
<1> QED
  BY <1>1, SuiteInvariant, PTL

\* The preferences name as verified what a check found idle, and a record of
\* another session is never replaced (ProbeTarget,
\* CreateTunerRecoveryJournalExclusive).
THEOREM OnlyVerifiedIsEverSaved == Spec => OnlyVerifiedIsSaved
<1>1. SuiteInv /\ [Next]_vars =>
         [/\ part \in Situations => Session!PreferencesNameVerified
          /\ part = "preparation" => Preparation!ForeignRecordKept]_vars
  BY PartSteps, OnlyChecksSave, ForeignRecordStays DEF SuiteInv
<1> QED
  BY <1>1, SuiteInvariant, PTL DEF Spec, OnlyVerifiedIsSaved

\* No page offers a write without control, or ordinary work over a record; a
\* way out leaves nothing behind, a restoration can be asked for, and header
\* and page agree (GuiPresentation.cpp PresentGui).
THEOREM PagesAreAlwaysSafe == Spec => []PagesAreSafe
<1>1. SuiteInv => PagesAreSafe
  BY WritesAreControlled, RecordsBlock, ExitsAreSafe, RestoreCanBeAsked,
     HeaderFollowsPage
     DEF SuiteInv, PagesAreSafe
<1> QED
  BY <1>1, SuiteInvariant, PTL
=============================================================================

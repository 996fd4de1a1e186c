------------------------------ MODULE TunerControl ------------------------------
(***************************************************************************)
(* The tuner as a front end sees it through ITunerControl: commands go     *)
(* into the queue of one worker, and everything that comes back is the     *)
(* snapshot published last.  A command is executed in one or two           *)
(* publications (an operation that has begun, and its end); between the    *)
(* command of the front end and its execution the worker may publish       *)
(* snapshots of its own: the watchdog polls while a session is open, and   *)
(* the receiver's stream while data is taken.                              *)
(*                                                                         *)
(* What the operations do to the hardware is the subject of                *)
(* OwnershipService and ScpService; here an operation ends in any of the   *)
(* ways those modules allow.  Every result carries the number of the       *)
(* command it belongs to (of), which no program variable records.          *)
(***************************************************************************)
EXTENDS Naturals, Sequences

CONSTANTS
    Tampering,  \* whether another program may take the controller
    Streaming   \* whether the receiver publishes its stream

VARIABLES
    snap,      \* the published snapshot
    newer,     \* something was published since the front end last noted the revision
    queue,     \* commands, polls and stream publications waiting for the worker
    busy,      \* the task whose first publication is out, or Nothing
    watchdog,  \* the watchdog thread: off, idle, posted (a poll is queued), stopping
    session,   \* acquisitionSession_: none, held, foreign, orphan
    disk       \* the journal beside the project, and whether the capture was saved

tuner == <<snap, newer, queue, busy, watchdog, session, disk>>

Journals == {"None", "Pending", "Malformed"}
NotRun == [state |-> "NotRun", of |-> 0]
Result(state, id) == [state |-> state, of |-> id]
Nothing == [name |-> "none", id |-> 0]
Task(name, id) == [name |-> name, id |-> id]

NewSnapshot ==
    [ownership |-> "Disconnected", project |-> FALSE, supported |-> FALSE,
     handoff |-> FALSE, loaded |-> FALSE, other |-> FALSE, fresh |-> FALSE,
     live |-> "blocked", good |-> FALSE, uncertain |-> FALSE,
     audit |-> NotRun, capture |-> NotRun, apply |-> NotRun,
     startup |-> NotRun, passed |-> FALSE, acquisition |-> "NotRun",
     clean |-> FALSE, source |-> NotRun, preview |-> NotRun,
     active |-> FALSE, deviates |-> FALSE, journal |-> "None", readings |-> FALSE,
     recovery |-> NotRun]

TunerInit ==
    /\ snap = NewSnapshot
    /\ newer = FALSE
    /\ queue = <<>>
    /\ busy = Nothing
    /\ watchdog = "off"
    /\ session = "none"
    /\ disk \in [journal : Journals, saved : {FALSE}]

Publish(s) == /\ snap' = s
              /\ newer' = TRUE

(* A publication with a status message of the level Success, or another.   *)
PublishStatus(s, good) == Publish([s EXCEPT !.good = good])

(* The comparison and the plans of RefreshProfileComparison: a function    *)
(* of what was captured, only while the capture is fresh.                  *)
RefreshProfileComparison(s) == IF s.loaded /\ s.fresh THEN s.live ELSE "blocked"
AuditComplete(s) == s.audit.state \in {"Ready", "Blocking"}
StartupPlanAvailable(s) == /\ RefreshProfileComparison(s) \in {"equal", "differs"}
                           /\ AuditComplete(s)

DetachForForeignDaq(s) ==
    [s EXCEPT !.ownership = "OwnershipLost", !.audit = NotRun, !.fresh = FALSE,
              !.passed = FALSE, !.startup = NotRun]

DetachForForeignDiagnosticFingerprint(s) ==
    [s EXCEPT !.ownership = "OwnershipLost", !.acquisition = "Failed",
              !.preview.state = IF s.active THEN "Failed" ELSE @,
              !.source.state = IF s.deviates THEN "Failed" ELSE @,
              !.journal = "Pending"]

StartRefused(s) == s.ownership # "SessionOpen" \/ ~s.passed \/ session # "none"

(* The commands a session or a run refuses publish a warning and leave     *)
(* every result as it is.                                                  *)
Refuses(name, s) ==
    CASE name = "check" -> s.journal = "None" /\ s.ownership = "SessionOpen"
      [] name = "open" -> s.journal = "None" /\ (s.ownership # "Idle" \/ ~s.handoff)
      [] name = "apply" -> \/ s.ownership # "SessionOpen"
                           \/ RefreshProfileComparison(s) # "differs"
      [] name = "startup" -> s.ownership # "SessionOpen" \/ ~StartupPlanAvailable(s)
      [] name = "start" -> StartRefused(s)
      [] name = "preview" -> s.acquisition = "Running" /\ s.active
      [] name = "restore" -> ~s.active
      [] name \in {"look", "recover"} -> s.journal # "Pending"
      [] name = "export" -> ~s.loaded /\ ~s.other
      [] OTHER -> FALSE

(* The commands that select a project.                                     *)
Uses == {"use", "useOther"}

(* Commands executed in one publication.                                   *)
Single(name, id, s) ==
    CASE name \in Uses ->
            {[NewSnapshot EXCEPT !.project = TRUE, !.supported = (name = "use"),
                       !.journal = disk.journal, !.good = (name = "use"),
                       !.ownership = IF disk.journal = "None" THEN "Disconnected"
                                     ELSE "RecoveryRequired"]}
      [] name = "handoff" -> {[s EXCEPT !.handoff = TRUE, !.good = TRUE]}
      [] name = "unconfirm" -> {[s EXCEPT !.handoff = FALSE, !.good = FALSE]}
      [] name = "export" -> {[s EXCEPT !.good = g] : g \in BOOLEAN}
      [] name = "load" ->
            {[s EXCEPT !.loaded = (l = "target"), !.other = (l = "other"),
                       !.good = (l = "target"), !.apply = NotRun,
                       !.startup = NotRun, !.passed = FALSE]
               : l \in {"failed", "other", "target"}}
      [] name = "look" ->
            {[s EXCEPT !.readings = r, !.ownership = "RecoveryRequired",
                       !.good = FALSE] : r \in BOOLEAN}
      [] name \in {"check", "open"} ->
            {[s EXCEPT !.ownership = "RecoveryRequired", !.good = FALSE]}
      [] name = "audit" -> {[s EXCEPT !.audit = Result("Failed", id), !.good = FALSE]}
      [] name = "capture" ->
            {[s EXCEPT !.capture = Result("Failed", id), !.fresh = FALSE, !.good = FALSE]}
      [] name = "source" -> {[s EXCEPT !.source = Result("Failed", id), !.good = FALSE]}
      [] name = "preview" ->
            {[s EXCEPT !.preview = Result("Failed", id), !.good = FALSE, !.active = FALSE]}
      [] name = "restore" -> {[s EXCEPT !.preview = Result("Failed", id), !.good = FALSE]}

\* Mutant: a preview is begun whether or not data is still taken.
IsSingleLatePreview(name, s) ==
    \/ name \in {"use", "useOther", "handoff", "unconfirm", "load", "export", "look"}
    \/ name \in {"check", "open"} /\ s.journal # "None"
    \/ name \in {"audit", "capture"} /\ s.ownership # "SessionOpen"
    \/ name = "source" /\ (s.acquisition # "Running" \/ s.active)
    \/ name = "restore" /\ (s.acquisition # "Running" \/ s.preview.state # "Active")

(* A restore without the receiver of a running acquisition, or of a        *)
(* preview whose last transaction failed, touches nothing.                 *)
IsSingle(name, s) ==
    \/ name \in {"use", "useOther", "handoff", "unconfirm", "load", "export", "look"}
    \/ name \in {"check", "open"} /\ s.journal # "None"
    \/ name \in {"audit", "capture"} /\ s.ownership # "SessionOpen"
    \/ name = "source" /\ (s.acquisition # "Running" \/ s.active)
    \/ name = "preview" /\ s.acquisition # "Running"
    \/ name = "restore" /\ (s.acquisition # "Running" \/ s.preview.state # "Active")

(* The first publication of an operation that takes time.                  *)
Begun(name, id, s) ==
    CASE name = "check" -> [s EXCEPT !.ownership = "Checking", !.readings = FALSE]
      [] name = "open" ->
            [s EXCEPT !.ownership = "Checking", !.audit = NotRun, !.fresh = FALSE,
                      !.capture = NotRun, !.apply = NotRun, !.passed = FALSE,
                      !.startup = NotRun, !.source = NotRun, !.preview = NotRun]
      [] name = "audit" -> [s EXCEPT !.audit = Result("Running", id)]
      [] name = "capture" -> [s EXCEPT !.capture = Result("Running", id), !.fresh = FALSE,
                                       !.passed = FALSE, !.startup = NotRun]
      [] name = "apply" -> [s EXCEPT !.apply = Result("Running", id)]
      [] name = "startup" -> [s EXCEPT !.startup = Result("Running", id),
                                       !.fresh = FALSE, !.passed = FALSE]
      [] name = "start" -> [s EXCEPT !.acquisition = "Starting", !.clean = FALSE,
                                     !.source = NotRun, !.preview = NotRun]
      [] name = "source" -> [s EXCEPT !.source = Result("Running", id), !.fresh = FALSE]
      [] name = "preview" -> [s EXCEPT !.preview = Result("Running", id), !.fresh = FALSE]
      [] name = "restore" -> [s EXCEPT !.preview = Result("Running", id)]
      [] name \in {"stop", "release"} -> [s EXCEPT !.acquisition = "Stopping"]
      [] name = "recover" -> [s EXCEPT !.recovery = Result("Running", id)]

(* The ends of an operation, each with what is left of the acquisition     *)
(* session.  A failed operation may have met a foreign run at one of its   *)
(* ownership gates.                                                        *)
Lost(s) == {s} \cup (IF Tampering THEN {DetachForForeignDaq(s)} ELSE {})
Fails(s) == {[s |-> t, session |-> session] : t \in Lost(s)}
Ends(s, held) == [s |-> s, session |-> held]
Foreign(s) == IF Tampering
              THEN {Ends(DetachForForeignDiagnosticFingerprint(s), "foreign")} ELSE {}

(* What a stop leaves: cleaned, a foreign run untouched, an orphan for     *)
(* recovery, or a session on which the stop can be retried.                *)
StopDiagnosticAcquisition(s) ==
    {Ends([s EXCEPT !.acquisition = "Stopped", !.clean = TRUE, !.good = TRUE,
                    !.active = FALSE, !.deviates = FALSE, !.journal = "None"], "none"),
     Ends([s EXCEPT !.acquisition = "Failed", !.good = FALSE, !.journal = "Pending"], "held"),
     Ends([s EXCEPT !.acquisition = "Failed", !.good = FALSE, !.journal = "Pending",
                    !.ownership = "RecoveryRequired"], "orphan")}
    \cup Foreign([s EXCEPT !.good = FALSE])

Released(s) ==
    [s EXCEPT !.ownership = "Disconnected", !.readings = FALSE, !.handoff = FALSE]
Forgotten(s) ==
    [Released(s) EXCEPT !.audit = NotRun, !.loaded = FALSE, !.other = FALSE,
                        !.fresh = FALSE, !.capture = NotRun, !.apply = NotRun, !.passed = FALSE,
                        !.startup = NotRun, !.acquisition = "NotRun", !.clean = FALSE,
                        !.source = NotRun, !.preview = NotRun, !.good = FALSE]

(* The release of a session whose acquisition has stopped with the end e:  *)
(* a stop that failed and may be retried keeps the session.                *)
ReleaseAfter(e) ==
    CASE e.session = "none" -> Ends(Forgotten(e.s), "none")
      [] e.session = "held" -> e
      [] e.session \in {"foreign", "orphan"} ->
            Ends([Released(e.s) EXCEPT !.good = FALSE], "none")

StartFailed(s) == [s EXCEPT !.acquisition = "Failed", !.good = FALSE]

(* What ProbeController finds: an idle controller, one in use, or none.    *)
ProbeOutcomes == {"Idle", "InUse", "Failed"}

Ended(name, id, s) ==
    CASE name = "check" ->
            {Ends([s EXCEPT !.ownership = o, !.good = (o = "Idle"),
                            !.readings = (o # "Failed")], session)
               : o \in ProbeOutcomes}
      [] name = "open" ->
            {Ends([s EXCEPT !.ownership = o, !.good = (o = "SessionOpen"),
                            !.uncertain = FALSE], session)
               : o \in {"SessionOpen", "InUse", "Failed"}}
      [] name = "audit" ->
            {Ends([s EXCEPT !.audit = Result(r, id), !.good = (r = "Ready")], session)
               : r \in {"Ready", "Blocking"}}
            \cup {Ends([t EXCEPT !.audit = Result("Failed", id), !.good = FALSE], session)
                    : t \in Lost(s)}
      [] name = "capture" ->
            {Ends([s EXCEPT !.capture = Result("Complete", id), !.fresh = TRUE,
                            !.live = l, !.good = TRUE], session)
               : l \in {"equal", "differs", "blocked"}}
            \cup {Ends([t EXCEPT !.capture = Result("Failed", id), !.good = FALSE], session)
                    : t \in Lost(s)}
      [] name = "apply" ->
            {Ends([s EXCEPT !.apply = Result("Passed", id), !.fresh = FALSE,
                            !.good = TRUE, !.passed = FALSE, !.startup = NotRun], session)}
            \cup Fails([s EXCEPT !.apply = Result("Failed", id), !.fresh = FALSE,
                                 !.good = FALSE, !.passed = FALSE, !.startup = NotRun])
      [] name = "startup" ->
            {Ends([s EXCEPT !.startup = Result("Passed", id), !.passed = TRUE,
                            !.fresh = TRUE, !.live = "equal", !.good = TRUE], session)}
            \cup {Ends([t EXCEPT !.startup = Result("Failed", id), !.good = FALSE], session)
                    : t \in Lost(s)}
      [] name = "start" ->
            LET failed == StartFailed(s)
            IN  {Ends([s EXCEPT !.acquisition = "Running", !.good = TRUE], "held"),
                 Ends([failed EXCEPT !.journal = "Pending"], "held")}
                \cup {Ends(t, "none") : t \in Lost(failed)}
                \cup {Ends([t EXCEPT !.ownership = "RecoveryRequired",
                                     !.journal = "Pending"], "none") : t \in Lost(failed)}
      [] name = "source" ->
            {Ends([s EXCEPT !.source = Result("Passed", id), !.deviates = d,
                            !.good = TRUE], session) : d \in BOOLEAN}
            \cup {Ends([s EXCEPT !.source = Result("Failed", id), !.good = FALSE], session)}
            \cup Foreign(s)
      [] name = "preview" ->
            {Ends([s EXCEPT !.preview = Result("Active", id), !.active = TRUE,
                            !.good = TRUE], session)}
            \cup {Ends([s EXCEPT !.preview = Result("Failed", id), !.active = a,
                                 !.good = FALSE], session) : a \in BOOLEAN}
            \cup Foreign(s)
      [] name = "restore" ->
            {Ends([s EXCEPT !.preview = Result("Restored", id), !.active = FALSE,
                            !.good = TRUE], session)}
            \cup {Ends([s EXCEPT !.preview = Result("Failed", id), !.active = a,
                                 !.good = FALSE], session) : a \in BOOLEAN}
            \cup Foreign(s)
      [] name = "stop" -> StopDiagnosticAcquisition(s)
      [] name \in Uses ->
            {IF e.session = "none" THEN Ends(t, "none") ELSE e
               : e \in StopDiagnosticAcquisition(s), t \in Single(name, id, s)}
      [] name = "release" -> {ReleaseAfter(e) : e \in StopDiagnosticAcquisition(s)}
      [] name = "recover" ->
            {Ends([s EXCEPT !.recovery = Result("Recovered", id), !.good = TRUE,
                            !.journal = "None", !.ownership = "Disconnected",
                            !.acquisition = "NotRun", !.clean = FALSE,
                            !.source = NotRun, !.preview = NotRun,
                            !.active = FALSE, !.deviates = FALSE], "none"),
             Ends([s EXCEPT !.recovery = Result("Failed", id), !.good = FALSE,
                            !.ownership = "RecoveryRequired"], session)}

-----------------------------------------------------------------------------
(* The worker takes the next command.                                      *)
Take(name) == /\ busy = Nothing
              /\ queue # <<>>
              /\ Head(queue).name = name
              /\ queue' = Tail(queue)

Commands == {"use", "useOther", "check", "load", "export", "handoff", "unconfirm",
             "open", "audit", "capture", "apply", "startup", "start", "source",
             "preview", "restore", "look", "recover"}

ExecuteCommand ==
    \E name \in Commands :
        /\ Take(name)
        /\ name \in Uses => session = "none"
        /\ IF Refuses(name, snap)
           THEN /\ PublishStatus(snap, FALSE)
                /\ UNCHANGED busy
           ELSE IF IsSingle(name, snap)
           THEN /\ \E s \in Single(name, Head(queue).id, snap) : Publish(s)
                /\ UNCHANGED busy
           ELSE /\ PublishStatus(Begun(name, Head(queue).id, snap), FALSE)
                /\ busy' = Head(queue)
        /\ UNCHANGED <<watchdog, session, disk>>

SaveProfile ==
    /\ Take("save")
    /\ IF snap.fresh
       THEN \E ok \in BOOLEAN : /\ PublishStatus(snap, ok)
                                /\ disk' = [disk EXCEPT !.saved = ok]
       ELSE /\ PublishStatus(snap, FALSE)
            /\ UNCHANGED disk
    /\ UNCHANGED <<busy, watchdog, session>>

(* A stop or release with no session to clean has nothing to wait for;     *)
(* a session that is foreign or an orphan is never cleaned, and the stop   *)
(* publishes nothing at all.  A temporary value that cannot be restored    *)
(* because the controller does not answer ends the stop before it begins.  *)
(* A project selected while there is a session begins with a stop, and is  *)
(* not selected unless the stop ends it.  The transport of a session that  *)
(* is held may have been reset by a look at the controller, which a stop   *)
(* does not survive (StopWithoutTransport of OwnershipService): here the   *)
(* stop goes on, and no behaviour of the program is left out.              *)
StopOrRelease ==
    /\ \E name \in {"stop", "release"} \cup Uses :
          Take(name) /\ (name \in Uses => session # "none")
    /\ \/ /\ session = "held"
          /\ Publish(Begun("stop", 0, snap))
          /\ busy' = Head(queue)
          /\ UNCHANGED session
       \/ /\ session = "held" /\ (snap.active \/ snap.deviates)
          /\ PublishStatus([snap EXCEPT !.preview.state = IF snap.active THEN "Failed" ELSE @], FALSE)
          /\ UNCHANGED <<busy, session>>
       \/ /\ session # "held"
          /\ UNCHANGED busy
          /\ IF Head(queue).name # "release" THEN UNCHANGED <<snap, newer, session>>
             ELSE LET e == ReleaseAfter(Ends(snap, session))
                  IN  Publish(e.s) /\ session' = e.session
    /\ UNCHANGED <<watchdog, disk>>

(* The operation the worker is at comes to one of its ends; an opened      *)
(* session has its watchdog.                                               *)
FinishOperation ==
    /\ busy # Nothing
    /\ \E e \in Ended(busy.name, busy.id, snap) :
          /\ Publish(e.s)
          /\ session' = e.session
          /\ watchdog' = IF busy.name = "open" /\ e.s.ownership = "SessionOpen"
                         THEN "idle" ELSE watchdog
    /\ busy' = Nothing
    /\ UNCHANGED <<queue, disk>>

-----------------------------------------------------------------------------
(* The watchdog thread posts a poll every second and waits for it.         *)
WatchdogLoop ==
    /\ watchdog = "idle"
    /\ IF snap.ownership = "SessionOpen"
       THEN /\ queue' = Append(queue, Task("poll", 0))
            /\ watchdog' = "posted"
       ELSE /\ watchdog' = "off"
            /\ UNCHANGED queue
    /\ UNCHANGED <<snap, newer, busy, session, disk>>

PollWatchdog ==
    /\ Take("poll")
    /\ LET resting == IF watchdog = "stopping" THEN "off" ELSE "idle"
       IN  \/ /\ watchdog = "stopping" \/ snap.ownership # "SessionOpen"
              /\ watchdog' = "off"
              /\ UNCHANGED <<snap, newer, session>>
           \/ /\ watchdog # "stopping" /\ snap.ownership = "SessionOpen"
              /\ \/ /\ IF snap.uncertain
                       THEN PublishStatus([snap EXCEPT !.uncertain = FALSE], TRUE)
                       ELSE Publish(snap)
                    /\ watchdog' = resting
                    /\ UNCHANGED session
                 \/ /\ PublishStatus([snap EXCEPT !.uncertain = TRUE], FALSE)
                    /\ watchdog' = resting
                    /\ UNCHANGED session
                 \/ /\ Tampering
                    /\ IF session = "held" /\ snap.acquisition = "Running"
                       THEN /\ PublishStatus(DetachForForeignDiagnosticFingerprint(snap), FALSE)
                            /\ session' = "foreign"
                       ELSE /\ PublishStatus(DetachForForeignDaq(snap), FALSE)
                            /\ UNCHANGED session
                    /\ watchdog' = "off"
    /\ UNCHANGED <<busy, disk>>

(* The receiver thread posts its stream while data is taken (at most one   *)
(* waiting); a stream that carries a receive error stops the acquisition.  *)
PostStream ==
    /\ Streaming /\ snap.acquisition = "Running"
    /\ ~\E i \in DOMAIN queue : queue[i].name = "stream"
    /\ queue' = Append(queue, Task("stream", 0))
    /\ UNCHANGED <<snap, newer, busy, watchdog, session, disk>>

PublishDiagnosticStream ==
    /\ Take("stream")
    /\ IF session = "none" \/ snap.acquisition # "Running"
       THEN UNCHANGED <<snap, newer, busy>>
       ELSE \/ Publish(snap) /\ UNCHANGED busy
            \/ /\ session = "held"
               /\ Publish(Begun("stop", 0, snap))
               /\ busy' = Task("stop", 0)
    /\ UNCHANGED <<watchdog, session, disk>>

Work == \/ ExecuteCommand \/ SaveProfile \/ StopOrRelease \/ FinishOperation
        \/ PollWatchdog \/ PublishDiagnosticStream

Threads == Work \/ WatchdogLoop \/ PostStream

(* Submit by the front end: three commands first stop the watchdog and     *)
(* wait for its thread, which may be waiting for a poll.                   *)
StopsWatchdog(name) == name \in {"use", "useOther", "check", "open", "recover",
                               "look", "release"}
RequestWatchdogStop ==
    watchdog' = CASE watchdog = "idle" -> "off"
                  [] watchdog = "posted" -> "stopping"
                  [] OTHER -> watchdog
Post(name, id) == /\ StopsWatchdog(name) => watchdog = "off"
                  /\ queue' = Append(queue, Task(name, id))
=============================================================================

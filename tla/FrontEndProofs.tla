--------------------------- MODULE FrontEndProofs ---------------------------
(***************************************************************************)
(* The front ends.                                                         *)
(*                                                                         *)
(* The guided front end, for any number of commands that wait and whatever *)
(* the other threads publish in between: what a stage enables at rest is   *)
(* carried out, the action the rail names is one the stage enables, and    *)
(* nothing of an acquisition is begun over a known recovery journal.  A    *)
(* command is judged when the worker takes it, by the snapshot of that     *)
(* moment, so the invariant is about the snapshot, the acquisition session *)
(* and the operation under way, and says nothing of the queue: what is in  *)
(* it is typed, and in any order.                                          *)
(*                                                                         *)
(* The threads that meet at the queue, for a front end that waits for      *)
(* nothing: no more than one poll, none that outlives its watchdog, and no *)
(* thread object that is lost but in the two cases that are named.         *)
(*                                                                         *)
(* The command line, for any commands, options and tunes: it leaves the    *)
(* tuner at rest, without a session and with what it reports verified.     *)
(* Here the queue is what matters: until the session is open there is only *)
(* the command that is waited for, and nothing but polls and streams waits *)
(* behind the release of the session.                                      *)
(***************************************************************************)
EXTENDS MCFrontEnds, SequenceTheorems, TLAPS

Ownerships == {"Disconnected", "RecoveryRequired", "Checking", "Idle", "InUse",
               "Failed", "OwnershipLost", "SessionOpen"}
Acquisitions == {"NotRun", "Starting", "Running", "Stopping", "Stopped", "Failed"}
Outcomes == {"NotRun", "Running", "Ready", "Blocking", "Failed", "Complete",
             "Passed", "Active", "Restored", "Recovered"}
Results == [state : Outcomes, of : Nat]
Comparisons == {"equal", "differs", "blocked"}
Snapshots ==
    [ownership : Ownerships, project : BOOLEAN, supported : BOOLEAN,
     handoff : BOOLEAN, loaded : BOOLEAN, other : BOOLEAN, fresh : BOOLEAN,
     live : Comparisons, good : BOOLEAN, uncertain : BOOLEAN,
     audit : Results, capture : Results, apply : Results,
     startup : Results, passed : BOOLEAN, acquisition : Acquisitions,
     clean : BOOLEAN, source : Results, preview : Results,
     active : BOOLEAN, deviates : BOOLEAN, journal : Guided!Journals,
     readings : BOOLEAN, recovery : Results]
Sessions == {"none", "held", "foreign", "orphan"}
Stops == {"stop", "release"} \cup Guided!Uses
Names == Guided!Commands \cup {"none", "stop", "release", "save", "poll", "stream"}
Operations == {"check", "open", "audit", "capture", "apply", "startup", "start",
               "source", "preview", "restore", "recover"} \cup Stops
Tasks == [name : Names, id : Nat]

\* A journal beside a session that is open is that of the held acquisition,
\* data is taken only with a session and no journal, and a session without a
\* journal is taking data.  A run that has been cleaned has no session.
Consistent(s, held) ==
    /\ s.journal # "None" /\ held # "held" => s.ownership # "SessionOpen"
    /\ s.acquisition = "Running" => s.journal = "None" /\ held = "held"
    /\ s.journal = "None" /\ held # "none" =>
          held = "held" /\ s.acquisition \in {"Starting", "Running", "Stopping"}
    /\ s.clean => held = "none" /\ s.acquisition = "Stopped"

\* What was true when an operation began is true until it ends, and the
\* states that show an operation under way are shown by no other.
UnderWay(name, s, held) ==
    /\ s.acquisition = "Starting" => name = "start"
    /\ s.acquisition = "Stopping" => name \in Stops
    /\ s.recovery.state = "Running" => name = "recover"
    /\ name = "start" => s.journal = "None" /\ held = "none" /\ ~s.clean
    /\ name \in {"source", "preview", "restore"} => s.acquisition = "Running"
    /\ name \in {"audit", "capture", "apply", "startup"} => s.ownership = "SessionOpen"
    /\ name = "recover" => s.journal = "Pending"
    /\ name \in {"check", "open"} => s.journal = "None"
    /\ name \in Stops => held = "held"

Fits(name, s, held) ==
    /\ s \in Snapshots /\ held \in Sessions
    /\ Consistent(s, held) /\ UnderWay(name, s, held)

TunerInv ==
    /\ queue \in Seq(Tasks) /\ busy \in Tasks
    /\ disk \in [journal : Guided!Journals, saved : BOOLEAN]
    /\ busy = Guided!Nothing \/ busy.name \in Operations
    /\ Fits(busy.name, snap, session)
GuidedInv == TunerInv /\ joining \in Names

\* The rail asks for a recovery although no journal is known.
RecoveryWithoutJournal == snap.journal = "None" /\ snap.ownership = "RecoveryRequired"

----------------------------------------------------------------------------
\* A snapshot, with the fields the invariant is about.
Shows(t, o, a, j, r, c) ==
    /\ t \in Snapshots
    /\ t.ownership = o /\ t.acquisition = a /\ t.journal = j /\ t.recovery = r
    /\ t.clean = c
Keeps(t, s) == Shows(t, s.ownership, s.acquisition, s.journal, s.recovery, s.clean)

\* Nothing has happened but that another program may have been met.
Calm(t, s) ==
    /\ t.acquisition = s.acquisition /\ t.clean = s.clean
    /\ t.ownership \in {s.ownership, "OwnershipLost"}

\* Whatever a command does: only a start ends that there was no run, no
\* verified cleanup is forgotten but for another run, only a release, a
\* recovery or a project gives the controller up, and a release with what it
\* held; and only an open opens a session.
Moves(name, s, h, t, k) ==
    /\ name # "start" /\ h = "none" /\ s.acquisition = "NotRun" =>
          k = "none" /\ t.acquisition = "NotRun"
    /\ name \notin {"start", "release", "recover"} \cup Guided!Uses /\ s.clean => t.clean
    /\ t.ownership = "Disconnected" =>
          \/ s.ownership = "Disconnected" \/ name \in {"recover"} \cup Guided!Uses
          \/ name = "release" /\ k = "none"
    /\ t.ownership = "SessionOpen" => s.ownership = "SessionOpen" \/ name = "open"

\* A calm step is a step of any command.
LEMMA CalmMoves ==
    ASSUME NEW s, NEW t, Calm(t, s), NEW name, NEW held
    PROVE  Moves(name, s, held, t, held)
BY DEF Calm, Moves

\* A snapshot that keeps those fields fits where the other did.
LEMMA KeepsFits ==
    ASSUME NEW name, NEW s, NEW held, Fits(name, s, held), NEW t, Keeps(t, s)
    PROVE  Fits(name, t, held) /\ Calm(t, s)
BY DEF Keeps, Shows, Fits, Consistent, UnderWay, Calm

\* The results of commands, by their type.
LEMMA Values ==
    /\ Guided!NotRun \in Results /\ Guided!NotRun.state = "NotRun"
    /\ \A o \in Outcomes, id \in Nat :
          Guided!Result(o, id) \in Results /\ Guided!Result(o, id).state = o
    /\ \A x \in {"Running", "Ready", "Blocking", "Failed", "Complete", "Passed",
                 "Active", "Restored", "Recovered"} : x \in Outcomes
    /\ \A s : Fits("none", s, session) => s \in Snapshots
BY DEF Guided!NotRun, Results, Outcomes, Guided!Result, Fits

\* The two parts of an end.
LEMMA EndsFields ==
    \A x, y : Guided!Ends(x, y).s = x /\ Guided!Ends(x, y).session = y
BY DEF Guided!Ends

\* An operation that shows nothing of its own may be forgotten.
LEMMA AtRest ==
    ASSUME NEW name, NEW s, NEW held, Fits(name, s, held),
           name \notin {"start", "recover"} \cup Stops
    PROVE  Fits("none", s, held) /\ s \in Snapshots
BY DEF Fits, Consistent, UnderWay, Stops, Guided!Uses

\* A run of another program that is met before data is taken.
LEMMA DaqFields ==
    ASSUME NEW s \in Snapshots
    PROVE  Shows(Guided!DetachForForeignDaq(s), "OwnershipLost", s.acquisition,
                 s.journal, s.recovery, s.clean)
<1>1. "OwnershipLost" \in Ownerships
  BY DEF Ownerships
<1> QED
  BY <1>1, Values DEF Guided!DetachForForeignDaq, Snapshots, Shows

\* An operation that fails may have met one.
LEMMA LostFields ==
    ASSUME NEW s \in Snapshots, NEW t \in Guided!Lost(s)
    PROVE  /\ Shows(t, t.ownership, s.acquisition, s.journal, s.recovery, s.clean)
           /\ t.ownership \in {s.ownership, "OwnershipLost"}
<1>1. t = s \/ t = Guided!DetachForForeignDaq(s)
  BY DEF Guided!Lost
<1> QED
  BY <1>1, DaqFields DEF Shows

\* It may be met at rest.
LEMMA LostFits ==
    ASSUME NEW s, NEW held, Fits("none", s, held), NEW t \in Guided!Lost(s)
    PROVE  Fits("none", t, held) /\ Calm(t, s)
<1>1. s \in Snapshots
  BY DEF Fits
<1> QED
  BY <1>1, LostFields DEF Shows, Fits, Consistent, UnderWay, Calm

\* A run of another program that is met where data was taken.
LEMMA ForeignFields ==
    ASSUME NEW s \in Snapshots
    PROVE  Shows(Guided!DetachForForeignDiagnosticFingerprint(s),
                 "OwnershipLost", "Failed", "Pending", s.recovery, s.clean)
<1>1. ASSUME NEW t \in Snapshots, NEW p \in Outcomes, NEW q \in Outcomes
      PROVE  Shows([t EXCEPT !.ownership = "OwnershipLost", !.acquisition = "Failed",
                        !.preview.state = p, !.source.state = q, !.journal = "Pending"],
              "OwnershipLost", "Failed", "Pending", t.recovery, t.clean)
  BY ZenonT(60) DEF Shows, Snapshots, Ownerships, Acquisitions, Results, Guided!Journals
<1>2. s.preview.state \in Outcomes /\ s.source.state \in Outcomes /\ "Failed" \in Outcomes
  BY DEF Snapshots, Results, Outcomes
<1> QED
  BY <1>1, <1>2 DEF Guided!DetachForForeignDiagnosticFingerprint

\* It may be met whenever nothing else is under way.
LEMMA ForeignFits ==
    ASSUME NEW s \in Snapshots, s.recovery.state # "Running",
           ~s.clean, NEW e \in Guided!Foreign(s)
    PROVE  /\ Fits("none", e.s, e.session) /\ e.session = "foreign" /\ e.s.journal = "Pending"
           /\ e.s.ownership = "OwnershipLost"
<1>1. e = Guided!Ends(Guided!DetachForForeignDiagnosticFingerprint(s), "foreign")
  BY DEF Guided!Foreign
<1>2. e.s = Guided!DetachForForeignDiagnosticFingerprint(s) /\ e.session = "foreign"
  BY <1>1, EndsFields
<1>3. Shows(e.s, "OwnershipLost", "Failed", "Pending", s.recovery, s.clean)
  BY <1>2, ForeignFields
<1> QED
  BY <1>2, <1>3 DEF Shows, Fits, Consistent, UnderWay, Sessions, Stops, Guided!Uses

----------------------------------------------------------------------------
\* The project selected, as its first snapshot shows it.
LEMMA UseFits ==
    ASSUME NEW s, NEW name \in Guided!Uses, NEW id \in Nat,
           disk \in [journal : Guided!Journals, saved : BOOLEAN],
           NEW t \in Guided!Single(name, id, s)
    PROVE  Fits("none", t, "none") /\ \A held : Moves(name, s, held, t, "none")
<1>1. Guided!Single(name, id, s) =
        {[Guided!NewSnapshot EXCEPT !.project = TRUE, !.supported = (name = "use"),
                       !.journal = disk.journal, !.good = (name = "use"),
                       !.ownership = IF disk.journal = "None" THEN "Disconnected"
                                     ELSE "RecoveryRequired"]}
  <2>1. CASE name = "use"
    BY <2>1 DEF Guided!Single, Guided!Uses
  <2>2. CASE name = "useOther"
    BY <2>2 DEF Guided!Single, Guided!Uses
  <2> QED
    BY <2>1, <2>2 DEF Guided!Uses
<1>2. Guided!NewSnapshot \in Snapshots
  BY Values DEF Guided!NewSnapshot, Snapshots, Ownerships, Acquisitions,
                Comparisons, Guided!Journals
<1>3. /\ Guided!NewSnapshot.acquisition = "NotRun" /\ Guided!NewSnapshot.recovery = Guided!NotRun
      /\ Guided!NewSnapshot.clean = FALSE
  BY DEF Guided!NewSnapshot
<1>4. ASSUME NEW n \in Snapshots, NEW o \in Ownerships, NEW j \in Guided!Journals, NEW b \in BOOLEAN
      PROVE  Shows([n EXCEPT !.project = TRUE, !.supported = b, !.journal = j,
                        !.good = b, !.ownership = o],
              o, n.acquisition, j, n.recovery, n.clean)
  BY DEF Snapshots, Shows
<1>5. disk.journal \in Guided!Journals
  OBVIOUS
<1>6. "Disconnected" \in Ownerships /\ "RecoveryRequired" \in Ownerships
  BY DEF Ownerships
<1>7. PICK o \in {"Disconnected", "RecoveryRequired"}, b \in BOOLEAN :
        /\ t = [Guided!NewSnapshot EXCEPT !.project = TRUE, !.supported = b,
                       !.journal = disk.journal, !.good = b, !.ownership = o]
        /\ o = "RecoveryRequired" <=> disk.journal # "None"
  <2> DEFINE b == name = "use"
             o == IF disk.journal = "None" THEN "Disconnected" ELSE "RecoveryRequired"
  <2>1. t = [Guided!NewSnapshot EXCEPT !.project = TRUE, !.supported = b,
                       !.journal = disk.journal, !.good = b, !.ownership = o]
    BY <1>1
  <2>2. b \in BOOLEAN /\ o \in {"Disconnected", "RecoveryRequired"}
    OBVIOUS
  <2>3. o = "RecoveryRequired" <=> disk.journal # "None"
    OBVIOUS
  <2> HIDE DEF b, o
  <2> QED
    BY <2>1, <2>2, <2>3
<1>8. Shows(t, o, "NotRun", disk.journal, Guided!NotRun, FALSE)
  BY <1>2, <1>3, <1>4, <1>5, <1>6, <1>7, ZenonT(60)
<1> QED
  BY <1>7, <1>8, Values
     DEF Shows, Fits, Consistent, UnderWay, Sessions, Stops, Guided!Uses, Moves

\* A command of one publication leaves the tuner at rest as it found it.
LEMMA SingleFits ==
    ASSUME NEW s, NEW held, Fits("none", s, held),
           disk \in [journal : Guided!Journals, saved : BOOLEAN],
           NEW name \in Guided!Commands, NEW id \in Nat,
           ~Guided!Refuses(name, s), Guided!IsSingle(name, s),
           name \in Guided!Uses => held = "none",
           NEW t \in Guided!Single(name, id, s)
    PROVE  /\ Fits("none", t, held) /\ Moves(name, s, held, t, held)
           /\ t.ownership = "SessionOpen" => s.ownership = "SessionOpen"
<1>1. CASE name \in Guided!Uses
  BY <1>1, UseFits DEF Moves, Guided!Uses
<1>2. s \in Snapshots /\ Guided!Result("Failed", id) \in Results /\ Guided!NotRun \in Results
  BY Values DEF Fits
<1>3. CASE name = "handoff"
  <2>1. Guided!Single("handoff", id, s) = {[s EXCEPT !.handoff = TRUE, !.good = TRUE]}
    BY DEF Guided!Single, Guided!Uses
  <2>2. ASSUME NEW u \in Snapshots
        PROVE  Keeps([u EXCEPT !.handoff = TRUE, !.good = TRUE], u)
    BY DEF Keeps, Shows, Snapshots
  <2> QED
    BY <1>2, <1>3, <2>1, <2>2, KeepsFits, CalmMoves DEF Calm
<1>4. CASE name = "unconfirm"
  <2>1. Guided!Single("unconfirm", id, s) = {[s EXCEPT !.handoff = FALSE, !.good = FALSE]}
    BY DEF Guided!Single, Guided!Uses
  <2>2. ASSUME NEW u \in Snapshots
        PROVE  Keeps([u EXCEPT !.handoff = FALSE, !.good = FALSE], u)
    BY DEF Keeps, Shows, Snapshots
  <2> QED
    BY <1>2, <1>4, <2>1, <2>2, KeepsFits, CalmMoves DEF Calm
<1>5. CASE name = "export"
  <2>1. Guided!Single("export", id, s) = {[s EXCEPT !.good = g] : g \in BOOLEAN}
    BY DEF Guided!Single, Guided!Uses
  <2>2. ASSUME NEW u \in Snapshots, NEW g \in BOOLEAN
        PROVE  Keeps([u EXCEPT !.good = g], u)
    BY DEF Keeps, Shows, Snapshots
  <2> QED
    BY <1>2, <1>5, <2>1, <2>2, KeepsFits, CalmMoves DEF Calm
<1>6. CASE name = "load"
  <2>1. Guided!Single("load", id, s) =
          {[s EXCEPT !.loaded = (l = "target"), !.other = (l = "other"),
                     !.good = (l = "target"), !.apply = Guided!NotRun,
                     !.startup = Guided!NotRun, !.passed = FALSE]
             : l \in {"failed", "other", "target"}}
    BY DEF Guided!Single, Guided!Uses
  <2>2. PICK l \in BOOLEAN, o \in BOOLEAN :
          t = [s EXCEPT !.loaded = l, !.other = o, !.good = l, !.apply = Guided!NotRun,
                        !.startup = Guided!NotRun, !.passed = FALSE]
    BY <1>6, <2>1
  <2> DEFINE v == [s EXCEPT !.loaded = l, !.other = o, !.good = l]
  <2>3. Keeps(v, s)
    BY <1>2, ZenonT(60) DEF Keeps, Shows, Snapshots
  <2>4. t = [v EXCEPT !.apply = Guided!NotRun, !.startup = Guided!NotRun, !.passed = FALSE]
    BY <2>2
  <2> HIDE DEF v
  <2>5. ASSUME NEW u \in Snapshots, NEW n \in Results
        PROVE  Keeps([u EXCEPT !.apply = n, !.startup = n, !.passed = FALSE], u)
    BY DEF Keeps, Shows, Snapshots
  <2>6. Keeps(t, v)
    BY <1>2, <2>3, <2>4, <2>5, ZenonT(60) DEF Keeps, Shows
  <2> QED
    BY <2>3, <2>6, KeepsFits, CalmMoves DEF Calm
<1>7. CASE name = "look"
  <2>1. Guided!Single("look", id, s) =
          {[s EXCEPT !.readings = r, !.ownership = "RecoveryRequired",
                     !.good = FALSE] : r \in BOOLEAN}
    BY DEF Guided!Single, Guided!Uses
  <2>2. ASSUME NEW u \in Snapshots, NEW r \in BOOLEAN, NEW o \in Ownerships
        PROVE  Shows([u EXCEPT !.readings = r, !.ownership = o, !.good = FALSE],
                o, u.acquisition, u.journal, u.recovery, u.clean)
    BY DEF Shows, Snapshots
  <2>3. Shows(t, "RecoveryRequired", s.acquisition, s.journal, s.recovery, s.clean)
    BY <1>2, <1>7, <2>1, <2>2 DEF Ownerships
  <2>4. s.journal = "Pending"
    BY <1>7 DEF Guided!Refuses
  <2> QED
    BY <1>7, <2>3, <2>4 DEF Shows, Fits, Consistent, UnderWay, Moves
<1>8. CASE name \in {"check", "open"}
  <2>1. Guided!Single(name, id, s) =
          {[s EXCEPT !.ownership = "RecoveryRequired", !.good = FALSE]}
    BY <1>8 DEF Guided!Single, Guided!Uses
  <2>2. ASSUME NEW u \in Snapshots, NEW o \in Ownerships
        PROVE  Shows([u EXCEPT !.ownership = o, !.good = FALSE],
                o, u.acquisition, u.journal, u.recovery, u.clean)
    BY DEF Shows, Snapshots
  <2>3. Shows(t, "RecoveryRequired", s.acquisition, s.journal, s.recovery, s.clean)
    BY <1>2, <2>1, <2>2 DEF Ownerships
  <2>4. s.journal # "None"
    BY <1>8 DEF Guided!IsSingle
  <2> QED
    BY <1>8, <2>3, <2>4 DEF Shows, Fits, Consistent, UnderWay, Moves
<1>9. CASE name = "audit"
  <2>1. Guided!Single("audit", id, s) =
          {[s EXCEPT !.audit = Guided!Result("Failed", id), !.good = FALSE]}
    BY DEF Guided!Single, Guided!Uses
  <2>2. ASSUME NEW u \in Snapshots, NEW r \in Results
        PROVE  Keeps([u EXCEPT !.audit = r, !.good = FALSE], u)
    BY DEF Keeps, Shows, Snapshots
  <2> DEFINE v == [s EXCEPT !.audit = Guided!Result("Failed", id), !.good = FALSE]
  <2>3. Keeps(v, s)
    BY <1>2, <2>2
  <2>4. t = v
    BY <1>9, <2>1
  <2> HIDE DEF v
  <2> QED
    BY <1>2, <1>9, <2>3, <2>4, KeepsFits, CalmMoves DEF Calm
<1>10. CASE name = "capture"
  <2>1. Guided!Single("capture", id, s) =
          {[s EXCEPT !.capture = Guided!Result("Failed", id), !.fresh = FALSE, !.good = FALSE]}
    BY DEF Guided!Single, Guided!Uses
  <2>2. ASSUME NEW u \in Snapshots, NEW r \in Results
        PROVE  Keeps([u EXCEPT !.capture = r, !.fresh = FALSE, !.good = FALSE], u)
    BY DEF Keeps, Shows, Snapshots
  <2> DEFINE v == [s EXCEPT !.capture = Guided!Result("Failed", id), !.fresh = FALSE, !.good = FALSE]
  <2>3. Keeps(v, s)
    BY <1>2, <2>2
  <2>4. t = v
    BY <1>10, <2>1
  <2> HIDE DEF v
  <2> QED
    BY <1>2, <1>10, <2>3, <2>4, KeepsFits, CalmMoves DEF Calm
<1>11. CASE name = "source"
  <2>1. Guided!Single("source", id, s) =
          {[s EXCEPT !.source = Guided!Result("Failed", id), !.good = FALSE]}
    BY DEF Guided!Single, Guided!Uses
  <2>2. ASSUME NEW u \in Snapshots, NEW r \in Results
        PROVE  Keeps([u EXCEPT !.source = r, !.good = FALSE], u)
    BY DEF Keeps, Shows, Snapshots
  <2> DEFINE v == [s EXCEPT !.source = Guided!Result("Failed", id), !.good = FALSE]
  <2>3. Keeps(v, s)
    BY <1>2, <2>2
  <2>4. t = v
    BY <1>11, <2>1
  <2> HIDE DEF v
  <2> QED
    BY <1>2, <1>11, <2>3, <2>4, KeepsFits, CalmMoves DEF Calm
<1>12. CASE name = "preview"
  <2>1. Guided!Single("preview", id, s) =
          {[s EXCEPT !.preview = Guided!Result("Failed", id), !.good = FALSE, !.active = FALSE]}
    BY DEF Guided!Single, Guided!Uses
  <2>2. ASSUME NEW u \in Snapshots, NEW r \in Results
        PROVE  Keeps([u EXCEPT !.preview = r, !.good = FALSE, !.active = FALSE], u)
    BY DEF Keeps, Shows, Snapshots
  <2> DEFINE v == [s EXCEPT !.preview = Guided!Result("Failed", id), !.good = FALSE, !.active = FALSE]
  <2>3. Keeps(v, s)
    BY <1>2, <2>2
  <2>4. t = v
    BY <1>12, <2>1
  <2> HIDE DEF v
  <2> QED
    BY <1>2, <1>12, <2>3, <2>4, KeepsFits, CalmMoves DEF Calm
<1>13. CASE name = "restore"
  <2>1. Guided!Single("restore", id, s) =
          {[s EXCEPT !.preview = Guided!Result("Failed", id), !.good = FALSE]}
    BY DEF Guided!Single, Guided!Uses
  <2>2. ASSUME NEW u \in Snapshots, NEW r \in Results
        PROVE  Keeps([u EXCEPT !.preview = r, !.good = FALSE], u)
    BY DEF Keeps, Shows, Snapshots
  <2> DEFINE v == [s EXCEPT !.preview = Guided!Result("Failed", id), !.good = FALSE]
  <2>3. Keeps(v, s)
    BY <1>2, <2>2
  <2>4. t = v
    BY <1>13, <2>1
  <2> HIDE DEF v
  <2> QED
    BY <1>2, <1>13, <2>3, <2>4, KeepsFits, CalmMoves DEF Calm
<1>14. CASE name \in {"apply", "startup", "start", "recover"}
  BY <1>14 DEF Guided!IsSingle
<1> QED
  BY <1>1, <1>3, <1>4, <1>5, <1>6, <1>7, <1>8, <1>9, <1>10, <1>11, <1>12, <1>13, <1>14
     DEF Guided!Commands, Guided!Uses

\* An operation that begins fits the snapshot it was accepted with.
LEMMA BeginFits ==
    ASSUME NEW s, Fits("none", s, session),
           NEW name \in Guided!Commands, NEW id \in Nat,
           ~Guided!Refuses(name, s), ~Guided!IsSingle(name, s)
    PROVE  LET begun == Guided!Begun(name, id, s)
           IN  /\ Fits(name, begun, session) /\ Moves(name, s, session, begun, session)
               /\ name \in {"check", "open"} => begun.ownership = "Checking"
               /\ name \notin {"check", "open"} => begun.ownership = s.ownership
               /\ name = "recover" => begun.recovery.state = "Running"
               /\ name \notin {"use", "load", "handoff", "look"}
<1>1. /\ s \in Snapshots /\ Guided!NotRun \in Results
      /\ Guided!Result("Running", id) \in Results /\ Guided!Result("Running", id).state = "Running"
  BY Values DEF Fits
<1>2. CASE name = "check"
  <2>1. Guided!Begun("check", id, s) = [s EXCEPT !.ownership = "Checking", !.readings = FALSE]
    BY DEF Guided!Begun
  <2>2. ASSUME NEW u \in Snapshots, NEW o \in Ownerships
        PROVE  Shows([u EXCEPT !.ownership = o, !.readings = FALSE],
                     o, u.acquisition, u.journal, u.recovery, u.clean)
    BY DEF Shows, Snapshots
  <2>3. Shows(Guided!Begun("check", id, s), "Checking", s.acquisition, s.journal, s.recovery, s.clean)
    BY <1>1, <2>1, <2>2 DEF Ownerships
  <2>4. s.journal = "None"
    BY <1>2 DEF Guided!IsSingle
  <2> QED
    BY <1>2, <2>3, <2>4 DEF Shows, Fits, Consistent, UnderWay, Stops, Guided!Uses, Moves
<1>3. CASE name = "open"
  <2> DEFINE v == [s EXCEPT !.ownership = "Checking", !.audit = Guided!NotRun, !.fresh = FALSE]
             w == [v EXCEPT !.capture = Guided!NotRun, !.apply = Guided!NotRun, !.passed = FALSE]
  <2>1. Guided!Begun("open", id, s) =
          [w EXCEPT !.startup = Guided!NotRun, !.source = Guided!NotRun, !.preview = Guided!NotRun]
    BY DEF Guided!Begun
  <2>2. ASSUME NEW u \in Snapshots, NEW o \in Ownerships, NEW n \in Results
        PROVE  Shows([u EXCEPT !.ownership = o, !.audit = n, !.fresh = FALSE],
                     o, u.acquisition, u.journal, u.recovery, u.clean)
    BY DEF Shows, Snapshots
  <2>3. ASSUME NEW u \in Snapshots, NEW n \in Results
        PROVE  Keeps([u EXCEPT !.capture = n, !.apply = n, !.passed = FALSE], u)
    BY DEF Keeps, Shows, Snapshots
  <2>4. ASSUME NEW u \in Snapshots, NEW n \in Results
        PROVE  Keeps([u EXCEPT !.startup = n, !.source = n, !.preview = n], u)
    BY DEF Keeps, Shows, Snapshots
  <2>5. Shows(v, "Checking", s.acquisition, s.journal, s.recovery, s.clean)
    BY <1>1, <2>2 DEF Ownerships
  <2> HIDE DEF v
  <2>6. Shows(w, "Checking", s.acquisition, s.journal, s.recovery, s.clean)
    BY <1>1, <2>3, <2>5 DEF Keeps, Shows
  <2> HIDE DEF w
  <2>7. Shows(Guided!Begun("open", id, s), "Checking", s.acquisition, s.journal, s.recovery, s.clean)
    BY <1>1, <2>1, <2>4, <2>6, ZenonT(60) DEF Keeps, Shows
  <2>8. s.journal = "None"
    BY <1>3 DEF Guided!IsSingle
  <2> QED
    BY <1>3, <2>7, <2>8 DEF Shows, Fits, Consistent, UnderWay, Stops, Guided!Uses, Moves
<1>4. CASE name = "audit"
  <2>1. Guided!Begun("audit", id, s) = [s EXCEPT !.audit = Guided!Result("Running", id)]
    BY DEF Guided!Begun
  <2>2. ASSUME NEW u \in Snapshots, NEW r \in Results PROVE Keeps([u EXCEPT !.audit = r], u)
    BY DEF Keeps, Shows, Snapshots
  <2>3. Keeps(Guided!Begun("audit", id, s), s)
    BY <1>1, <2>1, <2>2
  <2>4. s.ownership = "SessionOpen"
    BY <1>4 DEF Guided!IsSingle
  <2> QED
    BY <1>4, <2>3, <2>4 DEF Keeps, Shows, Fits, Consistent, UnderWay, Stops, Guided!Uses, Moves
<1>5. CASE name = "capture"
  <2> DEFINE v == [s EXCEPT !.capture = Guided!Result("Running", id), !.fresh = FALSE]
  <2>1. Guided!Begun("capture", id, s) = [v EXCEPT !.passed = FALSE, !.startup = Guided!NotRun]
    BY DEF Guided!Begun
  <2>2. ASSUME NEW u \in Snapshots, NEW r \in Results
        PROVE  Keeps([u EXCEPT !.capture = r, !.fresh = FALSE], u)
    BY DEF Keeps, Shows, Snapshots
  <2>3. ASSUME NEW u \in Snapshots, NEW n \in Results
        PROVE  Keeps([u EXCEPT !.passed = FALSE, !.startup = n], u)
    BY DEF Keeps, Shows, Snapshots
  <2>4. Keeps(v, s)
    BY <1>1, <2>2
  <2> HIDE DEF v
  <2>5. Keeps(Guided!Begun("capture", id, s), v)
    BY <1>1, <2>1, <2>3, <2>4, ZenonT(60) DEF Keeps, Shows
  <2>6. s.ownership = "SessionOpen"
    BY <1>5 DEF Guided!IsSingle
  <2> QED
    BY <1>5, <2>4, <2>5, <2>6 DEF Keeps, Shows, Fits, Consistent, UnderWay, Stops, Guided!Uses, Moves
<1>6. CASE name = "apply"
  <2>1. Guided!Begun("apply", id, s) = [s EXCEPT !.apply = Guided!Result("Running", id)]
    BY DEF Guided!Begun
  <2>2. ASSUME NEW u \in Snapshots, NEW r \in Results PROVE Keeps([u EXCEPT !.apply = r], u)
    BY DEF Keeps, Shows, Snapshots
  <2>3. Keeps(Guided!Begun("apply", id, s), s)
    BY <1>1, <2>1, <2>2
  <2>4. s.ownership = "SessionOpen"
    BY <1>6 DEF Guided!Refuses
  <2> QED
    BY <1>6, <2>3, <2>4 DEF Keeps, Shows, Fits, Consistent, UnderWay, Stops, Guided!Uses, Moves
<1>7. CASE name = "startup"
  <2>1. Guided!Begun("startup", id, s) =
          [s EXCEPT !.startup = Guided!Result("Running", id), !.fresh = FALSE, !.passed = FALSE]
    BY DEF Guided!Begun
  <2>2. ASSUME NEW u \in Snapshots, NEW r \in Results
        PROVE  Keeps([u EXCEPT !.startup = r, !.fresh = FALSE, !.passed = FALSE], u)
    BY DEF Keeps, Shows, Snapshots
  <2>3. Keeps(Guided!Begun("startup", id, s), s)
    BY <1>1, <2>1, <2>2
  <2>4. s.ownership = "SessionOpen"
    BY <1>7 DEF Guided!Refuses
  <2> QED
    BY <1>7, <2>3, <2>4 DEF Keeps, Shows, Fits, Consistent, UnderWay, Stops, Guided!Uses, Moves
<1>8. CASE name = "start"
  <2>1. Guided!Begun("start", id, s) =
          [s EXCEPT !.acquisition = "Starting", !.clean = FALSE,
                    !.source = Guided!NotRun, !.preview = Guided!NotRun]
    BY DEF Guided!Begun
  <2>2. ASSUME NEW u \in Snapshots, NEW n \in Results, NEW a \in Acquisitions
        PROVE  Shows([u EXCEPT !.acquisition = a, !.clean = FALSE, !.source = n, !.preview = n],
                     u.ownership, a, u.journal, u.recovery, FALSE)
    BY DEF Shows, Snapshots
  <2>3. Shows(Guided!Begun("start", id, s), s.ownership, "Starting", s.journal, s.recovery, FALSE)
    BY <1>1, <2>1, <2>2 DEF Acquisitions
  <2>4. s.ownership = "SessionOpen" /\ session = "none"
    BY <1>8 DEF Guided!Refuses, Guided!StartRefused
  <2> QED
    BY <1>8, <2>3, <2>4 DEF Shows, Fits, Consistent, UnderWay, Stops, Guided!Uses, Moves
<1>9. CASE name = "source"
  <2>1. Guided!Begun("source", id, s) =
          [s EXCEPT !.source = Guided!Result("Running", id), !.fresh = FALSE]
    BY DEF Guided!Begun
  <2>2. ASSUME NEW u \in Snapshots, NEW r \in Results
        PROVE  Keeps([u EXCEPT !.source = r, !.fresh = FALSE], u)
    BY DEF Keeps, Shows, Snapshots
  <2>3. Keeps(Guided!Begun("source", id, s), s)
    BY <1>1, <2>1, <2>2
  <2>4. s.acquisition = "Running"
    BY <1>9 DEF Guided!IsSingle
  <2> QED
    BY <1>9, <2>3, <2>4 DEF Keeps, Shows, Fits, Consistent, UnderWay, Stops, Guided!Uses, Moves
<1>10. CASE name \in {"preview", "restore"}
  <2>1. \/ Guided!Begun(name, id, s) =
              [s EXCEPT !.preview = Guided!Result("Running", id), !.fresh = FALSE]
        \/ Guided!Begun(name, id, s) = [s EXCEPT !.preview = Guided!Result("Running", id)]
    BY <1>10 DEF Guided!Begun
  <2>2. ASSUME NEW u \in Snapshots, NEW r \in Results
        PROVE  Keeps([u EXCEPT !.preview = r, !.fresh = FALSE], u)
    BY DEF Keeps, Shows, Snapshots
  <2>3. ASSUME NEW u \in Snapshots, NEW r \in Results PROVE Keeps([u EXCEPT !.preview = r], u)
    BY DEF Keeps, Shows, Snapshots
  <2>4. Keeps(Guided!Begun(name, id, s), s)
    BY <1>1, <2>1, <2>2, <2>3
  <2>5. s.acquisition = "Running"
    BY <1>10 DEF Guided!IsSingle
  <2> QED
    BY <1>10, <2>4, <2>5 DEF Keeps, Shows, Fits, Consistent, UnderWay, Stops, Guided!Uses, Moves
<1>11. CASE name = "recover"
  <2>1. Guided!Begun("recover", id, s) = [s EXCEPT !.recovery = Guided!Result("Running", id)]
    BY DEF Guided!Begun
  <2>2. ASSUME NEW u \in Snapshots, NEW r \in Results
        PROVE  Shows([u EXCEPT !.recovery = r], u.ownership, u.acquisition, u.journal, r, u.clean)
    BY DEF Shows, Snapshots
  <2>3. Shows(Guided!Begun("recover", id, s), s.ownership, s.acquisition, s.journal,
              Guided!Result("Running", id), s.clean)
    BY <1>1, <2>1, <2>2
  <2>4. s.journal = "Pending"
    BY <1>11 DEF Guided!Refuses
  <2> QED
    BY <1>1, <1>11, <2>3, <2>4 DEF Shows, Fits, Consistent, UnderWay, Stops, Guided!Uses, Moves
<1>12. CASE name \in {"use", "useOther", "load", "export", "handoff", "unconfirm", "look"}
  BY <1>12 DEF Guided!IsSingle
<1> QED
  BY <1>2, <1>3, <1>4, <1>5, <1>6, <1>7, <1>8, <1>9, <1>10, <1>11, <1>12 DEF Guided!Commands

----------------------------------------------------------------------------
\* What a stop leaves of a held session.
LEMMA StopFits ==
    ASSUME NEW s, NEW name \in Stops, Fits(name, s, "held"),
           NEW e \in Guided!StopDiagnosticAcquisition(s)
    PROVE  /\ Fits("none", e.s, e.session)
           /\ e.session \in {"none", "held", "foreign", "orphan"}
           /\ e.session = "none" => e.s.journal = "None"
           /\ e.session \in {"foreign", "orphan"} => e.s.journal = "Pending"
           /\ Moves("stop", s, "held", e.s, e.session)
<1>1. s \in Snapshots /\ s.recovery.state # "Running" /\ ~s.clean
  BY DEF Fits, Consistent, UnderWay, Stops, Guided!Uses, Moves
<1>2. CASE e \in Guided!Foreign([s EXCEPT !.good = FALSE])
  <2>1. ASSUME NEW u \in Snapshots PROVE Keeps([u EXCEPT !.good = FALSE], u)
    BY DEF Keeps, Shows, Snapshots
  <2>2. Keeps([s EXCEPT !.good = FALSE], s)
    BY <1>1, <2>1
  <2> QED
    BY <1>1, <1>2, <2>2, ForeignFits DEF Keeps, Shows, Moves, Guided!Uses
<1>3. ASSUME NEW u \in Snapshots, NEW a \in Acquisitions, NEW j \in Guided!Journals
      PROVE  Shows([u EXCEPT !.acquisition = a, !.good = FALSE, !.journal = j],
                   u.ownership, a, j, u.recovery, u.clean)
  BY DEF Shows, Snapshots
<1>4. "Failed" \in Acquisitions /\ "Stopped" \in Acquisitions
      /\ "None" \in Guided!Journals /\ "Pending" \in Guided!Journals
      /\ "RecoveryRequired" \in Ownerships
  BY DEF Acquisitions, Guided!Journals, Ownerships
<1>5. CASE e = Guided!Ends([s EXCEPT !.acquisition = "Stopped", !.clean = TRUE, !.good = TRUE,
                    !.active = FALSE, !.deviates = FALSE, !.journal = "None"], "none")
  <2>1. ASSUME NEW u \in Snapshots, NEW a \in Acquisitions
        PROVE  Shows([u EXCEPT !.acquisition = a, !.clean = TRUE, !.good = TRUE],
                     u.ownership, a, u.journal, u.recovery, TRUE)
    BY DEF Shows, Snapshots
  <2>2. ASSUME NEW u \in Snapshots, NEW j \in Guided!Journals
        PROVE  Shows([u EXCEPT !.active = FALSE, !.deviates = FALSE, !.journal = j],
                     u.ownership, u.acquisition, j, u.recovery, u.clean)
    BY DEF Shows, Snapshots
  <2> DEFINE v == [s EXCEPT !.acquisition = "Stopped", !.clean = TRUE, !.good = TRUE]
  <2>3. Shows(v, s.ownership, "Stopped", s.journal, s.recovery, TRUE)
    BY <1>1, <1>4, <2>1
  <2>4. e.s = [v EXCEPT !.active = FALSE, !.deviates = FALSE, !.journal = "None"] /\ e.session = "none"
    BY <1>5, EndsFields
  <2> HIDE DEF v
  <2> DEFINE w == [v EXCEPT !.active = FALSE, !.deviates = FALSE, !.journal = "None"]
  <2>5. Shows(w, v.ownership, v.acquisition, "None", v.recovery, v.clean)
    <3>1. v \in Snapshots
      BY <2>3 DEF Shows
    <3> QED
      BY <1>4, <2>2, <3>1
  <2>6. Shows(e.s, s.ownership, "Stopped", "None", s.recovery, TRUE)
    <3>1. e.s = w
      BY <2>4
    <3> HIDE DEF w
    <3> QED
      BY <2>3, <2>5, <3>1 DEF Shows
  <2> QED
    BY <1>1, <2>4, <2>6 DEF Shows, Fits, Consistent, UnderWay, Sessions, Stops, Guided!Uses, Moves
<1>6. CASE e = Guided!Ends([s EXCEPT !.acquisition = "Failed", !.good = FALSE,
                                     !.journal = "Pending"], "held")
  <2>1. /\ e.session = "held"
        /\ e.s = [s EXCEPT !.acquisition = "Failed", !.good = FALSE, !.journal = "Pending"]
    BY <1>6, EndsFields
  <2> DEFINE w == [s EXCEPT !.acquisition = "Failed", !.good = FALSE, !.journal = "Pending"]
  <2>2. Shows(w, s.ownership, "Failed", "Pending", s.recovery, s.clean)
    BY <1>1, <1>3, <1>4
  <2>3. e.s = w
    BY <2>1
  <2> HIDE DEF w
  <2> QED
    BY <1>1, <2>1, <2>2, <2>3 DEF Shows, Fits, Consistent, UnderWay, Sessions, Stops, Guided!Uses, Moves
<1>7. CASE e = Guided!Ends([s EXCEPT !.acquisition = "Failed", !.good = FALSE, !.journal = "Pending",
                    !.ownership = "RecoveryRequired"], "orphan")
  <2>1. ASSUME NEW u \in Snapshots, NEW a \in Acquisitions, NEW j \in Guided!Journals,
               NEW o \in Ownerships
        PROVE  Shows([u EXCEPT !.acquisition = a, !.good = FALSE, !.journal = j, !.ownership = o],
                     o, a, j, u.recovery, u.clean)
    BY DEF Shows, Snapshots
  <2>2. /\ e.session = "orphan"
        /\ e.s = [s EXCEPT !.acquisition = "Failed", !.good = FALSE, !.journal = "Pending",
                           !.ownership = "RecoveryRequired"]
    BY <1>7, EndsFields
  <2> DEFINE w == [s EXCEPT !.acquisition = "Failed", !.good = FALSE, !.journal = "Pending",
                            !.ownership = "RecoveryRequired"]
  <2>3. Shows(w, "RecoveryRequired", "Failed", "Pending", s.recovery, s.clean)
    BY <1>1, <1>4, <2>1
  <2>4. e.s = w
    BY <2>2
  <2> HIDE DEF w
  <2> QED
    BY <1>1, <2>2, <2>3, <2>4 DEF Shows, Fits, Consistent, UnderWay, Sessions, Stops, Guided!Uses, Moves
<1> QED
  BY <1>2, <1>5, <1>6, <1>7 DEF Guided!StopDiagnosticAcquisition

\* What a stop leaves is an end.
LEMMA EndRecord ==
    ASSUME NEW s, NEW e \in Guided!StopDiagnosticAcquisition(s)
    PROVE  e = Guided!Ends(e.s, e.session)
<1>1. PICK t, held : e = Guided!Ends(t, held)
  BY DEF Guided!StopDiagnosticAcquisition, Guided!Foreign
<1> QED
  BY <1>1, EndsFields

\* A session that is given up, with all it showed or with what is left.
LEMMA ReleasedFields ==
    ASSUME NEW s \in Snapshots
    PROVE  /\ Shows(Guided!Released(s), "Disconnected", s.acquisition, s.journal, s.recovery, s.clean)
           /\ Shows(Guided!Forgotten(s), "Disconnected", "NotRun", s.journal, s.recovery, FALSE)
<1>1. ASSUME NEW u \in Snapshots, NEW o \in Ownerships
      PROVE  Shows([u EXCEPT !.ownership = o, !.readings = FALSE, !.handoff = FALSE],
                   o, u.acquisition, u.journal, u.recovery, u.clean)
  BY DEF Shows, Snapshots
<1>2. Shows(Guided!Released(s), "Disconnected", s.acquisition, s.journal, s.recovery, s.clean)
  BY <1>1 DEF Guided!Released, Ownerships
<1> DEFINE r == Guided!Released(s)
           v == [r EXCEPT !.audit = Guided!NotRun, !.loaded = FALSE, !.other = FALSE, !.fresh = FALSE]
           w == [v EXCEPT !.capture = Guided!NotRun, !.apply = Guided!NotRun, !.passed = FALSE]
           x == [w EXCEPT !.startup = Guided!NotRun, !.acquisition = "NotRun", !.clean = FALSE]
<1>3. Guided!Forgotten(s) =
        [x EXCEPT !.source = Guided!NotRun, !.preview = Guided!NotRun, !.good = FALSE]
  BY DEF Guided!Forgotten
<1> HIDE DEF r
<1>4. ASSUME NEW u \in Snapshots, NEW n \in Results
      PROVE  /\ Keeps([u EXCEPT !.audit = n, !.loaded = FALSE, !.other = FALSE, !.fresh = FALSE], u)
             /\ Keeps([u EXCEPT !.capture = n, !.apply = n, !.passed = FALSE], u)
             /\ Keeps([u EXCEPT !.source = n, !.preview = n, !.good = FALSE], u)
  BY ZenonT(60) DEF Keeps, Shows, Snapshots
<1>5. ASSUME NEW u \in Snapshots, NEW n \in Results, NEW a \in Acquisitions
      PROVE  Shows([u EXCEPT !.startup = n, !.acquisition = a, !.clean = FALSE],
                   u.ownership, a, u.journal, u.recovery, FALSE)
  BY DEF Shows, Snapshots
<1>6. Shows(v, "Disconnected", s.acquisition, s.journal, s.recovery, s.clean)
  <2>1. r \in Snapshots /\ Shows(r, "Disconnected", s.acquisition, s.journal, s.recovery, s.clean)
    BY <1>2 DEF r, Shows
  <2>2. Keeps(v, r)
    BY <1>4, <2>1, Values
  <2> QED
    BY <2>1, <2>2 DEF Keeps, Shows
<1> HIDE DEF v
<1>7. Shows(w, "Disconnected", s.acquisition, s.journal, s.recovery, s.clean)
  <2>1. v \in Snapshots
    BY <1>6, SMTT(40) DEF Shows
  <2>2. Keeps(w, v)
    BY <1>4, <2>1, Values
  <2> QED
    BY <1>6, <2>2 DEF Keeps, Shows
<1> HIDE DEF w
<1>8. Shows(x, "Disconnected", "NotRun", s.journal, s.recovery, FALSE)
  <2>1. w \in Snapshots /\ "NotRun" \in Acquisitions
    BY <1>7 DEF Shows, Acquisitions
  <2>2. Shows(x, w.ownership, "NotRun", w.journal, w.recovery, FALSE)
    BY <1>5, <2>1, Values
  <2> QED
    BY <1>7, <2>2 DEF Shows
<1> HIDE DEF x
<1>9. Shows(Guided!Forgotten(s), "Disconnected", "NotRun", s.journal, s.recovery, FALSE)
  <2>1. x \in Snapshots
    BY <1>8, SMTT(40) DEF Shows
  <2> DEFINE y == [x EXCEPT !.source = Guided!NotRun, !.preview = Guided!NotRun, !.good = FALSE]
  <2>2. Keeps(y, x)
    BY <1>4, <2>1, Values
  <2>3. Guided!Forgotten(s) = y
    BY <1>3
  <2> HIDE DEF y
  <2> QED
    BY <1>8, <2>2, <2>3 DEF Keeps, Shows
<1> QED
  BY <1>2, <1>9

\* The session is released when there is nothing to clean, or nothing that
\* may be cleaned.
LEMMA ReleaseFits ==
    ASSUME NEW s, NEW held, Fits("none", s, held)
    PROVE  LET e == Guided!ReleaseAfter(Guided!Ends(s, held))
           IN  Fits("none", e.s, e.session) /\ Moves("release", s, held, e.s, e.session)
<1> DEFINE e == Guided!ReleaseAfter(Guided!Ends(s, held))
<1>1. s \in Snapshots /\ held \in Sessions
  BY DEF Fits
<1>2. /\ Guided!Ends(s, held).s = s /\ Guided!Ends(s, held).session = held
  BY EndsFields
<1>3. CASE held = "none"
  <2>1. e = Guided!Ends(Guided!Forgotten(s), "none")
    BY <1>2, <1>3 DEF Guided!ReleaseAfter
  <2>2. e.s = Guided!Forgotten(s) /\ e.session = "none"
    BY <2>1, EndsFields
  <2>3. Shows(e.s, "Disconnected", "NotRun", s.journal, s.recovery, FALSE)
    BY <1>1, <2>2, ReleasedFields
  <2> HIDE DEF e
  <2>4. Fits("none", e.s, e.session) /\ Moves("release", s, held, e.s, e.session)
    BY <2>2, <2>3 DEF Shows, Fits, Consistent, UnderWay, Sessions, Stops, Guided!Uses, Moves
  <2> QED
    BY <2>4 DEF e
<1>4. CASE held = "held"
  <2>1. e = Guided!Ends(s, held)
    BY <1>2, <1>4 DEF Guided!ReleaseAfter
  <2> QED
    BY <1>2, <1>4, <2>1 DEF Moves
<1>5. CASE held \in {"foreign", "orphan"}
  <2> DEFINE t == [Guided!Released(s) EXCEPT !.good = FALSE]
  <2>1. e = Guided!Ends(t, "none")
    BY <1>2, <1>5 DEF Guided!ReleaseAfter
  <2>2. e.s = t /\ e.session = "none"
    BY <2>1, EndsFields
  <2>3. ASSUME NEW u \in Snapshots PROVE Keeps([u EXCEPT !.good = FALSE], u)
    BY DEF Keeps, Shows, Snapshots
  <2>4. Shows(t, "Disconnected", s.acquisition, s.journal, s.recovery, s.clean)
    <3>1. Shows(Guided!Released(s), "Disconnected", s.acquisition, s.journal, s.recovery, s.clean)
      BY <1>1, ReleasedFields
    <3>2. Keeps(t, Guided!Released(s))
      BY <2>3, <3>1 DEF Shows
    <3> HIDE DEF t
    <3> QED
      BY <3>1, <3>2 DEF Keeps, Shows
  <2> HIDE DEF e, t
  <2>5. Fits("none", e.s, e.session) /\ Moves("release", s, held, e.s, e.session)
    BY <1>5, <2>2, <2>4 DEF Shows, Fits, Consistent, UnderWay, Sessions, Stops, Guided!Uses, Moves
  <2> QED
    BY <2>5 DEF e
<1> QED
  BY <1>1, <1>3, <1>4, <1>5 DEF Sessions

----------------------------------------------------------------------------
(* The ends of each operation, the branch of Ended that is its own.        *)

\* Of a check.
LEMMA CheckEnded ==
    ASSUME NEW s, NEW id
    PROVE  Guided!Ended("check", id, s) =
             {Guided!Ends([s EXCEPT !.ownership = o, !.good = (o = "Idle"),
                                    !.readings = (o # "Failed")], session)
                : o \in Guided!ProbeOutcomes}
BY DEF Guided!Ended, Guided!Uses

\* Of the opening of a session.
LEMMA OpenEnded ==
    ASSUME NEW s, NEW id
    PROVE  Guided!Ended("open", id, s) =
             {Guided!Ends([s EXCEPT !.ownership = o, !.good = (o = "SessionOpen"),
                                    !.uncertain = FALSE], session)
                : o \in {"SessionOpen", "InUse", "Failed"}}
BY DEF Guided!Ended, Guided!Uses

\* Of an apply.
LEMMA ApplyEnded ==
    ASSUME NEW s, NEW id
    PROVE  Guided!Ended("apply", id, s) =
             {Guided!Ends([s EXCEPT !.apply = Guided!Result("Passed", id), !.fresh = FALSE,
                             !.good = TRUE, !.passed = FALSE, !.startup = Guided!NotRun], session)}
             \cup Guided!Fails([s EXCEPT !.apply = Guided!Result("Failed", id), !.fresh = FALSE,
                                  !.good = FALSE, !.passed = FALSE, !.startup = Guided!NotRun])
BY DEF Guided!Ended, Guided!Uses

\* Of a startup.
LEMMA StartupEnded ==
    ASSUME NEW s, NEW id
    PROVE  Guided!Ended("startup", id, s) =
             {Guided!Ends([s EXCEPT !.startup = Guided!Result("Passed", id), !.passed = TRUE,
                             !.fresh = TRUE, !.live = "equal", !.good = TRUE], session)}
             \cup {Guided!Ends([t EXCEPT !.startup = Guided!Result("Failed", id), !.good = FALSE], session)
                     : t \in Guided!Lost(s)}
BY DEF Guided!Ended, Guided!Uses

\* Of a start.
LEMMA StartEnded ==
    ASSUME NEW s, NEW id
    PROVE  LET failed == Guided!StartFailed(s)
           IN  Guided!Ended("start", id, s) =
                 {Guided!Ends([s EXCEPT !.acquisition = "Running", !.good = TRUE], "held"),
                  Guided!Ends([failed EXCEPT !.journal = "Pending"], "held")}
                 \cup {Guided!Ends(t, "none") : t \in Guided!Lost(failed)}
                 \cup {Guided!Ends([t EXCEPT !.ownership = "RecoveryRequired",
                                     !.journal = "Pending"], "none") : t \in Guided!Lost(failed)}
BY DEF Guided!Ended, Guided!Uses

\* Of a source change.
LEMMA SourceEnded ==
    ASSUME NEW s, NEW id
    PROVE  Guided!Ended("source", id, s) =
             {Guided!Ends([s EXCEPT !.source = Guided!Result("Passed", id), !.deviates = d,
                             !.good = TRUE], session) : d \in BOOLEAN}
             \cup {Guided!Ends([s EXCEPT !.source = Guided!Result("Failed", id), !.good = FALSE], session)}
             \cup Guided!Foreign(s)
BY DEF Guided!Ended, Guided!Uses

\* Of a preview.
LEMMA PreviewEnded ==
    ASSUME NEW s, NEW id
    PROVE  \A e \in Guided!Ended("preview", id, s) :
             \/ e = Guided!Ends([s EXCEPT !.preview = Guided!Result("Active", id), !.active = TRUE,
                                      !.good = TRUE], session)
             \/ \E a \in BOOLEAN :
                   e = Guided!Ends([s EXCEPT !.preview = Guided!Result("Failed", id), !.active = a,
                                      !.good = FALSE], session)
             \/ e \in Guided!Foreign(s)
<1>1. Guided!Ended("preview", id, s) =
        {Guided!Ends([s EXCEPT !.preview = Guided!Result("Active", id), !.active = TRUE,
                        !.good = TRUE], session)}
        \cup {Guided!Ends([s EXCEPT !.preview = Guided!Result("Failed", id), !.active = a,
                             !.good = FALSE], session) : a \in BOOLEAN}
        \cup Guided!Foreign(s)
  BY DEF Guided!Ended, Guided!Uses
<1> QED
  BY Zenon, <1>1

\* Of its restore.
LEMMA RestoreEnded ==
    ASSUME NEW s, NEW id
    PROVE  \A e \in Guided!Ended("restore", id, s) :
             \/ e = Guided!Ends([s EXCEPT !.preview = Guided!Result("Restored", id), !.active = FALSE,
                                      !.good = TRUE], session)
             \/ \E a \in BOOLEAN :
                   e = Guided!Ends([s EXCEPT !.preview = Guided!Result("Failed", id), !.active = a,
                                      !.good = FALSE], session)
             \/ e \in Guided!Foreign(s)
<1>1. Guided!Ended("restore", id, s) =
        {Guided!Ends([s EXCEPT !.preview = Guided!Result("Restored", id), !.active = FALSE,
                        !.good = TRUE], session)}
        \cup {Guided!Ends([s EXCEPT !.preview = Guided!Result("Failed", id), !.active = a,
                             !.good = FALSE], session) : a \in BOOLEAN}
        \cup Guided!Foreign(s)
  BY DEF Guided!Ended, Guided!Uses
<1> QED
  BY Zenon, <1>1

\* Of a stop, of a release and of a project that is selected.
LEMMA StopEnded ==
    ASSUME NEW s, NEW id
    PROVE  /\ Guided!Ended("stop", id, s) = Guided!StopDiagnosticAcquisition(s)
           /\ Guided!Ended("release", id, s) =
                {Guided!ReleaseAfter(e) : e \in Guided!StopDiagnosticAcquisition(s)}
           /\ \A name \in Guided!Uses : Guided!Ended(name, id, s) =
                {IF e.session = "none" THEN Guided!Ends(t, "none") ELSE e
                   : e \in Guided!StopDiagnosticAcquisition(s), t \in Guided!Single(name, id, s)}
BY DEF Guided!Ended, Guided!Uses

\* Of a recovery.
LEMMA RecoverEnded ==
    ASSUME NEW s, NEW id
    PROVE  Guided!Ended("recover", id, s) =
             {Guided!Ends([s EXCEPT !.recovery = Guided!Result("Recovered", id), !.good = TRUE,
                             !.journal = "None", !.ownership = "Disconnected",
                             !.acquisition = "NotRun", !.clean = FALSE,
                             !.source = Guided!NotRun, !.preview = Guided!NotRun,
                             !.active = FALSE, !.deviates = FALSE], "none"),
              Guided!Ends([s EXCEPT !.recovery = Guided!Result("Failed", id), !.good = FALSE,
                             !.ownership = "RecoveryRequired"], session)}
BY DEF Guided!Ended, Guided!Uses

----------------------------------------------------------------------------
\* An operation that has come to rest, with the session it had.
Quiet(e, s, held) ==
    Fits("none", e.s, e.session) /\ Calm(e.s, s) /\ e.session = held

\* What is shown, and the session that is left, is all an end is judged by.
LEMMA EndShown ==
    ASSUME NEW s, NEW u, NEW t, NEW held, Keeps(t, u), Fits("none", u, held), Calm(u, s),
           NEW e, e = Guided!Ends(t, held)
    PROVE  Quiet(e, s, held)
BY EndsFields, KeepsFits DEF Quiet, Calm

\* The probe of an idle controller shows another ownership.
LEMMA CheckEnds ==
    ASSUME NEW s, NEW name \in {"check", "open"}, Fits(name, s, session), NEW id \in Nat,
           NEW e \in Guided!Ended(name, id, s)
    PROVE  Fits("none", e.s, e.session) /\ Moves(name, s, session, e.s, e.session)
<1>1. s \in Snapshots
  BY DEF Fits
<1>2. ASSUME NEW u \in Snapshots, NEW o \in Ownerships, NEW g \in BOOLEAN, NEW r \in BOOLEAN
      PROVE  Shows([u EXCEPT !.ownership = o, !.good = g, !.readings = r],
                   o, u.acquisition, u.journal, u.recovery, u.clean)
  BY ZenonT(60) DEF Shows, Snapshots
<1>3. ASSUME NEW u \in Snapshots, NEW o \in Ownerships, NEW g \in BOOLEAN
      PROVE  Shows([u EXCEPT !.ownership = o, !.good = g, !.uncertain = FALSE],
                   o, u.acquisition, u.journal, u.recovery, u.clean)
  BY ZenonT(60) DEF Shows, Snapshots
<1>4. PICK o \in Ownerships \ {"Disconnected"} :
        /\ Shows(e.s, o, s.acquisition, s.journal, s.recovery, s.clean)
        /\ e.session = session
        /\ o = "SessionOpen" => name = "open"
  <2>1. CASE name = "check"
    <3>1. Guided!Ended("check", id, s) =
            {Guided!Ends([s EXCEPT !.ownership = o, !.good = (o = "Idle"),
                                   !.readings = (o # "Failed")], session)
               : o \in Guided!ProbeOutcomes}
      BY CheckEnded, ZenonT(60)
    <3>2. PICK o \in Guided!ProbeOutcomes :
            e = Guided!Ends([s EXCEPT !.ownership = o, !.good = (o = "Idle"),
                                   !.readings = (o # "Failed")], session)
      BY <2>1, <3>1
    <3> DEFINE g == o = "Idle"
               r == o # "Failed"
               t == [s EXCEPT !.ownership = o, !.good = g, !.readings = r]
    <3>3. e = Guided!Ends(t, session)
      BY <3>2
    <3>4. o \in Ownerships \ {"Disconnected", "SessionOpen"} /\ g \in BOOLEAN /\ r \in BOOLEAN
      BY <3>2 DEF Ownerships, Guided!ProbeOutcomes
    <3> HIDE DEF g, r
    <3>5. Shows(t, o, s.acquisition, s.journal, s.recovery, s.clean)
      BY <1>1, <1>2, <3>4
    <3> HIDE DEF t
    <3> QED
      BY <2>1, <3>3, <3>4, <3>5, EndsFields
  <2>2. CASE name = "open"
    <3>1. Guided!Ended("open", id, s) =
            {Guided!Ends([s EXCEPT !.ownership = o, !.good = (o = "SessionOpen"),
                                   !.uncertain = FALSE], session)
               : o \in {"SessionOpen", "InUse", "Failed"}}
      BY OpenEnded, ZenonT(60)
    <3>2. PICK o \in {"SessionOpen", "InUse", "Failed"} :
            e = Guided!Ends([s EXCEPT !.ownership = o, !.good = (o = "SessionOpen"),
                                   !.uncertain = FALSE], session)
      BY <2>2, <3>1
    <3> DEFINE g == o = "SessionOpen"
               t == [s EXCEPT !.ownership = o, !.good = g, !.uncertain = FALSE]
    <3>3. e = Guided!Ends(t, session)
      BY <3>2
    <3>4. o \in Ownerships \ {"Disconnected"} /\ g \in BOOLEAN
      BY DEF Ownerships
    <3> HIDE DEF g
    <3>5. Shows(t, o, s.acquisition, s.journal, s.recovery, s.clean)
      BY <1>1, <1>3, <3>4
    <3> HIDE DEF t
    <3> QED
      BY <2>2, <3>3, <3>4, <3>5, EndsFields
  <2> QED
    BY <2>1, <2>2
<1>5. Moves(name, s, session, e.s, e.session)
  BY <1>4 DEF Shows, Moves
<1> QED
  BY <1>4, <1>5 DEF Shows, Fits, Consistent, UnderWay, Sessions, Stops, Guided!Uses

\* An audit ends with its result, or meets another program.
LEMMA AuditEnds ==
    ASSUME NEW s, Fits("audit", s, session), NEW id \in Nat
    PROVE  \A e \in Guided!Ended("audit", id, s) : Quiet(e, s, session)
<1>1. Guided!Ended("audit", id, s) =
        {Guided!Ends([s EXCEPT !.audit = Guided!Result(r, id), !.good = (r = "Ready")], session)
           : r \in {"Ready", "Blocking"}}
        \cup {Guided!Ends([t EXCEPT !.audit = Guided!Result("Failed", id), !.good = FALSE], session)
                : t \in Guided!Lost(s)}
  BY DEF Guided!Ended, Guided!Uses
<1>2. s \in Snapshots /\ Fits("none", s, session) /\ Calm(s, s)
  BY AtRest DEF Stops, Guided!Uses, Calm
<1>3. \A t \in Guided!Lost(s) : t \in Snapshots /\ Fits("none", t, session) /\ Calm(t, s)
  BY <1>2, LostFits DEF Fits
<1>4. ASSUME NEW u \in Snapshots, NEW r \in Results, NEW g \in BOOLEAN
      PROVE  Keeps([u EXCEPT !.audit = r, !.good = g], u)
  BY DEF Keeps, Shows, Snapshots
<1>5. ASSUME NEW e, NEW r \in {"Ready", "Blocking"},
             e = Guided!Ends([s EXCEPT !.audit = Guided!Result(r, id), !.good = (r = "Ready")],
                             session)
      PROVE  Quiet(e, s, session)
  <2> DEFINE g == r = "Ready"
             v == [s EXCEPT !.audit = Guided!Result(r, id), !.good = g]
  <2>1. e = Guided!Ends(v, session)
    BY <1>5
  <2>2. g \in BOOLEAN /\ Guided!Result(r, id) \in Results
    BY Values
  <2> HIDE DEF g
  <2>3. Keeps(v, s)
    BY <1>2, <1>4, <2>2
  <2> HIDE DEF v
  <2> QED
    BY <1>2, <2>1, <2>3, EndShown
<1>6. ASSUME NEW e, NEW t \in Guided!Lost(s),
             e = Guided!Ends([t EXCEPT !.audit = Guided!Result("Failed", id), !.good = FALSE],
                             session)
      PROVE  Quiet(e, s, session)
  <2> DEFINE v == [t EXCEPT !.audit = Guided!Result("Failed", id), !.good = FALSE]
  <2>1. Keeps(v, t)
    BY <1>3, <1>4, Values
  <2>2. e = Guided!Ends(v, session)
    BY <1>6
  <2> HIDE DEF v
  <2> QED
    BY <1>3, <2>1, <2>2, EndShown
<1> QED
  BY Zenon, <1>1, <1>5, <1>6

\* And a capture.
LEMMA CaptureEnds ==
    ASSUME NEW s, Fits("capture", s, session), NEW id \in Nat
    PROVE  \A e \in Guided!Ended("capture", id, s) : Quiet(e, s, session)
<1>1. Guided!Ended("capture", id, s) =
        {Guided!Ends([s EXCEPT !.capture = Guided!Result("Complete", id), !.fresh = TRUE,
                               !.live = l, !.good = TRUE], session)
           : l \in {"equal", "differs", "blocked"}}
        \cup {Guided!Ends([t EXCEPT !.capture = Guided!Result("Failed", id), !.good = FALSE], session)
                : t \in Guided!Lost(s)}
  BY DEF Guided!Ended, Guided!Uses
<1>2. s \in Snapshots /\ Fits("none", s, session) /\ Calm(s, s)
  BY AtRest DEF Stops, Guided!Uses, Calm
<1>3. \A t \in Guided!Lost(s) : t \in Snapshots /\ Fits("none", t, session) /\ Calm(t, s)
  BY <1>2, LostFits DEF Fits
<1>4. ASSUME NEW u \in Snapshots, NEW r \in Results, NEW l \in Comparisons
      PROVE  Keeps([u EXCEPT !.capture = r, !.fresh = TRUE, !.live = l, !.good = TRUE], u)
  BY DEF Keeps, Shows, Snapshots
<1>5. ASSUME NEW u \in Snapshots, NEW r \in Results
      PROVE  Keeps([u EXCEPT !.capture = r, !.good = FALSE], u)
  BY DEF Keeps, Shows, Snapshots
<1>6. ASSUME NEW e, NEW l \in {"equal", "differs", "blocked"},
             e = Guided!Ends([s EXCEPT !.capture = Guided!Result("Complete", id), !.fresh = TRUE,
                                !.live = l, !.good = TRUE], session)
      PROVE  Quiet(e, s, session)
  <2> DEFINE v == [s EXCEPT !.capture = Guided!Result("Complete", id), !.fresh = TRUE,
                            !.live = l, !.good = TRUE]
  <2>1. Keeps(v, s)
    <3>1. l \in Comparisons
      BY DEF Comparisons
    <3> QED
      BY <1>2, <1>4, <3>1, Values
  <2>2. e = Guided!Ends(v, session)
    BY <1>6
  <2> HIDE DEF v
  <2> QED
    BY <1>2, <2>1, <2>2, EndShown
<1>7. ASSUME NEW e, NEW t \in Guided!Lost(s),
             e = Guided!Ends([t EXCEPT !.capture = Guided!Result("Failed", id), !.good = FALSE],
                             session)
      PROVE  Quiet(e, s, session)
  <2> DEFINE v == [t EXCEPT !.capture = Guided!Result("Failed", id), !.good = FALSE]
  <2>1. Keeps(v, t)
    BY <1>3, <1>5, Values
  <2>2. e = Guided!Ends(v, session)
    BY <1>7
  <2> HIDE DEF v
  <2> QED
    BY <1>3, <2>1, <2>2, EndShown
<1> QED
  BY Zenon, <1>1, <1>6, <1>7

\* An apply or a startup passes, or fails, or meets another program.
LEMMA WriteEnds ==
    ASSUME NEW s, NEW name \in {"apply", "startup"}, Fits(name, s, session), NEW id \in Nat,
           NEW e \in Guided!Ended(name, id, s)
    PROVE  Quiet(e, s, session)
<1>1. s \in Snapshots /\ Fits("none", s, session) /\ Calm(s, s)
  BY AtRest DEF Stops, Guided!Uses, Calm
<1>2. CASE name = "apply"
  <2> DEFINE passed == [s EXCEPT !.apply = Guided!Result("Passed", id), !.fresh = FALSE, !.good = TRUE]
             v == [passed EXCEPT !.passed = FALSE, !.startup = Guided!NotRun]
             failed == [s EXCEPT !.apply = Guided!Result("Failed", id), !.fresh = FALSE, !.good = FALSE]
             w == [failed EXCEPT !.passed = FALSE, !.startup = Guided!NotRun]
  <2>1. Guided!Ended("apply", id, s) = {Guided!Ends(v, session)} \cup Guided!Fails(w)
    BY ApplyEnded
  <2>2. ASSUME NEW u \in Snapshots, NEW r \in Results
        PROVE  /\ Keeps([u EXCEPT !.apply = r, !.fresh = FALSE, !.good = TRUE], u)
               /\ Keeps([u EXCEPT !.apply = r, !.fresh = FALSE, !.good = FALSE], u)
               /\ Keeps([u EXCEPT !.passed = FALSE, !.startup = r], u)
    BY ZenonT(60) DEF Keeps, Shows, Snapshots
  <2>3. Keeps(passed, s) /\ Keeps(failed, s)
    BY <1>1, <2>2, Values
  <2> HIDE DEF passed, failed
  <2>4. Keeps(v, passed) /\ Keeps(w, failed)
    <3>1. passed \in Snapshots /\ failed \in Snapshots
      BY <2>3 DEF Keeps, Shows
    <3> QED
      BY <2>2, <3>1, Values
  <2> HIDE DEF v, w
  <2>5. /\ Fits("none", v, session) /\ Calm(v, s)
        /\ Fits("none", w, session) /\ Calm(w, s)
    BY <1>1, <2>3, <2>4, KeepsFits DEF Calm
  <2>6. \A t \in Guided!Lost(w) : Fits("none", t, session) /\ Calm(t, s)
    BY <2>5, LostFits DEF Calm
  <2>7. \/ e = Guided!Ends(v, session)
        \/ \E t \in Guided!Lost(w) : e.s = t /\ e.session = session
    BY <1>2, <2>1 DEF Guided!Fails
  <2> QED
    BY <2>5, <2>6, <2>7, EndsFields, SMTT(40) DEF Quiet
<1>3. CASE name = "startup"
  <2> DEFINE passed == [s EXCEPT !.startup = Guided!Result("Passed", id), !.passed = TRUE, !.fresh = TRUE]
             v == [passed EXCEPT !.live = "equal", !.good = TRUE]
  <2>1. Guided!Ended("startup", id, s) =
          {Guided!Ends(v, session)}
          \cup {Guided!Ends([t EXCEPT !.startup = Guided!Result("Failed", id), !.good = FALSE], session)
                  : t \in Guided!Lost(s)}
    BY StartupEnded
  <2>2. ASSUME NEW u \in Snapshots, NEW r \in Results
        PROVE  /\ Keeps([u EXCEPT !.startup = r, !.passed = TRUE, !.fresh = TRUE], u)
               /\ Keeps([u EXCEPT !.startup = r, !.good = FALSE], u)
    BY DEF Keeps, Shows, Snapshots
  <2>3. ASSUME NEW u \in Snapshots, NEW l \in Comparisons
        PROVE  Keeps([u EXCEPT !.live = l, !.good = TRUE], u)
    BY DEF Keeps, Shows, Snapshots
  <2>4. Keeps(passed, s)
    BY <1>1, <2>2, Values
  <2> HIDE DEF passed
  <2>5. Keeps(v, passed)
    <3>1. passed \in Snapshots /\ "equal" \in Comparisons
      BY <2>4 DEF Keeps, Shows, Comparisons
    <3> QED
      BY <2>3, <3>1
  <2> HIDE DEF v
  <2>6. Fits("none", v, session) /\ Calm(v, s)
    BY <1>1, <2>4, <2>5, KeepsFits DEF Calm
  <2>7. ASSUME NEW t \in Guided!Lost(s),
               e = Guided!Ends([t EXCEPT !.startup = Guided!Result("Failed", id), !.good = FALSE],
                               session)
        PROVE  Quiet(e, s, session)
    <3> DEFINE x == [t EXCEPT !.startup = Guided!Result("Failed", id), !.good = FALSE]
    <3>1. Fits("none", t, session) /\ Calm(t, s) /\ t \in Snapshots
      BY <1>1, LostFits, SMTT(40) DEF Fits
    <3>2. Keeps(x, t)
      BY <2>2, <3>1, Values
    <3>3. e = Guided!Ends(x, session)
      BY <2>7
    <3> HIDE DEF x
    <3> QED
      BY <3>1, <3>2, <3>3, EndShown
  <2> QED
    BY <1>3, <2>1, <2>6, <2>7, EndsFields DEF Quiet
<1> QED
  BY <1>2, <1>3

\* A start takes data, or fails with or without a journal.
LEMMA StartEnds ==
    ASSUME NEW s, Fits("start", s, session), NEW id \in Nat,
           NEW e \in Guided!Ended("start", id, s)
    PROVE  Fits("none", e.s, e.session) /\ Moves("start", s, session, e.s, e.session)
<1> DEFINE failed == Guided!StartFailed(s)
<1>1. Guided!Ended("start", id, s) =
        {Guided!Ends([s EXCEPT !.acquisition = "Running", !.good = TRUE], "held"),
         Guided!Ends([failed EXCEPT !.journal = "Pending"], "held")}
        \cup {Guided!Ends(t, "none") : t \in Guided!Lost(failed)}
        \cup {Guided!Ends([t EXCEPT !.ownership = "RecoveryRequired",
                                    !.journal = "Pending"], "none") : t \in Guided!Lost(failed)}
  BY StartEnded
<1>2. s \in Snapshots /\ s.journal = "None" /\ s.recovery.state # "Running" /\ ~s.clean
  BY DEF Fits, UnderWay
<1>3. ASSUME NEW u \in Snapshots, NEW a \in Acquisitions, NEW g \in BOOLEAN
      PROVE  Shows([u EXCEPT !.acquisition = a, !.good = g],
                   u.ownership, a, u.journal, u.recovery, u.clean)
  BY DEF Shows, Snapshots
<1>4. /\ "Running" \in Acquisitions /\ "Failed" \in Acquisitions
      /\ "Pending" \in Guided!Journals /\ "RecoveryRequired" \in Ownerships
  BY DEF Acquisitions, Guided!Journals, Ownerships
<1>5. Shows(failed, s.ownership, "Failed", "None", s.recovery, s.clean)
  BY <1>2, <1>3, <1>4 DEF Guided!StartFailed
<1> HIDE DEF failed
<1>6. \A t \in Guided!Lost(failed) :
        /\ Shows(t, t.ownership, "Failed", "None", s.recovery, s.clean)
        /\ t.ownership \in {s.ownership, "OwnershipLost"}
  BY <1>5, LostFields DEF Shows
<1>7. CASE e = Guided!Ends([s EXCEPT !.acquisition = "Running", !.good = TRUE], "held")
  <2> DEFINE t == [s EXCEPT !.acquisition = "Running", !.good = TRUE]
  <2>1. Shows(t, s.ownership, "Running", s.journal, s.recovery, s.clean)
    BY <1>2, <1>3, <1>4
  <2>2. e.s = t /\ e.session = "held"
    BY <1>7, EndsFields
  <2> HIDE DEF t
  <2> QED
    BY <1>2, <2>1, <2>2 DEF Shows, Fits, Consistent, UnderWay, Sessions, Stops, Guided!Uses, Moves
<1>8. CASE e = Guided!Ends([failed EXCEPT !.journal = "Pending"], "held")
  <2> DEFINE t == [failed EXCEPT !.journal = "Pending"]
  <2>1. ASSUME NEW u \in Snapshots, NEW j \in Guided!Journals
        PROVE  Shows([u EXCEPT !.journal = j], u.ownership, u.acquisition, j, u.recovery, u.clean)
    BY DEF Shows, Snapshots
  <2>2. failed \in Snapshots
    BY <1>5 DEF Shows
  <2>3. Shows(t, failed.ownership, failed.acquisition, "Pending", failed.recovery, failed.clean)
    BY <1>4, <2>1, <2>2
  <2>4. e.s = t /\ e.session = "held"
    BY <1>8, EndsFields
  <2> HIDE DEF t
  <2> QED
    BY <1>2, <1>5, <2>3, <2>4 DEF Shows, Fits, Consistent, UnderWay, Sessions, Stops, Guided!Uses, Moves
<1>9. CASE \E t \in Guided!Lost(failed) : e = Guided!Ends(t, "none")
  <2>1. /\ Shows(e.s, e.s.ownership, "Failed", "None", s.recovery, s.clean) /\ e.session = "none"
        /\ e.s.ownership \in {s.ownership, "OwnershipLost"}
    BY <1>6, <1>9, EndsFields
  <2> QED
    BY <1>2, <2>1 DEF Shows, Fits, Consistent, UnderWay, Sessions, Stops, Guided!Uses, Moves
<1>10. ASSUME NEW t \in Guided!Lost(failed),
              e = Guided!Ends([t EXCEPT !.ownership = "RecoveryRequired",
                                        !.journal = "Pending"], "none")
       PROVE  Fits("none", e.s, e.session) /\ Moves("start", s, session, e.s, e.session)
  <2> DEFINE x == [t EXCEPT !.ownership = "RecoveryRequired", !.journal = "Pending"]
  <2>1. ASSUME NEW u \in Snapshots, NEW o \in Ownerships, NEW j \in Guided!Journals
        PROVE  Shows([u EXCEPT !.ownership = o, !.journal = j], o, u.acquisition, j, u.recovery, u.clean)
    BY DEF Shows, Snapshots
  <2>2. /\ t \in Snapshots /\ t.acquisition = "Failed" /\ t.recovery = s.recovery
        /\ t.clean = s.clean
    BY <1>6 DEF Shows
  <2>3. Shows(x, "RecoveryRequired", "Failed", "Pending", s.recovery, s.clean)
    BY <1>4, <2>1, <2>2
  <2>4. e.s = x /\ e.session = "none"
    BY <1>10, EndsFields
  <2> HIDE DEF x
  <2> QED
    BY <1>2, <2>3, <2>4 DEF Shows, Fits, Consistent, UnderWay, Sessions, Stops, Guided!Uses, Moves
<1> QED
  BY <1>1, <1>7, <1>8, <1>9, <1>10

\* A source change, a preview or a restore ends with data still taken, or
\* finds another run.
LEMMA ChangeEnds ==
    ASSUME NEW s, NEW name \in {"source", "preview", "restore"}, Fits(name, s, session),
           NEW id \in Nat, NEW e \in Guided!Ended(name, id, s)
    PROVE  Fits("none", e.s, e.session) /\ Moves(name, s, session, e.s, e.session)
<1>1. s \in Snapshots /\ Fits("none", s, session) /\ Calm(s, s)
  BY AtRest DEF Stops, Guided!Uses, Calm
<1>2. s.recovery.state # "Running" /\ session = "held" /\ ~s.clean
  BY DEF Fits, Consistent, UnderWay
<1>3. ASSUME NEW u \in Snapshots, NEW r \in Results, NEW d \in BOOLEAN
      PROVE  /\ Keeps([u EXCEPT !.source = r, !.deviates = d, !.good = TRUE], u)
             /\ Keeps([u EXCEPT !.source = r, !.good = FALSE], u)
             /\ Keeps([u EXCEPT !.preview = r, !.active = d, !.good = FALSE], u)
  BY ZenonT(60) DEF Keeps, Shows, Snapshots
<1>4. ASSUME NEW u \in Snapshots, NEW r \in Results
      PROVE  /\ Keeps([u EXCEPT !.preview = r, !.active = TRUE, !.good = TRUE], u)
             /\ Keeps([u EXCEPT !.preview = r, !.active = FALSE, !.good = TRUE], u)
  BY DEF Keeps, Shows, Snapshots
<1>5. /\ Guided!Result("Passed", id) \in Results /\ Guided!Result("Failed", id) \in Results
      /\ Guided!Result("Active", id) \in Results /\ Guided!Result("Restored", id) \in Results
  BY Values
<1>6. \/ \E t : Keeps(t, s) /\ e = Guided!Ends(t, session)
      \/ e \in Guided!Foreign(s)
  <2>1. CASE name = "source"
    <3>1. \/ \E d \in BOOLEAN :
                e = Guided!Ends([s EXCEPT !.source = Guided!Result("Passed", id), !.deviates = d,
                                          !.good = TRUE], session)
          \/ e = Guided!Ends([s EXCEPT !.source = Guided!Result("Failed", id), !.good = FALSE], session)
          \/ e \in Guided!Foreign(s)
      BY <2>1, SourceEnded, ZenonT(60)
    <3> QED
      BY <1>1, <1>3, <1>5, <3>1
  <2>2. CASE name = "preview"
    <3>1. \/ e = Guided!Ends([s EXCEPT !.preview = Guided!Result("Active", id), !.active = TRUE,
                                       !.good = TRUE], session)
          \/ \E a \in BOOLEAN :
                e = Guided!Ends([s EXCEPT !.preview = Guided!Result("Failed", id), !.active = a,
                                          !.good = FALSE], session)
          \/ e \in Guided!Foreign(s)
      BY <2>2, PreviewEnded, ZenonT(60)
    <3> QED
      BY <1>1, <1>3, <1>4, <1>5, <3>1
  <2>3. CASE name = "restore"
    <3>1. \/ e = Guided!Ends([s EXCEPT !.preview = Guided!Result("Restored", id), !.active = FALSE,
                                       !.good = TRUE], session)
          \/ \E a \in BOOLEAN :
                e = Guided!Ends([s EXCEPT !.preview = Guided!Result("Failed", id), !.active = a,
                                          !.good = FALSE], session)
          \/ e \in Guided!Foreign(s)
      BY Zenon, <2>3, RestoreEnded
    <3> QED
      BY <1>1, <1>3, <1>4, <1>5, <3>1
  <2> QED
    BY <2>1, <2>2, <2>3
<1>7. CASE \E t : Keeps(t, s) /\ e = Guided!Ends(t, session)
  BY <1>1, <1>7, EndShown, CalmMoves DEF Quiet
<1>8. CASE e \in Guided!Foreign(s)
  BY <1>1, <1>2, <1>8, ForeignFits DEF Moves
<1> QED
  BY <1>6, <1>7, <1>8

\* A recovery takes the journal away, or leaves all but its result.
LEMMA RecoverEnds ==
    ASSUME NEW s, Fits("recover", s, session), NEW id \in Nat,
           NEW e \in Guided!Ended("recover", id, s)
    PROVE  Fits("none", e.s, e.session) /\ Moves("recover", s, session, e.s, e.session)
<1>1. s \in Snapshots /\ s.journal = "Pending"
  BY DEF Fits, UnderWay
<1>2. /\ "None" \in Guided!Journals /\ "Disconnected" \in Ownerships
      /\ "RecoveryRequired" \in Ownerships /\ "NotRun" \in Acquisitions
  BY SMTT(40) DEF Guided!Journals, Ownerships, Acquisitions
<1> DEFINE a == [s EXCEPT !.recovery = Guided!Result("Recovered", id), !.good = TRUE, !.journal = "None"]
           b == [a EXCEPT !.ownership = "Disconnected", !.acquisition = "NotRun", !.clean = FALSE]
           c == [b EXCEPT !.source = Guided!NotRun, !.preview = Guided!NotRun,
                          !.active = FALSE, !.deviates = FALSE]
           d == [s EXCEPT !.recovery = Guided!Result("Failed", id), !.good = FALSE,
                          !.ownership = "RecoveryRequired"]
<1>3. e \in {Guided!Ends(c, "none"), Guided!Ends(d, session)}
  BY RecoverEnded
<1>4. ASSUME NEW u \in Snapshots, NEW r \in Results, NEW j \in Guided!Journals
      PROVE  Shows([u EXCEPT !.recovery = r, !.good = TRUE, !.journal = j],
                   u.ownership, u.acquisition, j, r, u.clean)
  BY DEF Shows, Snapshots
<1>5. ASSUME NEW u \in Snapshots, NEW o \in Ownerships, NEW x \in Acquisitions
      PROVE  Shows([u EXCEPT !.ownership = o, !.acquisition = x, !.clean = FALSE],
                   o, x, u.journal, u.recovery, FALSE)
  BY DEF Shows, Snapshots
<1>6. ASSUME NEW u \in Snapshots, NEW n \in Results
      PROVE  Keeps([u EXCEPT !.source = n, !.preview = n, !.active = FALSE, !.deviates = FALSE], u)
  BY DEF Keeps, Shows, Snapshots
<1>7. ASSUME NEW u \in Snapshots, NEW r \in Results, NEW o \in Ownerships
      PROVE  Shows([u EXCEPT !.recovery = r, !.good = FALSE, !.ownership = o],
                   o, u.acquisition, u.journal, r, u.clean)
  BY DEF Shows, Snapshots
<1>8. Shows(a, s.ownership, s.acquisition, "None", Guided!Result("Recovered", id), s.clean)
  BY <1>1, <1>2, <1>4, Values
<1>9. Shows(d, "RecoveryRequired", s.acquisition, "Pending", Guided!Result("Failed", id), s.clean)
  <2>1. Guided!Result("Failed", id) \in Results
    BY Values
  <2>2. Shows(d, "RecoveryRequired", s.acquisition, s.journal, Guided!Result("Failed", id), s.clean)
    BY <1>1, <1>2, <1>7, <2>1
  <2> QED
    BY <1>1, <2>2 DEF Shows
<1> HIDE DEF a, d
<1>10. Shows(b, "Disconnected", "NotRun", a.journal, a.recovery, FALSE)
  <2>1. a \in Snapshots
    BY <1>8 DEF Shows
  <2> QED
    BY <1>2, <1>5, <2>1
<1> HIDE DEF b
<1>11. Keeps(c, b)
  <2>1. b \in Snapshots
    BY <1>10 DEF Shows
  <2> QED
    BY <1>6, <2>1, Values
<1> HIDE DEF c
<1>12. Shows(c, "Disconnected", "NotRun", "None", Guided!Result("Recovered", id), FALSE)
  BY <1>8, <1>10, <1>11 DEF Keeps, Shows
<1>13. /\ Guided!Result("Recovered", id).state = "Recovered"
       /\ Guided!Result("Failed", id).state = "Failed"
  BY Values
<1>14. CASE e = Guided!Ends(c, "none")
  <2>1. e.s = c /\ e.session = "none"
    BY <1>14, EndsFields
  <2> QED
    BY <1>12, <1>13, <2>1 DEF Shows, Fits, Consistent, UnderWay, Sessions, Stops, Guided!Uses, Moves
<1>15. CASE e = Guided!Ends(d, session)
  <2>1. e.s = d /\ e.session = session
    BY <1>15, EndsFields
  <2>2. Fits("recover", s, session)
    OBVIOUS
  <2> HIDE DEF d
  <2> QED
    BY <1>9, <1>13, <2>1, <2>2 DEF Shows, Fits, Consistent, UnderWay, Sessions, Stops, Guided!Uses, Moves
<1> QED
  BY <1>3, <1>14, <1>15

\* However an operation ends, the tuner is at rest with what it left.
LEMMA EndFits ==
    ASSUME NEW s, NEW name \in Operations, Fits(name, s, session), NEW id \in Nat,
           disk \in [journal : Guided!Journals, saved : BOOLEAN],
           NEW e \in Guided!Ended(name, id, s)
    PROVE  Fits("none", e.s, e.session) /\ Moves(name, s, session, e.s, e.session)
<1>1. CASE name \in {"check", "open"}
  BY <1>1, CheckEnds
<1>2. CASE name \in {"audit", "capture"}
  BY <1>2, AuditEnds, CaptureEnds, CalmMoves DEF Quiet
<1>3. CASE name \in {"apply", "startup"}
  BY <1>3, WriteEnds, CalmMoves DEF Quiet
<1>4. CASE name = "start"
  BY <1>4, StartEnds
<1>5. CASE name \in {"source", "preview", "restore"}
  BY <1>5, ChangeEnds
<1>6. CASE name = "recover"
  BY <1>6, RecoverEnds
<1>7. CASE name \in Stops
  <2>1. Fits(name, s, "held") /\ session = "held"
    BY <1>7 DEF Fits, UnderWay
  <2>2. \A f \in Guided!StopDiagnosticAcquisition(s) :
          Fits("none", f.s, f.session) /\ Moves("stop", s, "held", f.s, f.session)
    BY <1>7, <2>1, StopFits
  <2>3. CASE name = "stop"
    BY <2>1, <2>2, <2>3, StopEnded
  <2>4. CASE name = "release"
    <3>1. PICK f \in Guided!StopDiagnosticAcquisition(s) : e = Guided!ReleaseAfter(f)
      BY <2>4, StopEnded
    <3>2. Fits("none", f.s, f.session) /\ Moves("stop", s, "held", f.s, f.session)
      BY <2>2
    <3>3. f = Guided!Ends(f.s, f.session)
      BY EndRecord
    <3>4. Fits("none", e.s, e.session) /\ Moves("release", f.s, f.session, e.s, e.session)
      BY <3>1, <3>2, <3>3, ReleaseFits
    <3> QED
      BY <2>1, <2>4, <3>2, <3>4 DEF Moves, Guided!Uses
  <2>5. CASE name \in Guided!Uses
    <3>1. PICK f \in Guided!StopDiagnosticAcquisition(s), t \in Guided!Single(name, id, s) :
            e = IF f.session = "none" THEN Guided!Ends(t, "none") ELSE f
      BY <2>5, StopEnded
    <3>2. /\ Fits("none", f.s, f.session) /\ Moves("stop", s, "held", f.s, f.session)
          /\ Fits("none", t, "none") /\ Moves(name, s, "held", t, "none")
      BY <2>2, <2>5, UseFits
    <3> QED
      BY <2>1, <2>5, <3>1, <3>2, EndsFields DEF Moves, Guided!Uses
  <2> QED
    BY <1>7, <2>3, <2>4, <2>5 DEF Stops
<1> QED
  BY <1>1, <1>2, <1>3, <1>4, <1>5, <1>6, <1>7 DEF Operations

----------------------------------------------------------------------------
\* The worker takes a task of the queue, when it is at none.
LEMMA TakeFacts ==
    ASSUME queue \in Seq(Tasks), NEW name, Guided!Take(name)
    PROVE  /\ Head(queue) \in Tasks /\ Head(queue).name = name
           /\ Head(queue).id \in Nat
           /\ queue' \in Seq(Tasks) /\ busy = Guided!Nothing /\ busy.name = "none"
<1>1. /\ busy = Guided!Nothing /\ queue # <<>> /\ Head(queue).name = name
      /\ queue' = Tail(queue)
  BY DEF Guided!Take
<1>2. Head(queue) \in Tasks /\ Tail(queue) \in Seq(Tasks)
  BY <1>1, HeadTailProperties
<1> QED
  BY <1>1, <1>2 DEF Guided!Nothing, Tasks

\* Whatever is put into the queue is a task.
LEMMA PostFacts ==
    ASSUME queue \in Seq(Tasks), NEW name \in Names,
           queue' = Append(queue, Guided!Task(name, 0))
    PROVE  queue' \in Seq(Tasks)
BY AppendProperties DEF Guided!Task, Tasks

\* The level of the status message is of no account.
LEMMA StatusFits ==
    ASSUME NEW name, NEW s, NEW held, Fits(name, s, held), NEW good \in BOOLEAN
    PROVE  LET t == [s EXCEPT !.good = good]
           IN  /\ Fits(name, t, held) /\ Calm(t, s)
               /\ t.ownership = s.ownership /\ t.recovery = s.recovery
BY DEF Fits, Snapshots, Consistent, UnderWay, Calm

\* A stage enables commands only.
LEMMA StagesSubmitCommands == Guided!DrawStagePanel(snap) \subseteq Names
<1> USE DEF Names, Guided!Commands, Guided!When
<1>1. Guided!ReleaseButton(snap) \subseteq Names
  BY DEF Guided!ReleaseButton
<1>2. Guided!ProjectStage(snap) \subseteq Names
  BY DEF Guided!ProjectStage
<1>3. Guided!SessionStage(snap) \subseteq Names
  BY <1>1 DEF Guided!SessionStage
<1>4. Guided!ProfileStage(snap) \subseteq Names
  BY <1>1 DEF Guided!ProfileStage
<1>5. Guided!StartupAuditStage(snap) \subseteq Names
  BY <1>1 DEF Guided!StartupAuditStage
<1>6. Guided!ConfigurationStage(snap) \subseteq Names
  BY <1>1 DEF Guided!ConfigurationStage
<1>7. Guided!StartupStage(snap) \subseteq Names
  BY <1>1 DEF Guided!StartupStage
<1>8. Guided!AcquisitionStage(snap) \subseteq Names
  BY DEF Guided!AcquisitionStage
<1> QED
  BY <1>2, <1>3, <1>4, <1>5, <1>6, <1>7, <1>8 DEF Guided!DrawStagePanel

\* What the threads of the tuner do, for those who need not know how: an
\* operation begins, a task is taken, an operation comes to its end, or a
\* thread posts a task of its own.
Resting == {"poll", "stream"}
Begins(name) ==
    /\ name \in {"use", "load", "handoff", "look"} => session # "none"
    /\ name \in {"check", "open"} => snap'.ownership = "Checking"
    /\ name \notin {"check", "open"} => snap'.ownership = snap.ownership
    /\ name = "recover" => snap'.recovery.state = "Running"
Takes ==
    /\ queue # <<>> /\ queue' = Tail(queue) /\ busy = Guided!Nothing
    /\ Moves(Head(queue).name, snap, session, snap', session')
    /\ snap'.ownership = "SessionOpen" => snap.ownership = "SessionOpen"
    /\ \/ busy' = busy
       \/ busy' = Head(queue) /\ Begins(Head(queue).name)
       \/ /\ busy' = Guided!Task("stop", 0) /\ session = "held"
          /\ Head(queue).name = "stream"
    /\ Head(queue).name \in Resting /\ session = "none" /\ snap.ownership # "SessionOpen" =>
          UNCHANGED <<snap, session, busy>>
    /\ Head(queue).name # "poll" => watchdog' = watchdog
Finishes ==
    /\ queue' = queue /\ busy # Guided!Nothing /\ busy' = Guided!Nothing
    /\ Moves(busy.name, snap, session, snap', session')
    /\ watchdog' = watchdog \/ busy.name = "open"
    /\ snap'.ownership # "SessionOpen" => watchdog' = watchdog
Posts ==
    /\ UNCHANGED <<snap, busy, session>>
    /\ watchdog = "idle" \/ snap.acquisition = "Running"
    /\ \/ queue' = queue
       \/ \E name \in Resting : queue' = Append(queue, Guided!Task(name, 0))

\* The worker carries out a command, or refuses it.
LEMMA ExecuteStep ==
    ASSUME TunerInv, Guided!ExecuteCommand
    PROVE  /\ Takes /\ queue' \in Seq(Tasks) /\ busy' \in Tasks
           /\ busy' = Guided!Nothing \/ busy'.name \in Operations
           /\ Fits(busy'.name, snap', session')
<1>1. PICK name \in Guided!Commands :
        /\ Guided!Take(name)
        /\ name \in Guided!Uses => session = "none"
        /\ IF Guided!Refuses(name, snap)
           THEN /\ Guided!PublishStatus(snap, FALSE)
                /\ UNCHANGED busy
           ELSE IF Guided!IsSingle(name, snap)
           THEN /\ \E s \in Guided!Single(name, Head(queue).id, snap) : Guided!Publish(s)
                /\ UNCHANGED busy
           ELSE /\ Guided!PublishStatus(Guided!Begun(name, Head(queue).id, snap), FALSE)
                /\ busy' = Head(queue)
        /\ UNCHANGED session
  BY DEF Guided!ExecuteCommand
<1>2. /\ Head(queue) \in Tasks /\ Head(queue).name = name /\ Head(queue).id \in Nat
      /\ queue' \in Seq(Tasks) /\ busy = Guided!Nothing /\ busy.name = "none"
      /\ queue # <<>> /\ queue' = Tail(queue)
      /\ watchdog' = watchdog /\ name \notin Resting
  BY <1>1, TakeFacts DEF TunerInv, Guided!Take, Guided!ExecuteCommand, Guided!Commands, Resting
<1>3. Fits("none", snap, session) /\ busy \in Tasks
  BY <1>2 DEF TunerInv
<1>4. CASE Guided!Refuses(name, snap)
  <2>1. snap' = [snap EXCEPT !.good = FALSE] /\ busy' = busy /\ session' = session
    BY <1>1, <1>4 DEF Guided!PublishStatus, Guided!Publish
  <2>2. Fits("none", snap', session') /\ Calm(snap', snap) /\ snap'.ownership = snap.ownership
    BY <1>3, <2>1, StatusFits
  <2>3. Takes
    BY <1>2, <2>1, <2>2, CalmMoves DEF Takes
  <2> QED
    BY <1>2, <1>3, <2>1, <2>2, <2>3
<1>5. CASE ~Guided!Refuses(name, snap) /\ Guided!IsSingle(name, snap)
  <2>1. PICK s \in Guided!Single(name, Head(queue).id, snap) : snap' = s
    BY <1>1, <1>5 DEF Guided!Publish
  <2>2. /\ Fits("none", s, session) /\ Moves(name, snap, session, s, session)
        /\ s.ownership = "SessionOpen" => snap.ownership = "SessionOpen"
    BY <1>1, <1>2, <1>3, <1>5, SingleFits DEF TunerInv
  <2>3. busy' = busy /\ session' = session
    BY <1>1, <1>5
  <2>4. Takes
    BY <1>2, <2>1, <2>2, <2>3 DEF Takes
  <2> QED
    BY <1>2, <1>3, <2>1, <2>2, <2>3, <2>4
<1>6. CASE ~Guided!Refuses(name, snap) /\ ~Guided!IsSingle(name, snap)
  <2> DEFINE begun == Guided!Begun(name, Head(queue).id, snap)
  <2>1. snap' = [begun EXCEPT !.good = FALSE]
        /\ busy' = Head(queue) /\ session' = session
    BY <1>1, <1>6 DEF Guided!PublishStatus, Guided!Publish
  <2>2. /\ Fits(name, begun, session) /\ Moves(name, snap, session, begun, session)
        /\ name \in {"check", "open"} => begun.ownership = "Checking"
        /\ name \notin {"check", "open"} => begun.ownership = snap.ownership
        /\ name = "recover" => begun.recovery.state = "Running"
        /\ name \notin {"use", "load", "handoff", "look"}
    BY <1>2, <1>3, <1>6, BeginFits
  <2> HIDE DEF begun
  <2>3. /\ Fits(name, snap', session) /\ Calm(snap', begun)
        /\ snap'.ownership = begun.ownership /\ snap'.recovery = begun.recovery
    BY <2>1, <2>2, StatusFits
  <2>5. Moves(name, snap, session, snap', session')
    BY <2>1, <2>2, <2>3 DEF Moves, Calm
  <2>6. Begins(name)
    BY <2>2, <2>3 DEF Begins
  <2>7. Takes
    BY <1>2, <2>1, <2>2, <2>3, <2>5, <2>6 DEF Takes
  <2>4. name \in Operations
    BY <1>6 DEF Guided!Commands, Guided!IsSingle, Operations
  <2> QED
    BY <1>2, <2>1, <2>3, <2>4, <2>7
<1> QED
  BY <1>2, <1>4, <1>5, <1>6

\* A stop, a release, and a project selected while there is a session.
LEMMA StopStep ==
    ASSUME TunerInv, Guided!StopOrRelease
    PROVE  /\ Takes /\ queue' \in Seq(Tasks) /\ busy' \in Tasks
           /\ busy' = Guided!Nothing \/ busy'.name \in Operations
           /\ Fits(busy'.name, snap', session')
<1>1. PICK name \in Stops : Guided!Take(name)
  BY DEF Guided!StopOrRelease, Stops
<1>2. /\ Head(queue) \in Tasks /\ Head(queue).name = name
      /\ queue' \in Seq(Tasks) /\ busy = Guided!Nothing /\ busy.name = "none" /\ busy \in Tasks
      /\ queue # <<>> /\ queue' = Tail(queue)
      /\ watchdog' = watchdog /\ name \notin Resting
  BY <1>1, TakeFacts
     DEF TunerInv, Guided!Take, Guided!StopOrRelease, Stops, Guided!Uses, Resting
<1>3. Fits("none", snap, session)
  BY <1>2 DEF TunerInv
<1>4. CASE /\ session = "held"
           /\ Guided!Publish(Guided!Begun("stop", 0, snap))
           /\ busy' = Head(queue)
           /\ UNCHANGED session
  <2>1. snap' = [snap EXCEPT !.acquisition = "Stopping"]
    BY <1>4 DEF Guided!Publish, Guided!Begun, Guided!Uses
  <2>2. Fits(name, snap', session)
    BY <1>3, <1>4, <2>1
       DEF Fits, Consistent, UnderWay, Snapshots, Acquisitions, Stops, Guided!Uses
  <2>3. Moves(name, snap, session, snap', session') /\ snap'.ownership = snap.ownership
    BY <1>3, <1>4, <2>1 DEF Moves, Fits, Consistent, Snapshots
  <2>4. Begins(name)
    BY <1>2, <1>4, <2>3 DEF Begins, Stops, Guided!Uses
  <2>5. Takes
    BY <1>2, <1>4, <2>3, <2>4 DEF Takes
  <2> QED
    BY <1>2, <1>4, <2>2, <2>5 DEF Operations
<1>5. CASE /\ Guided!PublishStatus([snap EXCEPT !.preview.state =
                                   IF snap.active THEN "Failed" ELSE @], FALSE)
           /\ UNCHANGED <<busy, session>>
  <2> DEFINE p == IF snap.active THEN "Failed" ELSE snap.preview.state
             s == [snap EXCEPT !.preview.state = p]
  <2>1. ASSUME NEW u \in Snapshots, NEW o \in Outcomes
        PROVE  Keeps([u EXCEPT !.preview.state = o], u)
    BY DEF Keeps, Shows, Snapshots, Results
  <2>2. p \in Outcomes /\ snap \in Snapshots
    BY <1>3, Values DEF Fits, Snapshots, Results
  <2>3. snap' = [s EXCEPT !.good = FALSE] /\ busy' = busy /\ session' = session
    BY <1>5 DEF Guided!PublishStatus, Guided!Publish
  <2> HIDE DEF p
  <2>4. Keeps(s, snap)
    BY <2>1, <2>2
  <2> HIDE DEF s
  <2>5. Fits("none", s, session) /\ s.ownership = snap.ownership /\ Calm(s, snap)
    BY <1>3, <2>4, KeepsFits DEF Keeps, Shows
  <2>6. /\ Fits("none", snap', session') /\ Calm(snap', snap)
        /\ snap'.ownership = snap.ownership
    BY <2>3, <2>5, StatusFits DEF Calm
  <2>7. Takes
    BY <1>2, <2>3, <2>6, CalmMoves DEF Takes
  <2> QED
    BY <1>2, <1>3, <2>3, <2>6, <2>7
<1>6. CASE UNCHANGED <<busy, snap, session>>
  <2>1. Takes
    BY <1>2, <1>6, CalmMoves DEF Takes, Calm
  <2> QED
    BY <1>2, <1>3, <1>6, <2>1
<1>7. CASE LET e == Guided!ReleaseAfter(Guided!Ends(snap, session))
           IN  /\ Guided!Publish(e.s) /\ session' = e.session /\ UNCHANGED busy
               /\ Head(queue).name = "release"
  <2> DEFINE e == Guided!ReleaseAfter(Guided!Ends(snap, session))
  <2>1. Fits("none", e.s, e.session) /\ Moves("release", snap, session, e.s, e.session)
    BY <1>3, ReleaseFits
  <2>2. snap' = e.s /\ session' = e.session /\ busy' = busy
    BY <1>7 DEF Guided!Publish
  <2> HIDE DEF e
  <2>3. Takes
    BY <1>2, <1>7, <2>1, <2>2 DEF Takes, Moves
  <2> QED
    BY <1>2, <2>1, <2>2, <2>3
<1> QED
  BY <1>2, <1>4, <1>5, <1>6, <1>7 DEF Guided!StopOrRelease

\* The operation under way ends.
LEMMA FinishStep ==
    ASSUME TunerInv, Guided!FinishOperation
    PROVE  /\ Finishes /\ busy' \in Tasks /\ busy' = Guided!Nothing
           /\ Fits(busy'.name, snap', session')
<1>1. PICK e \in Guided!Ended(busy.name, busy.id, snap) :
        /\ snap' = e.s /\ session' = e.session
        /\ watchdog' = IF busy.name = "open" /\ e.s.ownership = "SessionOpen"
                       THEN "idle" ELSE watchdog
  BY DEF Guided!FinishOperation, Guided!Publish
<1>2. busy.name \in Operations /\ busy.id \in Nat
  <2>1. busy \in Tasks /\ (busy = Guided!Nothing \/ busy.name \in Operations)
    BY DEF TunerInv
  <2>2. busy # Guided!Nothing
    BY DEF Guided!FinishOperation
  <2> QED
    BY <2>1, <2>2 DEF Tasks
<1>3. Fits("none", e.s, e.session) /\ Moves(busy.name, snap, session, e.s, e.session)
  BY <1>2, EndFits DEF TunerInv
<1>4. busy' = Guided!Nothing
  BY DEF Guided!FinishOperation
<1>5. Finishes
  BY <1>1, <1>3, <1>4 DEF Finishes, Guided!FinishOperation
<1> QED
  BY <1>1, <1>3, <1>4, <1>5 DEF Guided!Nothing, Tasks, Names

\* The watchdog's poll is answered, or not, or by another program.
LEMMA PollStep ==
    ASSUME TunerInv, Guided!PollWatchdog
    PROVE  /\ Takes /\ queue' \in Seq(Tasks) /\ busy' = busy
           /\ Fits(busy'.name, snap', session')
<1>1. /\ queue' \in Seq(Tasks) /\ busy.name = "none" /\ busy' = busy
      /\ queue # <<>> /\ queue' = Tail(queue) /\ busy = Guided!Nothing
      /\ Head(queue).name = "poll"
  BY TakeFacts DEF Guided!PollWatchdog, Guided!Take, TunerInv
<1>2. Fits("none", snap, session)
  BY <1>1 DEF TunerInv
<1> DEFINE Goal == Takes /\ Fits("none", snap', session')
<1>0. ASSUME Moves("poll", snap, session, snap', session'),
             snap'.ownership = "SessionOpen" => snap.ownership = "SessionOpen",
             UNCHANGED <<snap, session>> \/ snap.ownership = "SessionOpen"
      PROVE  Takes
  BY <1>0, <1>1 DEF Takes
<1>3. ASSUME snap' = snap, session' = session PROVE Goal
  BY <1>0, <1>2, <1>3, CalmMoves DEF Calm
<1>4. ASSUME NEW b \in BOOLEAN, NEW good \in BOOLEAN,
             Guided!PublishStatus([snap EXCEPT !.uncertain = b], good),
             session' = session, snap.ownership = "SessionOpen"
      PROVE  Goal
  <2>1. Fits("none", snap', session') /\ Calm(snap', snap)
    BY <1>2, <1>4, ZenonT(60) DEF Guided!PublishStatus, Guided!Publish, Fits, Snapshots,
                      Consistent, UnderWay, Calm
  <2> QED
    BY <1>0, <1>4, <2>1, CalmMoves DEF Calm
<1>5. ASSUME session = "held", snap.acquisition = "Running",
             Guided!PublishStatus(Guided!DetachForForeignDiagnosticFingerprint(snap), FALSE),
             session' = "foreign", snap.ownership = "SessionOpen"
      PROVE  Goal
  <2> DEFINE s == Guided!DetachForForeignDiagnosticFingerprint(snap)
  <2>1. Shows(s, "OwnershipLost", "Failed", "Pending", snap.recovery, snap.clean)
    BY <1>2, ForeignFields DEF Fits
  <2>2. snap' = [s EXCEPT !.good = FALSE]
    BY <1>5 DEF Guided!PublishStatus, Guided!Publish
  <2> HIDE DEF s
  <2>3. Fits("none", s, "foreign")
    BY <1>2, <1>5, <2>1 DEF Shows, Fits, Consistent, UnderWay, Sessions, Stops, Guided!Uses
  <2>4. Fits("none", snap', session') /\ snap'.ownership = "OwnershipLost"
    BY <1>5, <2>1, <2>2, <2>3, StatusFits DEF Shows
  <2>5. ~snap.clean
    BY <1>2, <1>5 DEF Fits, Consistent
  <2> QED
    BY <1>0, <1>5, <2>4, <2>5 DEF Moves
<1>6. ASSUME Guided!PublishStatus(Guided!DetachForForeignDaq(snap), FALSE),
             session' = session, snap.ownership = "SessionOpen"
      PROVE  Goal
  <2> DEFINE s == Guided!DetachForForeignDaq(snap)
  <2>1. Shows(s, "OwnershipLost", snap.acquisition, snap.journal, snap.recovery, snap.clean)
    BY <1>2, DaqFields DEF Fits
  <2>2. snap' = [s EXCEPT !.good = FALSE]
    BY <1>6 DEF Guided!PublishStatus, Guided!Publish
  <2> HIDE DEF s
  <2>3. Fits("none", s, session)
    BY <1>2, <2>1 DEF Shows, Fits, Consistent, UnderWay
  <2>4. Calm(s, snap)
    BY <2>1 DEF Shows, Calm
  <2>5. Fits("none", snap', session') /\ Calm(snap', snap)
    BY <1>6, <2>2, <2>3, <2>4, StatusFits DEF Calm
  <2> QED
    BY <1>0, <1>6, <2>5, CalmMoves
<1> QED
  <2>1. Goal
    <3> HIDE DEF Goal
    <3> QED
      BY <1>3, <1>4, <1>5, <1>6 DEF Guided!PollWatchdog, Guided!Publish
  <2> QED
    BY <1>1, <2>1

\* A stream is shown, or its error stops the acquisition.
LEMMA StreamStep ==
    ASSUME TunerInv, Guided!PublishDiagnosticStream
    PROVE  /\ Takes /\ queue' \in Seq(Tasks) /\ busy' \in Tasks
           /\ busy' = Guided!Nothing \/ busy'.name \in Operations
           /\ Fits(busy'.name, snap', session')
<1>1. /\ queue' \in Seq(Tasks) /\ busy = Guided!Nothing /\ busy.name = "none" /\ busy \in Tasks
      /\ session' = session /\ watchdog' = watchdog /\ Head(queue).name = "stream"
      /\ queue # <<>> /\ queue' = Tail(queue)
  BY TakeFacts DEF Guided!PublishDiagnosticStream, Guided!Take, TunerInv
<1>2. Fits("none", snap, session)
  BY <1>1 DEF TunerInv
<1>3. CASE snap' = snap /\ busy' = busy
  <2>1. Takes
    BY <1>1, <1>3, CalmMoves DEF Takes, Calm
  <2> QED
    BY <1>1, <1>2, <1>3, <2>1
<1>4. CASE /\ session = "held"
           /\ Guided!Publish(Guided!Begun("stop", 0, snap))
           /\ busy' = Guided!Task("stop", 0)
  <2>1. snap' = [snap EXCEPT !.acquisition = "Stopping"]
    BY <1>4 DEF Guided!Publish, Guided!Begun, Guided!Uses
  <2>2. Fits("stop", snap', session)
    BY <1>2, <1>4, <2>1
       DEF Fits, Consistent, UnderWay, Snapshots, Acquisitions, Stops, Guided!Uses
  <2>3. busy' \in Tasks /\ busy'.name = "stop"
    BY <1>4 DEF Guided!Task, Tasks, Names
  <2>4. Moves("stream", snap, session, snap', session') /\ snap'.ownership = snap.ownership
    BY <1>1, <1>2, <1>4, <2>1 DEF Moves, Fits, Consistent, Snapshots
  <2>5. Takes
    BY <1>1, <1>4, <2>4 DEF Takes
  <2> QED
    BY <1>1, <2>2, <2>3, <2>5 DEF Operations, Stops
<1> QED
  BY <1>1, <1>3, <1>4 DEF Guided!PublishDiagnosticStream, Guided!Publish

\* Whatever a thread of the tuner does, the snapshot fits.
LEMMA ThreadsStep ==
    ASSUME TunerInv, Guided!Threads
    PROVE  TunerInv' /\ (Takes \/ Finishes \/ Posts)
<1>2. CASE Guided!ExecuteCommand
  BY <1>2, ExecuteStep DEF TunerInv, Guided!ExecuteCommand
<1>3. CASE Guided!SaveProfile
  <2>1. /\ queue' \in Seq(Tasks) /\ busy' = busy /\ session' = session
        /\ busy = Guided!Nothing /\ busy.name = "none" /\ watchdog' = watchdog
        /\ queue # <<>> /\ queue' = Tail(queue) /\ Head(queue).name = "save"
    BY <1>3, TakeFacts DEF Guided!SaveProfile, Guided!Take, TunerInv
  <2>2. PICK good \in BOOLEAN : snap' = [snap EXCEPT !.good = good]
    BY <1>3 DEF Guided!SaveProfile, Guided!PublishStatus, Guided!Publish
  <2>3. /\ Fits("none", snap', session') /\ Calm(snap', snap)
        /\ snap'.ownership = snap.ownership
    BY <2>1, <2>2, StatusFits DEF TunerInv
  <2>4. disk' \in [journal : Guided!Journals, saved : BOOLEAN]
    BY <1>3 DEF Guided!SaveProfile, TunerInv
  <2>5. Takes
    BY <2>1, <2>3, CalmMoves DEF Takes, Resting
  <2> QED
    BY <2>1, <2>3, <2>4, <2>5 DEF TunerInv
<1>4. CASE Guided!StopOrRelease
  BY <1>4, StopStep DEF TunerInv, Guided!StopOrRelease
<1>5. CASE Guided!FinishOperation
  BY <1>5, FinishStep DEF TunerInv, Guided!FinishOperation
<1>6. CASE Guided!PollWatchdog
  BY <1>6, PollStep DEF TunerInv, Guided!PollWatchdog
<1>7. CASE Guided!PublishDiagnosticStream
  BY <1>7, StreamStep DEF TunerInv, Guided!PublishDiagnosticStream
<1>8. CASE Guided!WatchdogLoop
  <2>1. queue' \in Seq(Tasks)
    BY <1>8, PostFacts DEF Guided!WatchdogLoop, TunerInv, Names
  <2> QED
    BY <1>8, <2>1 DEF Guided!WatchdogLoop, TunerInv, Posts, Resting
<1>9. CASE Guided!PostStream
  <2>1. queue' \in Seq(Tasks)
    BY <1>9, PostFacts DEF Guided!PostStream, TunerInv, Names
  <2> QED
    BY <1>9, <2>1 DEF Guided!PostStream, TunerInv, Posts, Resting
<1> QED
  BY <1>2, <1>3, <1>4, <1>5, <1>6, <1>7, <1>8, <1>9 DEF Guided!Threads, Guided!Work

\* A step of the user or of the tuner behind the guided stages.
LEMMA GuidedStep == ASSUME GuidedInv, Guided!Next PROVE GuidedInv'
<1>1. CASE Guided!Tick \/ Guided!DrawFrame
  BY <1>1 DEF Guided!Tick, Guided!DrawFrame, Guided!tuner, GuidedInv, TunerInv
<1>2. CASE Guided!Press
  <2>1. PICK name \in Guided!DrawStagePanel(snap) :
          \/ joining' = name /\ queue' = queue
          \/ Guided!Post(name, 0) /\ joining' = joining
    BY <1>2 DEF Guided!Press
  <2>2. name \in Names
    BY StagesSubmitCommands
  <2>3. queue' \in Seq(Tasks) /\ joining' \in Names
    BY <2>1, <2>2, PostFacts DEF Guided!Post, GuidedInv, TunerInv
  <2>4. UNCHANGED <<snap, busy, session, disk>>
    BY <1>2 DEF Guided!Press
  <2> QED
    BY <2>3, <2>4 DEF GuidedInv, TunerInv
<1>3. CASE Guided!JoinWatchdog
  <2>1. queue' \in Seq(Tasks)
    BY <1>3, PostFacts DEF Guided!JoinWatchdog, Guided!Post, GuidedInv, TunerInv
  <2> QED
    BY <1>3, <2>1 DEF Guided!JoinWatchdog, GuidedInv, TunerInv, Names
<1>4. CASE Guided!TunerStep
  BY <1>4, ThreadsStep DEF Guided!TunerStep, GuidedInv
<1> QED
  BY <1>1, <1>2, <1>3, <1>4 DEF Guided!Next

\* The tuner begins without a project, at rest.
LEMMA GuidedStarts == ASSUME Guided!Init PROVE GuidedInv
<1>1. queue \in Seq(Tasks)
  BY DEF Guided!Init, Guided!TunerInit
<1>2. /\ busy \in Tasks /\ busy = Guided!Nothing /\ busy.name = "none" /\ joining \in Names
      /\ disk \in [journal : Guided!Journals, saved : BOOLEAN]
  BY DEF Guided!Init, Guided!TunerInit, Guided!Nothing, Tasks, Names
<1>3. Fits("none", snap, session)
  BY DEF Guided!Init, Guided!TunerInit, Guided!NewSnapshot, Guided!NotRun, Fits,
         Snapshots, Results, Outcomes, Ownerships, Acquisitions, Comparisons,
         Sessions, Guided!Journals, Consistent, UnderWay, Stops, Guided!Uses
<1> QED
  BY <1>1, <1>2, <1>3 DEF GuidedInv, TunerInv

\* The invariant of the behaviours of the guided front end.
LEMMA GuidedInvariant == Spec => [](part = "guided" => GuidedInv)
<1>1. Init => (part = "guided" => GuidedInv)
  BY GuidedStarts DEF Init
<1>2. (part = "guided" => GuidedInv) /\ [Next]_vars => (part = "guided" => GuidedInv)'
  <2> SUFFICES ASSUME part = "guided" => GuidedInv, [Next]_vars, part' = "guided"
               PROVE  GuidedInv'
    OBVIOUS
  <2>1. part = "guided"
    BY DEF Next, CliSteps, GuidedSteps, ThreadSteps, vars
  <2>2. CASE GuidedSteps
    BY <2>1, <2>2, GuidedStep DEF GuidedSteps
  <2>3. CASE UNCHANGED vars
    BY <2>1, <2>3 DEF vars, tuner, stages, GuidedInv, TunerInv
  <2> QED
    BY <2>1, <2>2, <2>3 DEF Next, CliSteps, ThreadSteps
<1> QED
  BY <1>1, <1>2, PTL DEF Spec

----------------------------------------------------------------------------
(***************************************************************************)
(* However many commands wait, and whatever happened since they were       *)
(* pressed, no operation of an acquisition begins while a recovery journal *)
(* is known, and nothing is written over the journal of a run that is not  *)
(* FIDGET's any more (the guards of OwnershipService's operations).        *)
(***************************************************************************)
THEOREM NothingOverJournal == Spec => []NoWriteOverJournal
<1>1. GuidedInv => Guided!NoWriteOverJournal
  BY DEF GuidedInv, TunerInv, Fits, Consistent, UnderWay, Guided!NoWriteOverJournal,
         Guided!RunWrites, Guided!SetupWrites
<1> QED
  BY <1>1, GuidedInvariant, PTL DEF NoWriteOverJournal

\* A known journal calls for its recovery, before all else.
LEMMA JournalComesFirst ==
    ASSUME snap.journal # "None"
    PROVE  Guided!PlanGuidedTunerWorkflow(snap).step = 2
BY DEF Guided!PlanGuidedTunerWorkflow, Guided!MakeDecision

\* What a stage enables at rest is not refused.
LEMMA EnabledAccepted == ASSUME GuidedInv PROVE Guided!EnabledIsAccepted
<1> DEFINE Accepted(name) ==
        /\ ~Guided!Refuses(name, snap)
        /\ name \in {"source", "preview"} => ~Guided!IsSingle(name, snap)
        /\ name = "stop" => session = "held"
<1> SUFFICES ASSUME Guided!Settled, NEW name \in Guided!DrawStagePanel(snap)
             PROVE  Accepted(name)
  BY DEF Guided!EnabledIsAccepted
<1> DEFINE step == Guided!PlanGuidedTunerWorkflow(snap).step
<1>1. busy.name = "none" /\ Fits("none", snap, session)
  BY DEF GuidedInv, TunerInv, Guided!Settled, Guided!Nothing
<1>2. ASSUME name \in {"use", "useOther", "release", "handoff", "unconfirm", "load",
                       "save", "audit", "capture"}
      PROVE  Accepted(name)
  BY <1>2 DEF Guided!Refuses
<1>3. CASE step = 1
  BY <1>2, <1>3 DEF Guided!DrawStagePanel, Guided!ProjectStage
<1>4. CASE step = 2
  <2>1. name \in Guided!SessionStage(snap)
    BY <1>4 DEF Guided!DrawStagePanel
  <2>2. \/ name \in {"handoff", "unconfirm", "release"}
        \/ name = "check" /\ snap.ownership # "SessionOpen"
        \/ name = "open" /\ snap.ownership = "Idle" /\ snap.handoff
        \/ name \in {"look", "recover"} /\ snap.journal = "Pending"
    BY <2>1 DEF Guided!SessionStage, Guided!When, Guided!ReleaseButton
  <2> QED
    BY <1>2, <2>2 DEF Guided!Refuses
<1>5. CASE step = 3
  <2>1. \/ name \in {"load", "save", "release"}
        \/ name = "export" /\ (snap.loaded \/ snap.other)
    BY <1>5 DEF Guided!DrawStagePanel, Guided!ProfileStage, Guided!When, Guided!ReleaseButton
  <2> QED
    BY <1>2, <2>1 DEF Guided!Refuses
<1>6. CASE step = 4
  BY <1>2, <1>6 DEF Guided!DrawStagePanel, Guided!StartupAuditStage, Guided!When,
                    Guided!ReleaseButton
<1>7. CASE step = 5
  <2>1. \/ name \in {"capture", "release"}
        \/ /\ name = "apply" /\ snap.ownership = "SessionOpen"
           /\ Guided!RefreshProfileComparison(snap) = "differs"
    BY <1>7 DEF Guided!DrawStagePanel, Guided!ConfigurationStage, Guided!When,
                Guided!ReleaseButton
  <2> QED
    BY <1>2, <2>1 DEF Guided!Refuses
<1>8. CASE step = 6
  <2>1. \/ name = "release"
        \/ /\ name = "startup" /\ snap.ownership = "SessionOpen"
           /\ Guided!StartupPlanAvailable(snap)
    BY <1>8 DEF Guided!DrawStagePanel, Guided!StartupStage, Guided!When,
                Guided!ReleaseButton
  <2> QED
    BY <1>2, <2>1 DEF Guided!Refuses
<1>9. CASE step \notin {1, 2, 3, 4, 5, 6}
  <2>1. snap.journal = "None"
    BY <1>9, JournalComesFirst
  <2>2. name \in Guided!AcquisitionStage(snap)
    BY <1>9 DEF Guided!DrawStagePanel
  <2>3. snap.acquisition \notin {"Starting", "Stopping"}
    BY <1>1 DEF Fits, UnderWay, Stops, Guided!Uses
  <2>4. \/ name = "start" /\ Guided!StartButton(snap)
        \/ name = "stop" /\ snap.acquisition = "Running"
        \/ name \in {"source", "preview"} /\ snap.acquisition = "Running" /\ ~snap.active
        \/ name = "restore" /\ snap.active
    BY <2>2, <2>3 DEF Guided!AcquisitionStage, Guided!When, Guided!ResultRunning
  <2>5. CASE name = "start" /\ Guided!StartButton(snap)
    <3>1. snap.ownership = "SessionOpen" /\ snap.passed /\ snap.acquisition # "Running"
      BY <2>5 DEF Guided!StartButton
    <3>2. session = "none"
      BY <1>1, <2>1, <2>3, <3>1 DEF Fits, Consistent
    <3> QED
      BY <2>5, <3>1, <3>2 DEF Guided!Refuses, Guided!StartRefused
  <2>6. CASE name = "stop" /\ snap.acquisition = "Running"
    BY <1>1, <2>6 DEF Guided!Refuses, Fits, Consistent
  <2>7. CASE name \in {"source", "preview"} /\ snap.acquisition = "Running" /\ ~snap.active
    BY <2>7 DEF Guided!Refuses, Guided!IsSingle
  <2>8. CASE name = "restore" /\ snap.active
    BY <2>8 DEF Guided!Refuses
  <2> QED
    BY <2>4, <2>5, <2>6, <2>7, <2>8
<1> QED
  BY <1>3, <1>4, <1>5, <1>6, <1>7, <1>8, <1>9

\* The action the rail names at rest is one the stage enables, unless a
\* recovery is asked for where no journal is known.
LEMMA NamedOffered ==
    ASSUME GuidedInv, ~RecoveryWithoutJournal
    PROVE  Guided!NamedActionIsOffered
<1> DEFINE decision == Guided!PlanGuidedTunerWorkflow(snap)
<1> SUFFICES ASSUME Guided!Settled, decision.action # "None", decision.step < 7,
                    snap.journal # "Malformed"
             PROVE  Guided!Control[decision.action] \in Guided!DrawStagePanel(snap)
  BY DEF Guided!NamedActionIsOffered, Guided!Decision
<1>1. busy.name = "none" /\ Fits("none", snap, session)
  BY DEF GuidedInv, TunerInv, Guided!Settled, Guided!Nothing
<1>2. Guided!ActiveOperation = "None" /\ Guided!NoOperation
  BY <1>1 DEF Guided!ActiveOperation, Guided!NoOperation, Guided!Uses
<1>3. snap \in Snapshots /\ snap.ownership \in Ownerships
  BY <1>1 DEF Fits, Snapshots
<1>4. CASE snap.journal # "None" \/ snap.ownership = "RecoveryRequired"
  <2>1. snap.journal = "Pending" /\ snap.recovery.state # "Running"
    BY <1>1, <1>4 DEF RecoveryWithoutJournal, Fits, UnderWay, Snapshots, Guided!Journals
  <2>2. decision.step = 2 /\ decision.action = "RecoveryControls"
    BY <1>4 DEF Guided!PlanGuidedTunerWorkflow, Guided!MakeDecision
  <2>3. "recover" \in Guided!SessionStage(snap)
    BY <2>1 DEF Guided!SessionStage, Guided!When
  <2> QED
    BY <2>2, <2>3 DEF Guided!DrawStagePanel, Guided!Control
<1>5. CASE snap.journal = "None" /\ snap.ownership # "RecoveryRequired"
  <2>1. decision = IF Guided!AcquisitionDecision(snap).stage # "next"
                   THEN Guided!AcquisitionDecision(snap)
                   ELSE IF Guided!OwnershipDecision(snap).stage # "next"
                   THEN Guided!OwnershipDecision(snap)
                   ELSE Guided!SessionDecision(snap)
    BY <1>5 DEF Guided!PlanGuidedTunerWorkflow
  <2>2. \/ Guided!AcquisitionDecision(snap).stage = "next"
        \/ Guided!AcquisitionDecision(snap).step = 7
    BY DEF Guided!AcquisitionDecision, Guided!MakeDecision
  <2>3. decision = IF Guided!OwnershipDecision(snap).stage # "next"
                   THEN Guided!OwnershipDecision(snap)
                   ELSE Guided!SessionDecision(snap)
    BY <2>1, <2>2
  <2> HIDE DEF decision
  <2>4. CASE ~snap.project \/ ~snap.supported
    <3>1. decision.step = 1 /\ decision.action = "ProjectControls"
      BY <2>3, <2>4, <1>3 DEF Snapshots, Guided!OwnershipDecision, Guided!MakeDecision
    <3> QED
      BY <3>1 DEF decision, Guided!DrawStagePanel, Guided!ProjectStage, Guided!Control
  <2>5. CASE snap.project /\ snap.supported /\ snap.ownership # "SessionOpen"
    <3>1. /\ decision.step = 2
          /\ \/ decision.action = "CheckControllerStatus"
                  /\ snap.ownership \notin {"Checking", "SessionOpen"}
             \/ decision.action = "OpenSession" /\ snap.ownership = "Idle" /\ snap.handoff
             \/ decision.action = "ConfirmHandoff" /\ snap.ownership = "Idle" /\ ~snap.handoff
      BY <2>3, <2>5, <1>3, <1>5 DEF Ownerships, Guided!OwnershipDecision, Guided!MakeDecision
    <3>2. Guided!Control[decision.action] \in Guided!SessionStage(snap)
      BY <3>1, <2>5, <1>5 DEF Guided!SessionStage, Guided!When, Guided!Control
    <3> QED
      BY <3>1, <3>2 DEF decision, Guided!DrawStagePanel
  <2>6. CASE snap.project /\ snap.supported /\ snap.ownership = "SessionOpen"
    <3>1. decision = Guided!SessionDecision(snap)
      BY <2>3, <2>6 DEF Guided!OwnershipDecision, Guided!MakeDecision
    <3>2. \/ decision.step = 3 /\ decision.action = "LoadProfile"
          \/ decision.step = 4 /\ decision.action = "RunStartupAudit"
          \/ decision.step = 5 /\ decision.action = "CaptureConfiguration"
          \/ /\ decision.step = 6 /\ decision.action = "ReviewStartup"
             /\ snap.fresh /\ Guided!AuditComplete(snap) /\ Guided!StartupPlanAvailable(snap)
      BY <3>1, <1>2 DEF Guided!SessionDecision, Guided!MakeDecision
    <3>3. CASE decision.step = 3 /\ decision.action = "LoadProfile"
      BY <3>3, <2>6 DEF decision, Guided!DrawStagePanel, Guided!ProfileStage, Guided!When,
                        Guided!Control
    <3>4. CASE decision.step = 4 /\ decision.action = "RunStartupAudit"
      BY <3>4, <2>6, <1>2 DEF decision, Guided!DrawStagePanel, Guided!StartupAuditStage,
                              Guided!When, Guided!Control
    <3>5. CASE decision.step = 5 /\ decision.action = "CaptureConfiguration"
      BY <3>5, <2>6, <1>2 DEF decision, Guided!DrawStagePanel, Guided!ConfigurationStage,
                              Guided!When, Guided!Control
    <3>6. CASE /\ decision.step = 6 /\ decision.action = "ReviewStartup"
               /\ snap.fresh /\ Guided!AuditComplete(snap) /\ Guided!StartupPlanAvailable(snap)
      BY <3>6, <2>6, <1>2 DEF decision, Guided!DrawStagePanel, Guided!StartupStage,
                              Guided!When, Guided!Control
    <3> QED
      BY <3>2, <3>3, <3>4, <3>5, <3>6
  <2> QED
    BY <2>4, <2>5, <2>6, <1>3 DEF Snapshots
<1> QED
  BY <1>4, <1>5

(***************************************************************************)
(* What a stage enables at rest the service carries out, for any number of *)
(* commands that waited before (DrawStagePanel, OwnershipService::Submit). *)
(***************************************************************************)
THEOREM StagesNeverRefuse == Spec => [](part = "guided" => Guided!EnabledIsAccepted)
<1>1. GuidedInv => Guided!EnabledIsAccepted
  BY EnabledAccepted
<1> QED
  BY <1>1, GuidedInvariant, PTL

(***************************************************************************)
(* And the rail names an action the stage beside it enables, unless it     *)
(* asks for the recovery of a journal that is gone (MakeDecision,          *)
(* DrawStagePanel).                                                        *)
(***************************************************************************)
THEOREM NamedActionsAreOffered ==
    Spec => [](part = "guided" /\ ~RecoveryWithoutJournal => Guided!NamedActionIsOffered)
<1>1. GuidedInv /\ ~RecoveryWithoutJournal => Guided!NamedActionIsOffered
  BY NamedOffered
<1> QED
  BY <1>1, GuidedInvariant, PTL

----------------------------------------------------------------------------
(***************************************************************************)
(* The threads at the command worker's queue.  Which polls there are does  *)
(* not depend on when the front end submits (PollInv).  That no thread     *)
(* object is lost does (CommandInv): until a command is submitted from a   *)
(* snapshot drawn while an Open was pending, or the destructor overtakes   *)
(* an Open,                                                                *)
(*  - no Check waits behind an Open or beside the start of a watchdog, for *)
(*    a Check is not offered by a session that is open (OpensLast);        *)
(*  - so the watchdog a Check was submitted without is not there when the  *)
(*    Check runs, nor after it has found the target idle, nor when the     *)
(*    Open that follows starts the next one (Joined);                      *)
(*  - an open session keeps its transport until the destructor's last task *)
(*    has closed it, and nothing comes after that task (Linked).           *)
(***************************************************************************)
Closing == {"dtor_wait", "dtor_stop", "dtor_worker", "dtor_members", "gone"}
Pcs == {"ready", "drawn", "request", "join", "post",
        "dtor_request", "dtor_join", "dtor_close"} \cup Closing
Views == {"SessionOpen", "Idle", "Checking", "Lost", "Recovery", "Other"}
FrontEnds == [pc : Pcs, cmd : Threads!Commands, seen : Views,
              early : BOOLEAN, late : BOOLEAN]
Orders == Threads!Commands \cup {"Close"}

PollInv ==
    /\ fe \in FrontEnds
    /\ own \in Views
    /\ tasks \in Seq(Orders \cup {"Poll"})
    /\ dog \in {"none", "waiting", "polling", "finished"}
    /\ Threads!OnePollPerWatchdog

OpensLast ==
    /\ Threads!OpenPending =>
          \/ fe.pc \in {"ready", "dtor_request", "dtor_join"}
          \/ fe.pc = "drawn" /\ fe.early
    /\ \A i, j \in DOMAIN tasks : i < j /\ tasks[i] = "Open" => tasks[j] # "Check"
    /\ running \in {"Open", "Opening", "Start"} => ~Threads!Queued("Check")
    /\ running = "Start" =>
          /\ own = "SessionOpen"
          /\ fe.pc = "drawn" => fe.early \/ fe.seen = "SessionOpen"
          /\ fe.pc \in {"request", "join", "post"} => fe.cmd # "Check"
          /\ fe.pc \notin Closing \cup {"dtor_close"}

CheckUnderWay ==
    \/ fe.pc = "post" /\ fe.cmd = "Check"
    \/ Threads!Queued("Check")
    \/ running = "Check"

Joined ==
    /\ own = "Idle" \/ running \in {"Checking", "Opening", "Start"} => dog = "none"
    /\ CheckUnderWay => dog = "none"
    /\ fe.pc \in Closing \cup {"dtor_close"} => dog = "none"
    /\ fe.pc = "drawn" /\ ~fe.early /\ fe.seen # "SessionOpen" => own # "SessionOpen"

Linked ==
    /\ own = "SessionOpen" =>
          \/ link
          \/ fe.pc \in Closing /\ tasks = <<>> /\ running \in {"none", "exited"}
    /\ \A i \in DOMAIN tasks :
          tasks[i] = "Close" => i = Len(tasks) /\ fe.pc \in Closing
    /\ running = "Close" => tasks = <<>> /\ fe.pc \in Closing

Intact == fate = "ok" /\ OpensLast /\ Joined /\ Linked
CommandInv == fe.late \/ Intact

\* A task at the end of a queue, and one taken from its head.
LEMMA QueueAppend ==
    ASSUME NEW S, NEW q \in Seq(S), NEW x \in S
    PROVE  /\ DOMAIN q = 1 .. Len(q) /\ Len(q) \in Nat
           /\ Append(q, x) \in Seq(S) /\ DOMAIN Append(q, x) = 1 .. Len(q) + 1
           /\ Len(Append(q, x)) = Len(q) + 1
           /\ \A i \in 1 .. Len(q) : Append(q, x)[i] = q[i]
           /\ Append(q, x)[Len(q) + 1] = x
BY AppendProperties

\* Taking the task at the head of a queue.
LEMMA QueueTail ==
    ASSUME NEW S, NEW q \in Seq(S), q # <<>>
    PROVE  /\ DOMAIN q = 1 .. Len(q) /\ Len(q) \in Nat \ {0}
           /\ Head(q) = q[1] /\ Tail(q) \in Seq(S)
           /\ Len(Tail(q)) = Len(q) - 1
           /\ DOMAIN Tail(q) = 1 .. Len(q) - 1
           /\ \A i \in 1 .. Len(q) - 1 : Tail(q)[i] = q[i + 1]
BY HeadTailProperties, EmptySeq

\* Where the front end is, after any step.
LEMMA FrontEndMoves ==
    ASSUME fe \in FrontEnds, own \in Views, Threads!Next
    PROVE  fe' \in FrontEnds
<1> USE DEF FrontEnds, Pcs, Closing, Threads!Go
<1>1. CASE Threads!Submit
  <2>1. PICK c \in Threads!Offered(fe.seen) :
          fe' = [fe EXCEPT !.pc = IF Threads!StopsWatchdog(c) THEN "request" ELSE "post",
                           !.cmd = c, !.late = @ \/ fe.early]
    BY <1>1 DEF Threads!Submit
  <2>2. c \in Threads!Commands
    BY <2>1 DEF Threads!Offered, Threads!Commands, Views
  <2> QED
    BY <2>1, <2>2
<1>2. CASE Threads!Draw
  <2>1. Threads!OpenPending \in BOOLEAN
    BY DEF Threads!OpenPending
  <2> QED
    BY <1>2, <2>1 DEF Threads!Draw
<1>3. ASSUME NEW from, NEW to \in Pcs, Threads!Join(from, to)
      PROVE  fe' \in FrontEnds
  BY <1>3 DEF Threads!Join
<1>4. CASE Threads!Join("join", "post") \/ Threads!Join("dtor_join", "dtor_close")
  BY <1>3, <1>4
<1>5. ASSUME NEW to \in Pcs, Threads!Go(to) PROVE fe' \in FrontEnds
  BY <1>5
<1>6. CASE fe' = fe
  BY <1>6
<1>7. CASE Threads!FrontEnd
  BY <1>1, <1>2, <1>4, <1>5, <1>6, <1>7
     DEF Threads!FrontEnd, Threads!RequestStop, Threads!PostCommand,
         Threads!Quit, Threads!PostClose, Threads!AwaitClose, Threads!StopAndJoin,
         Threads!JoinWorker, Threads!DestroyMembers
<1> QED
  BY <1>6, <1>7
     DEF Threads!Next, Threads!Worker, Threads!Run, Threads!CheckStatus,
         Threads!FinishCheck, Threads!OpenSession, Threads!FinishOpen,
         Threads!StartWatchdog, Threads!ReleaseSession,
         Threads!RecoverDiagnosticOrphan, Threads!GatedCommand,
         Threads!PollWatchdog, Threads!Close,
         Threads!Unchanged, Threads!Watchdog, Threads!WatchdogWakes,
         Threads!WatchdogPosts, Threads!WatchdogResumes, Threads!Ended, Threads!vars

\* What is published of the session, after any step.
LEMMA OwnershipMoves == ASSUME own \in Views, Threads!Next PROVE own' \in Views
<1> USE DEF Views, Threads!Refused, Threads!Keep, Threads!Lose, Threads!Dereference
<1>1. CASE Threads!Worker
  BY <1>1
     DEF Threads!Worker, Threads!Run, Threads!CheckStatus,
         Threads!FinishCheck, Threads!OpenSession, Threads!FinishOpen,
         Threads!StartWatchdog, Threads!ReleaseSession,
         Threads!RecoverDiagnosticOrphan, Threads!GatedCommand,
         Threads!PollWatchdog, Threads!Close
<1>2. CASE own' = own
  BY <1>2
<1> QED
  BY <1>1, <1>2
     DEF Threads!Next, Threads!FrontEnd, Threads!Draw, Threads!Submit,
         Threads!RequestStop, Threads!Join, Threads!PostCommand,
         Threads!Quit, Threads!PostClose, Threads!AwaitClose, Threads!StopAndJoin,
         Threads!JoinWorker, Threads!DestroyMembers, Threads!Watchdog,
         Threads!WatchdogWakes, Threads!WatchdogPosts, Threads!WatchdogResumes,
         Threads!Ended, Threads!vars

\* A poll is posted only when none is waiting, and its watchdog waits for it.
LEMMA PollKept == ASSUME PollInv, Threads!Next PROVE PollInv'
<1> DEFINE Polls == /\ tasks \in Seq(Orders \cup {"Poll"})
                    /\ dog \in {"none", "waiting", "polling", "finished"}
                    /\ Threads!OnePollPerWatchdog
<1>0. fe' \in FrontEnds /\ own' \in Views
  BY FrontEndMoves, OwnershipMoves DEF PollInv
<1> SUFFICES Polls'
  BY <1>0 DEF PollInv
<1> USE DEF PollInv, Threads!OnePollPerWatchdog, Threads!PollWaits, Threads!Queued
<1>1. CASE UNCHANGED <<tasks, running, dog>>
  BY <1>1
<1>2. ASSUME NEW from, NEW to, Threads!Join(from, to)
      PROVE  Polls'
  BY <1>2 DEF Threads!Join
<1>3. ASSUME NEW x \in Orders, tasks' = Append(tasks, x), UNCHANGED <<running, dog>>
      PROVE  Polls'
  BY <1>3, QueueAppend DEF Orders, Threads!Commands
<1>4. ASSUME Threads!Run
      PROVE  Polls'
  <2>1. CASE tasks # <<>> /\ running' = Head(tasks) /\ tasks' = Tail(tasks)
    BY <1>4, <2>1, QueueTail DEF Threads!Run
  <2> QED
    BY <1>4, <2>1 DEF Threads!Run
<1>5. ASSUME running' \in {"none", "Start", "Checking", "Opening"}, UNCHANGED <<tasks, dog>>
      PROVE  Polls'
  BY <1>5
<1>6. ASSUME Threads!StartWatchdog
      PROVE  Polls'
  BY <1>6 DEF Threads!StartWatchdog, Threads!Return, Threads!Unchanged, Threads!Executing
<1>7. ASSUME Threads!WatchdogPosts
      PROVE  Polls'
  <2>1. CASE tasks' = Append(tasks, "Poll") /\ dog' = "polling" /\ running' = running
    BY <1>7, <2>1, QueueAppend DEF Threads!WatchdogPosts
  <2> QED
    BY <1>1, <1>7, <2>1 DEF Threads!WatchdogPosts
<1>8. ASSUME Threads!WatchdogWakes \/ Threads!WatchdogResumes
      PROVE  Polls'
  BY <1>8 DEF Threads!WatchdogWakes, Threads!WatchdogResumes
<1>9. ASSUME Threads!FrontEnd
      PROVE  Polls'
  <2>1. CASE Threads!PostCommand \/ Threads!PostClose
    BY <1>3, <2>1 DEF Threads!PostCommand, Threads!PostClose, Orders, FrontEnds
  <2> HIDE DEF Polls
  <2> QED
    BY <1>1, <1>2, <1>9, <2>1
       DEF Threads!FrontEnd, Threads!Draw, Threads!Submit, Threads!RequestStop,
           Threads!Quit, Threads!AwaitClose, Threads!StopAndJoin, Threads!JoinWorker,
           Threads!DestroyMembers
<1>10. ASSUME Threads!Worker
       PROVE  Polls'
  <2> HIDE DEF Polls
  <2> QED
    BY <1>4, <1>5, <1>6, <1>10
       DEF Threads!Worker, Threads!CheckStatus, Threads!FinishCheck,
           Threads!OpenSession, Threads!FinishOpen, Threads!Refused,
           Threads!ReleaseSession, Threads!RecoverDiagnosticOrphan,
           Threads!GatedCommand, Threads!PollWatchdog,
           Threads!Close, Threads!Return, Threads!Unchanged
<1> QED
  BY <1>1, <1>7, <1>8, <1>9, <1>10
     DEF Threads!Next, Threads!Watchdog, Threads!Ended, Threads!vars

\* What an order at the end of the queue may be, and what is true after it.
LEMMA OrderKept ==
    ASSUME PollInv, Intact, NEW x \in Orders, tasks' = Append(tasks, x),
           UNCHANGED <<running, own, link, dog, fate>>,
           \/ /\ fe.pc = "post" /\ x = fe.cmd /\ fe'.pc = "ready"
           \/ /\ fe.pc = "dtor_close" /\ x = "Close" /\ fe'.pc = "dtor_wait"
    PROVE  Intact'
<1> USE DEF Intact
<1>1. /\ DOMAIN tasks = 1 .. Len(tasks) /\ DOMAIN tasks' = 1 .. Len(tasks) + 1
      /\ \A i \in 1 .. Len(tasks) : tasks'[i] = tasks[i]
      /\ tasks'[Len(tasks) + 1] = x /\ Len(tasks) \in Nat /\ Len(tasks') = Len(tasks) + 1
  BY QueueAppend DEF PollInv
<1>2. ~Threads!OpenPending
  BY DEF OpensLast
<1>3. \A i \in DOMAIN tasks : tasks[i] # "Close" /\ tasks[i] # "Open"
  BY <1>2 DEF Linked, Closing, Threads!OpenPending, Threads!Queued
<1>4. running # "Close" /\ x \in Threads!Commands \cup {"Close"}
  BY DEF Linked, Closing, Orders
<1>5. \A c \in Orders : Threads!Queued(c)' => Threads!Queued(c) \/ c = x
  BY <1>1 DEF Threads!Queued
<1>6. OpensLast'
  <2>1. Threads!OpenPending' => x = "Open"
    BY <1>2, <1>5 DEF Threads!OpenPending, Orders, Threads!Commands
  <2>2. x = "Open" => fe'.pc = "ready"
    OBVIOUS
  <2>3. \A i, j \in DOMAIN tasks' : i < j /\ tasks'[i] = "Open" => tasks'[j] # "Check"
    BY <1>1, <1>3
  <2>4. running \in {"Open", "Opening", "Start"} => x # "Check"
    BY <1>2 DEF OpensLast, Threads!OpenPending
  <2>5. running \in {"Open", "Opening", "Start"} => ~Threads!Queued("Check")'
    BY <1>5, <2>4 DEF OpensLast, Orders, Threads!Commands
  <2>6. running = "Start" => own = "SessionOpen" /\ fe'.pc = "ready"
    BY DEF OpensLast
  <2> QED
    BY <2>1, <2>2, <2>3, <2>5, <2>6 DEF OpensLast, Closing
<1>7. Joined'
  BY <1>5 DEF Joined, CheckUnderWay, Closing, Orders, Threads!Commands
<1>8. Linked'
  <2>1. own = "SessionOpen" => link
    BY DEF Linked, Closing
  <2>2. \A i \in DOMAIN tasks' : tasks'[i] = "Close" => i = Len(tasks') /\ x = "Close"
    BY <1>1, <1>3
  <2>3. x = "Close" => fe'.pc \in Closing
    BY DEF Closing, PollInv, FrontEnds, Threads!Commands
  <2> QED
    BY <1>4, <2>1, <2>2, <2>3 DEF Linked
<1> QED
  BY <1>6, <1>7, <1>8

\* The front end joins the watchdog before it posts what closes a session or
\* checks its target.
LEMMA FrontEndKept ==
    ASSUME PollInv, CommandInv, Threads!FrontEnd
    PROVE  CommandInv'
<1>0. fe.late => fe'.late
  BY DEF Threads!FrontEnd, Threads!Draw, Threads!Submit, Threads!RequestStop, Threads!Join,
         Threads!PostCommand, Threads!Quit, Threads!PostClose, Threads!AwaitClose,
         Threads!StopAndJoin, Threads!JoinWorker, Threads!DestroyMembers, Threads!Go,
         PollInv, FrontEnds
<1> SUFFICES ASSUME Intact, ~fe'.late PROVE Intact'
  BY <1>0 DEF CommandInv
<1> USE DEF Threads!At, Threads!Go
<1>1. CASE Threads!Draw
  <2>1. /\ UNCHANGED <<tasks, running, own, link, dog, fate>>
        /\ fe.pc \in {"ready", "drawn"} /\ fe'.pc = "drawn" /\ fe'.seen = own
        /\ fe'.early <=> Threads!OpenPending
    BY <1>1 DEF Threads!Draw, PollInv, FrontEnds
  <2>2. OpensLast'
    BY <2>1 DEF Intact, OpensLast, Threads!OpenPending, Threads!Queued, Closing
  <2>3. Joined'
    BY <2>1 DEF Intact, Joined, CheckUnderWay, Threads!Queued, Closing
  <2>4. Linked'
    BY <2>1 DEF Intact, Linked, Closing
  <2> QED
    BY <2>1, <2>2, <2>3, <2>4 DEF Intact
<1>2. CASE Threads!Submit
  <2>0. PICK c \in Threads!Offered(fe.seen) :
          fe' = [fe EXCEPT !.pc = IF Threads!StopsWatchdog(c) THEN "request" ELSE "post",
                           !.cmd = c, !.late = @ \/ fe.early]
    BY <1>2 DEF Threads!Submit
  <2>1. /\ UNCHANGED <<tasks, running, own, link, dog, fate>>
        /\ fe.pc = "drawn" /\ ~fe.early /\ fe'.cmd = c
        /\ fe'.pc = IF Threads!StopsWatchdog(c) THEN "request" ELSE "post"
    BY <1>2, <2>0 DEF Threads!Submit, PollInv, FrontEnds
  <2>2. c = "Check" => fe.seen # "SessionOpen"
    BY DEF Threads!Offered
  <2>3. c = "Check" => own # "SessionOpen" /\ running # "Start" /\ fe'.pc = "request"
    BY <2>1, <2>2 DEF Intact, Joined, OpensLast, Threads!StopsWatchdog
  <2>4. ~Threads!OpenPending
    BY <2>1 DEF Intact, OpensLast
  <2>5. fe'.pc \in {"request", "post"}
    BY <2>1
  <2>6. OpensLast'
    BY <2>1, <2>3, <2>4, <2>5 DEF Intact, OpensLast, Threads!OpenPending, Threads!Queued, Closing
  <2>7. Joined'
    BY <2>1, <2>3, <2>5 DEF Intact, Joined, CheckUnderWay, Threads!Queued, Closing
  <2>8. Linked'
    BY <2>1, <2>5 DEF Intact, Linked, Closing
  <2> QED
    BY <2>1, <2>6, <2>7, <2>8 DEF Intact
<1>3. ASSUME fe' = [fe EXCEPT !.pc = fe'.pc],
             UNCHANGED <<tasks, running, own, link, dog, fate>>,
             \/ fe.pc = "request" /\ fe'.pc = "join"
             \/ fe.pc \in {"ready", "drawn", "dtor_request"}
                   /\ fe'.pc \in {"dtor_request", "dtor_join"}
             \/ fe.pc \in Closing /\ fe'.pc \in Closing
      PROVE  Intact'
  <2>0. fe'.cmd = fe.cmd
    BY <1>3 DEF PollInv, FrontEnds
  <2>1. OpensLast'
    BY <1>3, <2>0 DEF Intact, OpensLast, Threads!OpenPending, Threads!Queued, Closing
  <2>2. Joined'
    BY <1>3, <2>0 DEF Intact, Joined, CheckUnderWay, Threads!Queued, Closing
  <2>3. Linked'
    BY <1>3 DEF Intact, Linked, Closing
  <2> QED
    BY <1>3, <2>1, <2>2, <2>3 DEF Intact
<1>4. ASSUME NEW from, NEW to, from \in {"join", "dtor_join"},
             to = IF from = "join" THEN "post" ELSE "dtor_close",
             Threads!Join(from, to)
      PROVE  Intact'
  <2>1. /\ UNCHANGED <<tasks, running, own, link, fate>>
        /\ dog' = "none" /\ fe.pc = from /\ fe'.pc = to /\ fe'.cmd = fe.cmd
        /\ from = "dtor_join" => ~Threads!OpenPending /\ running # "Start"
    BY <1>4 DEF Threads!Join, PollInv, FrontEnds
  <2>2. ~Threads!OpenPending
    BY <1>4, <2>1 DEF Intact, OpensLast
  <2>3. OpensLast'
    BY <1>4, <2>1, <2>2 DEF Intact, OpensLast, Threads!OpenPending, Threads!Queued, Closing
  <2>4. Joined'
    BY <1>4, <2>1 DEF Intact, Joined
  <2>5. Linked'
    BY <1>4, <2>1 DEF Intact, Linked, Closing
  <2> QED
    BY <2>1, <2>3, <2>4, <2>5 DEF Intact
<1>5. CASE Threads!PostCommand \/ Threads!PostClose
  BY <1>5, OrderKept DEF Threads!PostCommand, Threads!PostClose, PollInv, FrontEnds, Orders
<1>6. CASE \/ Threads!RequestStop("request", "join")
           \/ Threads!RequestStop("dtor_request", "dtor_join")
           \/ Threads!Quit
  BY <1>3, <1>6 DEF Threads!RequestStop, Threads!Quit, PollInv, FrontEnds
<1>7. CASE Threads!AwaitClose \/ Threads!StopAndJoin \/ Threads!JoinWorker
  BY <1>3, <1>7 DEF Threads!AwaitClose, Threads!StopAndJoin, Threads!JoinWorker,
                    PollInv, FrontEnds, Closing
<1>8. CASE Threads!DestroyMembers
  <2>1. dog = "none"
    BY <1>8 DEF Threads!DestroyMembers, Intact, Joined, Closing
  <2> QED
    BY <1>3, <1>8, <2>1 DEF Threads!DestroyMembers, PollInv, FrontEnds, Closing
<1> QED
  BY <1>1, <1>2, <1>4, <1>5, <1>6, <1>7, <1>8 DEF Threads!FrontEnd

\* The worker takes the task at the head of the queue.
LEMMA RunKept ==
    ASSUME PollInv, Intact, running = "none", tasks # <<>>,
           running' = Head(tasks), tasks' = Tail(tasks),
           UNCHANGED <<own, link, dog, fe, fate>>
    PROVE  Intact'
<1>1. /\ DOMAIN tasks = 1 .. Len(tasks) /\ Len(tasks) \in Nat \ {0}
      /\ running' = tasks[1] /\ DOMAIN tasks' = 1 .. Len(tasks) - 1
      /\ Len(tasks') = Len(tasks) - 1 /\ tasks' \in Seq(Orders \cup {"Poll"})
      /\ \A i \in 1 .. Len(tasks) - 1 : tasks'[i] = tasks[i + 1]
  BY QueueTail DEF PollInv
<1>2. /\ \A i \in DOMAIN tasks' : i + 1 \in DOMAIN tasks /\ tasks'[i] = tasks[i + 1] /\ 1 < i + 1
      /\ \A i, j \in DOMAIN tasks' : i < j => i + 1 < j + 1
      /\ 1 \in DOMAIN tasks /\ tasks[1] \in Orders \cup {"Poll"}
  BY <1>1 DEF PollInv
<1>3. /\ \A c : Threads!Queued(c)' \/ running' = c => Threads!Queued(c)
      /\ running' \notin {"Opening", "Start", "Checking", "none", "exited"}
  BY <1>1, <1>2 DEF Threads!Queued, Orders, Threads!Commands
<1>4. OpensLast'
  <2>1. Threads!OpenPending' => Threads!OpenPending
    BY <1>3 DEF Threads!OpenPending
  <2>2. \A i, j \in DOMAIN tasks' : i < j /\ tasks'[i] = "Open" => tasks'[j] # "Check"
    BY <1>2 DEF Intact, OpensLast
  <2>3. running' = "Open" => ~Threads!Queued("Check")'
    BY <1>1, <1>2 DEF Intact, OpensLast, Threads!Queued
  <2> QED
    BY <1>3, <2>1, <2>2, <2>3 DEF Intact, OpensLast
<1>5. Joined'
  BY <1>3 DEF Intact, Joined, CheckUnderWay
<1>6. Linked'
  <2>1. running' = "Close" => tasks' = <<>> /\ fe.pc \in Closing
    BY <1>1, <1>2, EmptySeq DEF Intact, Linked
  <2>2. \A i \in DOMAIN tasks' : tasks'[i] = "Close" => i = Len(tasks') /\ fe.pc \in Closing
    BY <1>1, <1>2 DEF Intact, Linked
  <2> QED
    BY <2>1, <2>2 DEF Intact, Linked
<1> QED
  BY <1>4, <1>5, <1>6 DEF Intact

\* Only an Open starts a watchdog, and none is left when it does.
LEMMA WorkerKept ==
    ASSUME PollInv, CommandInv, Threads!Worker
    PROVE  CommandInv'
<1>0. fe' = fe
  BY DEF Threads!Worker, Threads!Run, Threads!CheckStatus,
         Threads!FinishCheck, Threads!OpenSession, Threads!FinishOpen,
         Threads!StartWatchdog, Threads!ReleaseSession,
         Threads!RecoverDiagnosticOrphan, Threads!GatedCommand,
         Threads!PollWatchdog, Threads!Close, Threads!Unchanged
<1> SUFFICES ASSUME Intact PROVE Intact'
  BY <1>0 DEF CommandInv
<1> USE DEF Threads!Executing, Threads!Return, Threads!Unchanged
<1>1. CASE Threads!Run
  <2>1. UNCHANGED <<own, link, dog, fe, fate>> /\ running = "none"
    BY <1>1 DEF Threads!Run
  <2>2. CASE running' = "exited" /\ tasks' = tasks
    BY <2>1, <2>2 DEF Intact, OpensLast, Joined, Linked, CheckUnderWay, Threads!OpenPending,
                      Threads!Queued
  <2> QED
    BY <1>1, <2>1, <2>2, RunKept DEF Threads!Run
\* A task that ends, or the first step of a Check or an Open.
<1>2. ASSUME running' \in {"none", "Checking", "Opening"}, UNCHANGED <<tasks, fe, dog, fate>>,
             running' = "Checking" => running = "Check",
             running' = "Opening" => running = "Open" /\ own = "Idle",
             own' = "Idle" => own = "Idle" \/ running = "Checking",
             own' = "SessionOpen" => own = "SessionOpen" /\ (link' = link \/ running = "Close")
      PROVE  Intact'
  <2>1. OpensLast'
    BY <1>2 DEF Intact, OpensLast, Threads!OpenPending, Threads!Queued
  <2>2. Joined'
    BY <1>2 DEF Intact, Joined, CheckUnderWay, Threads!Queued
  <2>3. Linked'
    BY <1>2 DEF Intact, Linked
  <2> QED
    BY <1>2, <2>1, <2>2, <2>3 DEF Intact
<1>3. CASE Threads!CheckStatus \/ Threads!FinishCheck
  BY <1>2, <1>3 DEF Threads!CheckStatus, Threads!FinishCheck, Threads!Refused
<1>4. CASE Threads!OpenSession
  BY <1>2, <1>4 DEF Threads!OpenSession, Threads!Refused
<1>5. CASE Threads!FinishOpen
  <2>1. CASE own' = "Other" /\ running' = "none"
    BY <1>2, <1>5, <2>1 DEF Threads!FinishOpen
  <2>2. CASE running' = "Start" /\ own' = "SessionOpen" /\ link' = TRUE
    <3>1. /\ UNCHANGED <<tasks, fe, dog, fate>> /\ running = "Opening"
          /\ dog = "none" /\ ~Threads!Queued("Check") /\ Threads!OpenPending
      BY <1>5 DEF Threads!FinishOpen, Intact, Joined, OpensLast, Threads!OpenPending
    <3>2. \/ fe.pc \in {"ready", "dtor_request", "dtor_join"}
          \/ fe.pc = "drawn" /\ fe.early
      BY <3>1 DEF Intact, OpensLast
    <3>3. OpensLast'
      BY <2>2, <3>1, <3>2 DEF Intact, OpensLast, Threads!OpenPending, Threads!Queued, Closing
    <3>4. Joined'
      BY <2>2, <3>1, <3>2 DEF Intact, Joined, CheckUnderWay, Closing
    <3>5. Linked'
      BY <2>2, <3>1 DEF Intact, Linked
    <3> QED
      BY <3>1, <3>3, <3>4, <3>5 DEF Intact
  <2> QED
    BY <1>5, <2>1, <2>2 DEF Threads!FinishOpen
<1>6. CASE Threads!StartWatchdog
  <2>1. /\ UNCHANGED <<tasks, fe>> /\ running = "Start" /\ running' = "none"
        /\ dog = "none" /\ ~Threads!Queued("Check") /\ own = "SessionOpen"
        /\ fe.pc \in {"request", "join", "post"} => fe.cmd # "Check"
        /\ fe.pc \notin Closing \cup {"dtor_close"}
    BY <1>6 DEF Threads!StartWatchdog, Intact, Joined, OpensLast
  <2>2. CASE UNCHANGED <<own, link>>
    <3>1. fate' = fate
      BY <1>6, <2>1, <2>2 DEF Threads!StartWatchdog
    <3>2. OpensLast'
      BY <2>1, <2>2 DEF Intact, OpensLast, Threads!OpenPending, Threads!Queued
    <3>3. Joined'
      BY <2>1, <2>2 DEF Intact, Joined, CheckUnderWay, Threads!Queued
    <3>4. Linked'
      BY <2>1, <2>2 DEF Intact, Linked
    <3> QED
      BY <3>1, <3>2, <3>3, <3>4 DEF Intact
  <2>3. CASE own' = "Other" /\ UNCHANGED <<dog, fate>>
    BY <1>2, <2>1, <2>3
  <2> QED
    BY <1>6, <2>2, <2>3 DEF Threads!StartWatchdog
<1>7. CASE Threads!ReleaseSession \/ Threads!RecoverDiagnosticOrphan
  BY <1>2, <1>7 DEF Threads!ReleaseSession, Threads!RecoverDiagnosticOrphan
<1>8. CASE Threads!GatedCommand \/ Threads!PollWatchdog
  <2>1. running \in {"Gated", "Poll"} /\ (own = "SessionOpen" => link)
    BY <1>8 DEF Threads!GatedCommand, Threads!PollWatchdog, Intact, Linked
  <2> QED
    BY <1>2, <1>8, <2>1
       DEF Threads!GatedCommand, Threads!PollWatchdog, Threads!PollStops,
           Threads!Dereference, Threads!Lose, Threads!Keep
<1>9. CASE Threads!Close
  BY <1>2, <1>9 DEF Threads!Close
<1> QED
  BY <1>1, <1>3, <1>4, <1>5, <1>6, <1>7, <1>8, <1>9 DEF Threads!Worker

\* The watchdog thread ends only when it was asked to.
LEMMA WatchdogKept ==
    ASSUME PollInv, CommandInv, Threads!Watchdog
    PROVE  CommandInv'
<1>0. fe' = fe
  BY DEF Threads!Watchdog, Threads!WatchdogWakes, Threads!WatchdogPosts,
         Threads!WatchdogResumes
<1> SUFFICES ASSUME Intact PROVE Intact'
  BY <1>0 DEF CommandInv
<1>1. /\ UNCHANGED <<running, own, link, fe, fate>>
      /\ dog # "none"
      /\ tasks' = tasks \/ tasks' = Append(tasks, "Poll")
  BY DEF Threads!Watchdog, Threads!WatchdogWakes, Threads!WatchdogPosts,
         Threads!WatchdogResumes
<1>2. /\ \A c \in Orders : Threads!Queued(c)' <=> Threads!Queued(c)
      /\ \A i, j \in DOMAIN tasks' :
            i < j /\ tasks'[i] = "Open" /\ tasks'[j] = "Check" =>
                i \in DOMAIN tasks /\ j \in DOMAIN tasks
                /\ tasks[i] = "Open" /\ tasks[j] = "Check"
  <2>1. CASE tasks' = tasks
    BY <2>1 DEF Threads!Queued
  <2>2. CASE tasks' = Append(tasks, "Poll")
    <3>1. /\ DOMAIN tasks = 1 .. Len(tasks) /\ DOMAIN tasks' = 1 .. Len(tasks) + 1
          /\ \A i \in 1 .. Len(tasks) : tasks'[i] = tasks[i]
          /\ tasks'[Len(tasks) + 1] = "Poll" /\ Len(tasks) \in Nat
      BY <2>2, QueueAppend DEF PollInv
    <3> QED
      BY <3>1 DEF Threads!Queued, Orders, Threads!Commands
  <2> QED
    BY <1>1, <2>1, <2>2
<1>3. ~Threads!Queued("Close") /\ running # "Close" /\ fe.pc \notin Closing \cup {"dtor_close"}
  BY <1>1 DEF Intact, Joined, Linked, Threads!Queued
<1>4. OpensLast'
  BY <1>1, <1>2, <1>3 DEF Intact, OpensLast, Threads!OpenPending, Orders, Threads!Commands
<1>5. Joined'
  <2>1. ~CheckUnderWay /\ own # "Idle" /\ running \notin {"Checking", "Opening", "Start"}
    BY <1>1 DEF Intact, Joined
  <2> QED
    BY <1>1, <1>2, <1>3, <2>1
       DEF Intact, Joined, CheckUnderWay, Orders, Threads!Commands
<1>6. Linked'
  BY <1>1, <1>2, <1>3 DEF Intact, Linked, Threads!Queued, Orders
<1> QED
  BY <1>1, <1>4, <1>5, <1>6 DEF Intact

\* At the start there is neither a task nor a watchdog.
LEMMA ThreadsStart == ASSUME Threads!Init PROVE PollInv /\ CommandInv
BY EmptySeq DEF Threads!Init, PollInv, CommandInv, Intact, OpensLast, Joined, Linked,
       CheckUnderWay, Pcs, Closing, Views, FrontEnds,
       Orders, Threads!Commands, Threads!OnePollPerWatchdog, Threads!PollWaits,
       Threads!OpenPending, Threads!Queued

(***************************************************************************)
(* Whatever the front end does, at most one poll waits or runs, and only   *)
(* while its watchdog waits for it (WatchdogLoop, PollWatchdog).           *)
(***************************************************************************)
THEOREM OnePollAlways == Spec => []Threads!OnePollPerWatchdog
<1>1. Init => PollInv
  BY ThreadsStart DEF Init
<1>2. PollInv /\ [Next]_vars => PollInv'
  <2> SUFFICES ASSUME PollInv, [Next]_vars PROVE PollInv'
    OBVIOUS
  <2>1. CASE UNCHANGED threads
    BY <2>1 DEF threads, PollInv, Threads!OnePollPerWatchdog, Threads!PollWaits,
                Threads!Queued
  <2> QED
    BY <2>1, PollKept DEF Next, CliSteps, GuidedSteps, ThreadSteps, vars
<1>3. PollInv => Threads!OnePollPerWatchdog
  BY DEF PollInv
<1> QED
  BY <1>1, <1>2, <1>3, PTL DEF Spec

(***************************************************************************)
(* No thread object is lost and nothing reads through a closed transport,  *)
(* whatever the front end submits and without it waiting for any of it,    *)
(* unless it submitted a command from a snapshot drawn while an Open was   *)
(* pending, or the destructor joined the watchdog before an Open was       *)
(* finished (StartWatchdog, StopWatchdog, ~OwnershipService).              *)
(***************************************************************************)
THEOREM ThreadsAlwaysJoined == Spec => []ThreadsAreJoined
<1> DEFINE Inv == PollInv /\ CommandInv
<1>1. Init => Inv
  BY ThreadsStart DEF Init
<1>2. Inv /\ [Next]_vars => Inv'
  <2> SUFFICES ASSUME Inv, [Next]_vars PROVE Inv'
    OBVIOUS
  <2>1. CASE UNCHANGED threads
    BY <2>1 DEF threads, PollInv, CommandInv, Intact, OpensLast, Joined, Linked, CheckUnderWay,
                Threads!OnePollPerWatchdog, Threads!PollWaits, Threads!OpenPending,
                Threads!Queued
  <2>2. CASE Threads!Next
    <3>1. PollInv'
      BY <2>2, PollKept
    <3>2. CASE UNCHANGED threads
      BY <2>1, <3>2
    <3> QED
      BY <2>2, <3>1, <3>2, FrontEndKept, WorkerKept, WatchdogKept
         DEF Threads!Next, Threads!Ended, Threads!vars, threads
  <2> QED
    BY <2>1, <2>2 DEF Next, CliSteps, GuidedSteps, ThreadSteps, vars
<1>3. Inv => ThreadsAreJoined
  BY DEF PollInv, CommandInv, Intact, ThreadsAreJoined, Threads!OnlyLateCallsKill,
         Threads!NothingDies
<1> QED
  BY <1>1, <1>2, <1>3, PTL DEF Spec

----------------------------------------------------------------------------
\* The command line: its commands, the length of their flows, and the stages
\* before and after a session is open.
CliCommands == {"status", "session", "audit", "capture", "compare", "apply",
                "startup", "acquire", "recover"}
Length == [status |-> 2, session |-> 7, audit |-> 7, capture |-> 8, compare |-> 8,
           apply |-> 10, startup |-> 11, acquire |-> 15, recover |-> 4]
Before == {"use", "check", "load", "confirm", "handoff", "open", "look", "recover"}
Within == {"audit", "capture", "save", "ask", "apply", "startup", "start", "tune",
           "watch", "stop", "csv", "release"}
Phases == {"parse", "resolve", "enter", "joining", "waiting", "read", "talk",
           "tuning", "tuned", "exited"}
Working == {"audit", "capture", "save", "apply", "startup", "start", "source",
            "preview", "restore", "stop", "release"}

CliRecords ==
    [command : CliCommands, given : SUBSET Given, at : Nat, phase : Phases, id : Nat,
     op : {"none", "source", "preview", "restore"}, ready : BOOLEAN, result : {0, 1},
     code : {0, 1, 130}, tunes : Nat, late : BOOLEAN]

\* A phase of the front end belongs to a stage of its kind.
CliTyped ==
    /\ cli \in CliRecords /\ interrupted \in BOOLEAN
    /\ cli.at \in 1 .. Length[cli.command]
    /\ cli.phase \in {"parse", "resolve"} => cli.at = 1
    /\ cli.phase \in {"joining", "waiting", "read"} => Cli!Stage \notin Cli!Conversations
    /\ cli.phase = "joining" => Cli!StopsWatchdog(Cli!Stage)
    /\ cli.phase = "talk" => Cli!Stage \in Cli!Conversations
    /\ cli.phase \in {"tuning", "tuned"} => Cli!Stage = "tune"
    /\ cli.phase \notin {"parse", "exited"} => Cli!ParseCliOptions(cli.command, cli.given)

NoneYet == session = "none" /\ snap.acquisition = "NotRun"
Holding(name) == \E i \in DOMAIN queue : queue[i].name = name
OnlyResting == \A i \in DOMAIN queue : queue[i].name \in Resting

\* Until the session is open the tuner does nothing but the command that is
\* waited for: it is at rest, or has been sent the command, or is at it, or
\* has opened the session.
Early == cli.command = "recover" \/ Cli!Stage \in Before
AtPause == /\ queue = <<>> /\ busy = Guided!Nothing /\ watchdog = "off"
           /\ snap.ownership # "SessionOpen"
Sent == /\ queue = <<Guided!Task(Cli!Stage, cli.id)>> /\ busy = Guided!Nothing
        /\ watchdog = "off" /\ ~newer /\ snap.ownership # "SessionOpen"
UnderWayEarly ==
    /\ queue = <<>> /\ busy.name = Cli!Stage /\ watchdog = "off"
    /\ \/ Cli!Stage \in {"check", "open"} /\ snap.ownership = "Checking"
       \/ /\ Cli!Stage = "recover" /\ snap.recovery.state = "Running"
          /\ snap.ownership # "SessionOpen"
Opened == Cli!Stage = "open" /\ OnlyResting /\ busy = Guided!Nothing
EarlyInv ==
    /\ NoneYet /\ ~cli.late
    /\ cli.phase = "waiting" => AtPause \/ Sent \/ UnderWayEarly \/ Opened
    /\ cli.phase = "read" => AtPause \/ Opened
    /\ cli.phase \notin {"waiting", "read"} => AtPause
    /\ cli.phase = "joining" => ~newer
    /\ cli.command = "recover" /\ cli.at >= 3 /\ cli.phase \in {"enter", "talk"} => ~newer

\* From then on it works on commands of the session, and the release is the
\* last of them.
Leaving == Cli!Stage = "release" /\ cli.phase \in {"waiting", "read"}
LateInv ==
    /\ \A i \in DOMAIN queue : queue[i].name \in Working \cup Resting
    /\ busy.name \in Working \cup {"none"}
    /\ ~Leaving => /\ ~Holding("release") /\ busy.name # "release"
                   /\ snap.ownership # "Disconnected"
    /\ \A i, j \in DOMAIN queue :
          queue[i].name = "release" /\ i < j => queue[j].name \in Resting
    /\ busy.name = "release" => OnlyResting
    /\ snap.ownership = "Disconnected" =>
          OnlyResting /\ busy = Guided!Nothing /\ session = "none"
    /\ Cli!Stage = "release" /\ cli.phase = "read" => snap.ownership = "Disconnected"

AtRestAgain == /\ OnlyResting /\ busy = Guided!Nothing
               /\ snap.ownership # "SessionOpen" /\ session = "none"
PhaseInv == IF cli.phase = "exited" THEN cli.late \/ AtRestAgain
            ELSE IF Early THEN EarlyInv ELSE LateInv

\* There is one start at most, of a run with a project, and until it is taken
\* there has been no acquisition.
Unstarted == \/ cli.command # "acquire" \/ cli.at < 11
             \/ cli.at = 11 /\ cli.phase = "enter"
StartInv ==
    /\ Unstarted => NoneYet /\ ~Holding("start") /\ busy.name # "start"
    /\ \A i, j \in DOMAIN queue :
          queue[i].name = "start" /\ queue[j].name = "start" => i = j
    /\ Holding("start") => NoneYet /\ busy.name # "start" /\ "project" \in cli.given

\* A result of zero is that of an acquisition that has been started, and after
\* the stop it stands for a verified cleanup.
SuccessInv ==
    cli.command = "acquire" /\ cli.result = 0 /\ cli.phase # "exited" =>
        /\ cli.at >= 12 /\ cli.ready /\ ~Holding("start") /\ busy.name # "start"
        /\ cli.at = 14 \/ (cli.at = 15 /\ cli.phase = "enter") => snap.clean

OwnIds == \A i \in DOMAIN queue : queue[i].name \in Resting => queue[i].id = 0

CliInv == TunerInv /\ CliTyped /\ StartInv /\ SuccessInv /\ OwnIds /\ PhaseInv

----------------------------------------------------------------------------
\* What the flows of the commands have in common, and where the acquisition's
\* stages are.
Placed(c, i) ==
    LET s == Cli!Flow[c][i]
        n == Cli!Flow[c][i + 1]
    IN  /\ s \in Before \cup Within
        /\ i = 1 <=> s = "use"
        /\ i = Length[c] <=> (s \in {"release", "recover"} \/ (c = "status" /\ s = "check"))
        /\ c # "recover" =>
              /\ s \notin {"look", "recover"}
              /\ i < Length[c] => (n \in Before <=> s \in Before \ {"open"})
        /\ c = "recover" =>
              /\ s \in {"use", "look", "ask", "recover"}
              /\ i >= 3 <=> s \in {"ask", "recover"}
        /\ s \in {"start", "tune", "stop", "csv"} => c = "acquire"
        /\ c = "acquire" =>
              /\ s = "start" <=> i = 11
              /\ s = "tune" <=> i = 12
              /\ s = "stop" <=> i = 13
              /\ s = "csv" <=> i = 14
              /\ s = "ask" => i = 9
              /\ s \notin {"watch", "save", "apply", "look", "recover"}
              /\ s = "startup" => i = 10

\* The stages of RunCliStatus.
LEMMA RunCliStatusPlaced == \A i \in 1 .. 2 : Placed("status", i)
<1>1. /\ Cli!RunCliStatus[1] = "use" /\ Cli!RunCliStatus[2] = "check"
  BY DEF Cli!RunCliStatus, Cli!Loading, Cli!RunCliStatus, Cli!Opening
<1>2. Cli!Flow["status"] = Cli!RunCliStatus /\ Length["status"] = 2
  BY DEF Cli!Flow, Length
<1>3. \A i \in 1 .. 2 : i = 1 \/ i = 2
  OBVIOUS
<1> QED
  BY <1>1, <1>2, <1>3 DEF Placed, Before, Within

\* The stages of RunCliSession.
LEMMA RunCliSessionPlaced == \A i \in 1 .. 7 : Placed("session", i)
<1>1. /\ Cli!RunCliSession[1] = "use" /\ Cli!RunCliSession[2] = "check"
      /\ Cli!RunCliSession[3] = "confirm" /\ Cli!RunCliSession[4] = "handoff"
      /\ Cli!RunCliSession[5] = "open" /\ Cli!RunCliSession[6] = "watch"
      /\ Cli!RunCliSession[7] = "release"
  BY DEF Cli!RunCliSession, Cli!Loading, Cli!RunCliStatus, Cli!Opening
<1>2. Cli!Flow["session"] = Cli!RunCliSession /\ Length["session"] = 7
  BY DEF Cli!Flow, Length
<1>3. \A i \in 1 .. 7 : i = 1 \/ i = 2 \/ i = 3 \/ i = 4 \/ i = 5 \/
        i = 6 \/ i = 7
  OBVIOUS
<1> QED
  BY <1>1, <1>2, <1>3 DEF Placed, Before, Within

\* The stages of RunCliAudit.
LEMMA RunCliAuditPlaced == \A i \in 1 .. 7 : Placed("audit", i)
<1>1. /\ Cli!RunCliAudit[1] = "use" /\ Cli!RunCliAudit[2] = "check"
      /\ Cli!RunCliAudit[3] = "confirm" /\ Cli!RunCliAudit[4] = "handoff"
      /\ Cli!RunCliAudit[5] = "open" /\ Cli!RunCliAudit[6] = "audit"
      /\ Cli!RunCliAudit[7] = "release"
  BY DEF Cli!RunCliAudit, Cli!Loading, Cli!RunCliStatus, Cli!Opening
<1>2. Cli!Flow["audit"] = Cli!RunCliAudit /\ Length["audit"] = 7
  BY DEF Cli!Flow, Length
<1>3. \A i \in 1 .. 7 : i = 1 \/ i = 2 \/ i = 3 \/ i = 4 \/ i = 5 \/
        i = 6 \/ i = 7
  OBVIOUS
<1> QED
  BY <1>1, <1>2, <1>3 DEF Placed, Before, Within

\* The stages of RunCliCapture.
LEMMA RunCliCapturePlaced == \A i \in 1 .. 8 : Placed("capture", i)
<1>1. /\ Cli!RunCliCapture[1] = "use" /\ Cli!RunCliCapture[2] = "check"
      /\ Cli!RunCliCapture[3] = "confirm" /\ Cli!RunCliCapture[4] = "handoff"
      /\ Cli!RunCliCapture[5] = "open" /\ Cli!RunCliCapture[6] = "capture"
      /\ Cli!RunCliCapture[7] = "save" /\ Cli!RunCliCapture[8] = "release"
  BY DEF Cli!RunCliCapture, Cli!Loading, Cli!RunCliStatus, Cli!Opening
<1>2. Cli!Flow["capture"] = Cli!RunCliCapture /\ Length["capture"] = 8
  BY DEF Cli!Flow, Length
<1>3. \A i \in 1 .. 8 : i = 1 \/ i = 2 \/ i = 3 \/ i = 4 \/ i = 5 \/
        i = 6 \/ i = 7 \/ i = 8
  OBVIOUS
<1> QED
  BY <1>1, <1>2, <1>3 DEF Placed, Before, Within

\* The stages of RunCliCompare.
LEMMA RunCliComparePlaced == \A i \in 1 .. 8 : Placed("compare", i)
<1>1. /\ Cli!RunCliCompare[1] = "use" /\ Cli!RunCliCompare[2] = "check"
      /\ Cli!RunCliCompare[3] = "load" /\ Cli!RunCliCompare[4] = "confirm"
      /\ Cli!RunCliCompare[5] = "handoff" /\ Cli!RunCliCompare[6] = "open"
      /\ Cli!RunCliCompare[7] = "capture" /\ Cli!RunCliCompare[8] = "release"
  BY DEF Cli!RunCliCompare, Cli!Loading, Cli!RunCliStatus, Cli!Opening
<1>2. Cli!Flow["compare"] = Cli!RunCliCompare /\ Length["compare"] = 8
  BY DEF Cli!Flow, Length
<1>3. \A i \in 1 .. 8 : i = 1 \/ i = 2 \/ i = 3 \/ i = 4 \/ i = 5 \/
        i = 6 \/ i = 7 \/ i = 8
  OBVIOUS
<1> QED
  BY <1>1, <1>2, <1>3 DEF Placed, Before, Within

\* The stages of RunCliApply.
LEMMA RunCliApplyPlaced == \A i \in 1 .. 10 : Placed("apply", i)
<1>1. /\ Cli!RunCliApply[1] = "use" /\ Cli!RunCliApply[2] = "check"
      /\ Cli!RunCliApply[3] = "load" /\ Cli!RunCliApply[4] = "confirm"
      /\ Cli!RunCliApply[5] = "handoff" /\ Cli!RunCliApply[6] = "open"
      /\ Cli!RunCliApply[7] = "capture" /\ Cli!RunCliApply[8] = "ask"
      /\ Cli!RunCliApply[9] = "apply" /\ Cli!RunCliApply[10] = "release"
  BY DEF Cli!RunCliApply, Cli!Loading, Cli!RunCliStatus, Cli!Opening
<1>2. Cli!Flow["apply"] = Cli!RunCliApply /\ Length["apply"] = 10
  BY DEF Cli!Flow, Length
<1>3. \A i \in 1 .. 10 : i = 1 \/ i = 2 \/ i = 3 \/ i = 4 \/ i = 5 \/
        i = 6 \/ i = 7 \/ i = 8 \/ i = 9 \/ i = 10
  OBVIOUS
<1> QED
  BY <1>1, <1>2, <1>3 DEF Placed, Before, Within

\* The stages of RunCliStartup.
LEMMA RunCliStartupPlaced == \A i \in 1 .. 11 : Placed("startup", i)
<1>1. /\ Cli!RunCliStartup[1] = "use" /\ Cli!RunCliStartup[2] = "check"
      /\ Cli!RunCliStartup[3] = "load" /\ Cli!RunCliStartup[4] = "confirm"
      /\ Cli!RunCliStartup[5] = "handoff" /\ Cli!RunCliStartup[6] = "open"
      /\ Cli!RunCliStartup[7] = "audit" /\ Cli!RunCliStartup[8] = "capture"
      /\ Cli!RunCliStartup[9] = "ask" /\ Cli!RunCliStartup[10] = "startup"
      /\ Cli!RunCliStartup[11] = "release"
  BY DEF Cli!RunCliStartup, Cli!Loading, Cli!RunCliStatus, Cli!Opening
<1>2. Cli!Flow["startup"] = Cli!RunCliStartup /\ Length["startup"] = 11
  BY DEF Cli!Flow, Length
<1>3. \A i \in 1 .. 11 : i = 1 \/ i = 2 \/ i = 3 \/ i = 4 \/ i = 5 \/
        i = 6 \/ i = 7 \/ i = 8 \/ i = 9 \/ i = 10 \/ i = 11
  OBVIOUS
<1> QED
  BY <1>1, <1>2, <1>3 DEF Placed, Before, Within

\* The stages of RunCliAcquire.
LEMMA RunCliAcquirePlaced == \A i \in 1 .. 15 : Placed("acquire", i)
<1>1. /\ Cli!RunCliAcquire[1] = "use" /\ Cli!RunCliAcquire[2] = "check"
      /\ Cli!RunCliAcquire[3] = "load" /\ Cli!RunCliAcquire[4] = "confirm"
      /\ Cli!RunCliAcquire[5] = "handoff" /\ Cli!RunCliAcquire[6] = "open"
      /\ Cli!RunCliAcquire[7] = "audit" /\ Cli!RunCliAcquire[8] = "capture"
      /\ Cli!RunCliAcquire[9] = "ask" /\ Cli!RunCliAcquire[10] = "startup"
      /\ Cli!RunCliAcquire[11] = "start" /\ Cli!RunCliAcquire[12] = "tune"
      /\ Cli!RunCliAcquire[13] = "stop" /\ Cli!RunCliAcquire[14] = "csv"
      /\ Cli!RunCliAcquire[15] = "release"
  BY DEF Cli!RunCliAcquire, Cli!Loading, Cli!RunCliStatus, Cli!Opening
<1>2. Cli!Flow["acquire"] = Cli!RunCliAcquire /\ Length["acquire"] = 15
  BY DEF Cli!Flow, Length
<1>3. \A i \in 1 .. 15 : i = 1 \/ i = 2 \/ i = 3 \/ i = 4 \/ i = 5 \/
        i = 6 \/ i = 7 \/ i = 8 \/ i = 9 \/ i = 10 \/ i = 11 \/ i = 12 \/
        i = 13 \/ i = 14 \/ i = 15
  OBVIOUS
<1> QED
  BY <1>1, <1>2, <1>3 DEF Placed, Before, Within

\* The stages of RunCliRecover.
LEMMA RunCliRecoverPlaced == \A i \in 1 .. 4 : Placed("recover", i)
<1>1. /\ Cli!RunCliRecover[1] = "use" /\ Cli!RunCliRecover[2] = "look"
      /\ Cli!RunCliRecover[3] = "ask" /\ Cli!RunCliRecover[4] = "recover"
  BY DEF Cli!RunCliRecover, Cli!Loading, Cli!RunCliStatus, Cli!Opening
<1>2. Cli!Flow["recover"] = Cli!RunCliRecover /\ Length["recover"] = 4
  BY DEF Cli!Flow, Length
<1>3. \A i \in 1 .. 4 : i = 1 \/ i = 2 \/ i = 3 \/ i = 4
  OBVIOUS
<1> QED
  BY <1>1, <1>2, <1>3 DEF Placed, Before, Within

\* The stages of all commands.
LEMMA AllPlaced == \A c \in CliCommands : \A i \in 1 .. Length[c] : Placed(c, i)
BY RunCliStatusPlaced, RunCliSessionPlaced, RunCliAuditPlaced, RunCliCapturePlaced,
   RunCliComparePlaced, RunCliApplyPlaced, RunCliStartupPlaced, RunCliAcquirePlaced,
   RunCliRecoverPlaced
   DEF CliCommands, Length

\* The tuner behind the command line is the one behind the guided stages.
LEMMA SameEnds ==
    ASSUME NEW n, NEW i, NEW s
    PROVE  Cli!Ended(n, i, s) = Guided!Ended(n, i, s)
BY DEF Cli!Ended, Guided!Ended, Cli!Ends, Guided!Ends, Cli!ProbeOutcomes,
       Guided!ProbeOutcomes, Cli!Result, Guided!Result, Cli!Lost, Guided!Lost,
       Cli!Fails, Guided!Fails, Cli!NotRun, Guided!NotRun, Cli!Foreign,
       Guided!Foreign, Cli!DetachForForeignDaq, Guided!DetachForForeignDaq,
       Cli!DetachForForeignDiagnosticFingerprint,
       Guided!DetachForForeignDiagnosticFingerprint, Cli!StartFailed,
       Guided!StartFailed, Cli!StopDiagnosticAcquisition,
       Guided!StopDiagnosticAcquisition, Cli!Uses, Guided!Uses, Cli!Single,
       Guided!Single, Cli!NewSnapshot, Guided!NewSnapshot, Cli!ReleaseAfter,
       Guided!ReleaseAfter, Cli!Released, Guided!Released, Cli!Forgotten,
       Guided!Forgotten

\* Its steps are the same.
LEMMA SameThreads == ASSUME Cli!Threads PROVE Guided!Threads
<1> USE DEF Cli!Take, Guided!Take, Cli!Publish, Guided!Publish, Cli!PublishStatus,
            Guided!PublishStatus, Cli!Task, Guided!Task, Cli!Nothing,
            Guided!Nothing, Cli!Uses, Guided!Uses
<1>1. ASSUME Cli!ExecuteCommand PROVE Guided!ExecuteCommand
  BY <1>1 DEF Cli!ExecuteCommand, Guided!ExecuteCommand, Cli!Commands,
         Guided!Commands, Cli!Refuses, Guided!Refuses, Cli!StartRefused,
         Guided!StartRefused, Cli!StartupPlanAvailable,
         Guided!StartupPlanAvailable, Cli!AuditComplete, Guided!AuditComplete,
         Cli!RefreshProfileComparison, Guided!RefreshProfileComparison,
         Cli!IsSingle, Guided!IsSingle, Cli!Single, Guided!Single, Cli!Begun,
         Guided!Begun, Cli!NewSnapshot, Guided!NewSnapshot, Cli!NotRun,
         Guided!NotRun, Cli!Result, Guided!Result
<1>2. ASSUME Cli!SaveProfile PROVE Guided!SaveProfile
  BY <1>2 DEF Cli!SaveProfile, Guided!SaveProfile
<1>3. ASSUME Cli!StopOrRelease PROVE Guided!StopOrRelease
  BY <1>3 DEF Cli!StopOrRelease, Guided!StopOrRelease, Cli!Begun, Guided!Begun,
         Cli!ReleaseAfter, Guided!ReleaseAfter, Cli!Released, Guided!Released,
         Cli!Forgotten, Guided!Forgotten, Cli!Ends, Guided!Ends, Cli!NotRun,
         Guided!NotRun, Cli!Result, Guided!Result
<1>4. ASSUME Cli!FinishOperation PROVE Guided!FinishOperation
  BY <1>4, SameEnds DEF Cli!FinishOperation, Guided!FinishOperation
<1>5. ASSUME Cli!PollWatchdog PROVE Guided!PollWatchdog
  BY <1>5 DEF Cli!PollWatchdog, Guided!PollWatchdog, Cli!DetachForForeignDaq,
         Guided!DetachForForeignDaq, Cli!DetachForForeignDiagnosticFingerprint,
         Guided!DetachForForeignDiagnosticFingerprint, Cli!NotRun, Guided!NotRun
<1>6. ASSUME Cli!PublishDiagnosticStream PROVE Guided!PublishDiagnosticStream
  BY <1>6 DEF Cli!PublishDiagnosticStream, Guided!PublishDiagnosticStream,
         Cli!Begun, Guided!Begun, Cli!NotRun, Guided!NotRun, Cli!Result,
         Guided!Result
<1>7. ASSUME Cli!WatchdogLoop PROVE Guided!WatchdogLoop
  BY <1>7 DEF Cli!WatchdogLoop, Guided!WatchdogLoop
<1>8. ASSUME Cli!PostStream PROVE Guided!PostStream
  BY <1>8 DEF Cli!PostStream, Guided!PostStream
<1> QED
  BY <1>1, <1>2, <1>3, <1>4, <1>5, <1>6, <1>7, <1>8
     DEF Cli!Threads, Guided!Threads, Cli!Work, Guided!Work

----------------------------------------------------------------------------
\* A task, by its name and its number.
LEMMA TaskFields ==
    /\ \A n, i : Guided!Task(n, i).name = n /\ Guided!Task(n, i).id = i
    /\ Guided!Nothing.name = "none"
BY DEF Guided!Task, Guided!Nothing

\* The queue of the worker, when it takes a task.
LEMMA TakenQueue ==
    ASSUME queue \in Seq(Tasks), queue # <<>>, queue' = Tail(queue)
    PROVE  /\ 1 \in DOMAIN queue /\ Head(queue) = queue[1]
           /\ \A i \in DOMAIN queue' :
                 i + 1 \in DOMAIN queue /\ queue'[i] = queue[i + 1] /\ i \in Nat \ {0}
<1>1. /\ DOMAIN queue = 1 .. Len(queue) /\ Len(queue) \in Nat \ {0}
      /\ Head(queue) = queue[1]
      /\ DOMAIN queue' = 1 .. Len(queue) - 1
      /\ \A i \in 1 .. Len(queue) - 1 : queue'[i] = queue[i + 1]
  BY QueueTail
<1> QED
  BY <1>1

\* The queue of the worker, when a task is put into it.
LEMMA PostedQueue ==
    ASSUME queue \in Seq(Tasks), NEW name \in Names, NEW id \in Nat,
           queue' = Append(queue, Guided!Task(name, id))
    PROVE  /\ \A i \in DOMAIN queue' :
                 \/ i \in DOMAIN queue /\ queue'[i] = queue[i]
                 \/ i \notin DOMAIN queue /\ queue'[i] = Guided!Task(name, id)
           /\ \A i, j \in DOMAIN queue' :
                 i \notin DOMAIN queue => j <= i /\ (j \notin DOMAIN queue => i = j)
           /\ DOMAIN queue' \subseteq Nat
           /\ queue' \in Seq(Tasks)
<1>1. Guided!Task(name, id) \in Tasks
  BY DEF Guided!Task, Tasks
<1>2. /\ DOMAIN queue = 1 .. Len(queue) /\ Len(queue) \in Nat
      /\ queue' \in Seq(Tasks) /\ DOMAIN queue' = 1 .. Len(queue) + 1
      /\ \A i \in 1 .. Len(queue) : queue'[i] = queue[i]
      /\ queue'[Len(queue) + 1] = Guided!Task(name, id)
  BY <1>1, QueueAppend
<1> QED
  BY <1>2

\* What a step of the tuner leaves to the front end.
Behind == /\ Takes \/ Finishes \/ Posts
          /\ TunerInv' /\ UNCHANGED <<cli, interrupted>>

\* The tasks that wait after such a step: those that waited, but for the one
\* taken, and what the threads of the tuner have posted.
LEMMA BehindQueue ==
    ASSUME TunerInv, Behind
    PROVE  /\ \A i \in DOMAIN queue' :
                 \/ \E j \in DOMAIN queue : queue'[i] = queue[j]
                 \/ queue'[i].name \in Resting /\ queue'[i].id = 0
           /\ Cli!Stage' = Cli!Stage
<1>1. CASE Takes
  BY <1>1, TakenQueue DEF Takes, TunerInv, Behind, Cli!Stage
<1>2. CASE Finishes
  BY <1>2 DEF Finishes, Behind, Cli!Stage
<1>3. CASE Posts
  <2>1. CASE queue' = queue
    BY <2>1 DEF Behind, Cli!Stage
  <2>2. ASSUME NEW name \in Resting, queue' = Append(queue, Guided!Task(name, 0))
        PROVE  \A i \in DOMAIN queue' :
                 \/ \E j \in DOMAIN queue : queue'[i] = queue[j]
                 \/ queue'[i].name \in Resting /\ queue'[i].id = 0
    <3>1. name \in Names
      BY DEF Names, Resting
    <3> QED
      BY <2>2, <3>1, PostedQueue, TaskFields DEF TunerInv
  <2> QED
    BY <1>3, <2>1, <2>2 DEF Posts, Behind, Cli!Stage
<1> QED
  BY <1>1, <1>2, <1>3 DEF Behind

\* The tasks of the threads go on having no number.
LEMMA IdsKept == ASSUME TunerInv, OwnIds, Behind PROVE OwnIds'
BY BehindQueue DEF OwnIds

\* Without a start there is no run.
LEMMA NoneYetKept ==
    ASSUME TunerInv, NoneYet, busy.name # "start", Behind,
           Takes => Head(queue).name # "start"
    PROVE  NoneYet' /\ busy'.name # "start"
BY TaskFields DEF Behind, Takes, Finishes, Posts, Moves, NoneYet

\* The start goes on being the only one.
LEMMA StartKept == ASSUME TunerInv, StartInv, Behind PROVE StartInv'
<1>1. Unstarted' = Unstarted
  BY DEF Behind, Unstarted
<1>2. Holding("start")' => Holding("start")
  BY BehindQueue DEF Holding, Resting
<1>3. ASSUME NEW i \in DOMAIN queue', NEW j \in DOMAIN queue',
             queue'[i].name = "start", queue'[j].name = "start"
      PROVE  i = j
  <2>1. CASE Takes
    BY <1>3, <2>1, TakenQueue DEF Takes, TunerInv, StartInv
  <2>2. CASE queue' = queue
    BY <1>3, <2>2 DEF StartInv
  <2>3. ASSUME NEW name \in Resting, queue' = Append(queue, Guided!Task(name, 0))
        PROVE  i = j
    <3>1. name \in Names
      BY DEF Names, Resting
    <3>2. i \in DOMAIN queue /\ queue'[i] = queue[i]
      BY <1>3, <2>3, <3>1, PostedQueue, TaskFields DEF TunerInv, Resting
    <3>3. j \in DOMAIN queue /\ queue'[j] = queue[j]
      BY <1>3, <2>3, <3>1, PostedQueue, TaskFields DEF TunerInv, Resting
    <3> QED
      BY <1>3, <3>2, <3>3 DEF StartInv
  <2> QED
    BY <2>1, <2>2, <2>3 DEF Behind, Finishes, Posts
<1>4. ASSUME Unstarted PROVE NoneYet' /\ busy'.name # "start"
  BY <1>4, TakenQueue, NoneYetKept DEF StartInv, Holding, Takes, TunerInv
<1>5. ASSUME Holding("start")' PROVE NoneYet' /\ busy'.name # "start"
  <2>1. NoneYet /\ busy.name # "start"
    BY <1>2, <1>5 DEF StartInv
  <2>2. ASSUME Takes PROVE Head(queue).name # "start"
    <3>1. PICK i \in DOMAIN queue' : queue'[i].name = "start"
      BY <1>5 DEF Holding
    <3>2. /\ i + 1 \in DOMAIN queue /\ queue[i + 1].name = "start" /\ i + 1 # 1
          /\ 1 \in DOMAIN queue /\ Head(queue) = queue[1]
      BY <2>2, <3>1, TakenQueue DEF Takes, TunerInv
    <3> QED
      BY <3>2 DEF StartInv
  <2> QED
    BY <2>1, <2>2, NoneYetKept
<1>6. Holding("start")' => "project" \in cli'.given
  BY <1>2 DEF StartInv, Behind
<1> QED
  BY <1>1, <1>2, <1>3, <1>4, <1>5, <1>6 DEF StartInv

\* The stage the front end is at.
LEMMA StageFacts ==
    ASSUME CliTyped
    PROVE  /\ Placed(cli.command, cli.at) /\ Cli!Stage = Cli!Flow[cli.command][cli.at]
           /\ cli.at \in 1 .. Length[cli.command] /\ cli.command \in CliCommands
           /\ Early => Cli!Stage \in Before \cup {"ask"}
           /\ ~Early => Cli!Stage \in Within /\ cli.command # "recover"
<1>1. cli.command \in CliCommands /\ cli.at \in 1 .. Length[cli.command]
  BY DEF CliTyped, CliRecords
<1>2. Placed(cli.command, cli.at) /\ Cli!Stage = Cli!Flow[cli.command][cli.at]
  BY <1>1, AllPlaced DEF Cli!Stage
<1>3. /\ Cli!Stage \in Before \cup Within
      /\ cli.command = "recover" => Cli!Stage \in {"use", "look", "ask", "recover"}
  BY <1>2 DEF Placed
<1> QED
  BY <1>1, <1>2, <1>3 DEF Early, Before

\* The commands that are waited for until the session is open.
LEMMA EarlyWaits ==
    ASSUME CliTyped, Early, cli.phase \in {"joining", "waiting", "read"}
    PROVE  Cli!Stage \in {"use", "check", "load", "handoff", "open", "look", "recover"}
BY StageFacts DEF CliTyped, Cli!Conversations, Before

\* A tuner at rest does nothing before there is a session.
LEMMA PauseHolds ==
    ASSUME TunerInv, NoneYet, AtPause PROVE ~Behind
BY DEF AtPause, NoneYet, Behind, Takes, Finishes, Posts

\* Before the session is open, it does what it has been sent.
LEMMA EarlyKept ==
    ASSUME TunerInv, CliTyped, Early, EarlyInv, Behind
    PROVE  EarlyInv'
<1>1. cli.phase \in {"waiting", "read"} /\ ~AtPause
  BY PauseHolds DEF EarlyInv
<1>2. Cli!Stage \in {"use", "check", "load", "handoff", "open", "look", "recover"}
  BY <1>1, EarlyWaits
<1>3. Cli!Stage' = Cli!Stage /\ cli' = cli
  BY BehindQueue DEF Behind
<1>4. CASE cli.phase = "waiting" /\ Sent
  <2>1. /\ queue = <<Guided!Task(Cli!Stage, cli.id)>> /\ busy = Guided!Nothing
        /\ watchdog = "off" /\ snap.ownership # "SessionOpen"
    BY <1>4 DEF Sent
  <2>2. Takes
    BY <2>1 DEF Behind, Finishes, Posts, EarlyInv, NoneYet
  <2>3. Head(queue) = Guided!Task(Cli!Stage, cli.id) /\ queue' = <<>>
    BY <2>1, <2>2 DEF Takes
  <2>4. Head(queue).name = Cli!Stage
    BY <2>3, TaskFields
  <2>5. NoneYet'
    BY <1>2, <2>1, <2>4, NoneYetKept, TaskFields DEF EarlyInv
  <2>6. watchdog' = "off" /\ snap'.ownership # "SessionOpen"
    BY <1>2, <2>1, <2>2, <2>4 DEF Takes
  <2>7. CASE busy' = busy
    BY <1>1, <1>3, <2>1, <2>3, <2>5, <2>6, <2>7 DEF EarlyInv, AtPause
  <2>8. CASE busy' = Head(queue) /\ Begins(Cli!Stage)
    <3>1. Cli!Stage \in {"check", "open", "recover"}
      BY <1>2, <2>8 DEF Begins, EarlyInv, NoneYet
    <3>2. UnderWayEarly'
      BY <1>3, <2>3, <2>4, <2>6, <2>8, <3>1 DEF Begins, UnderWayEarly
    <3> QED
      BY <1>3, <1>4, <2>5, <3>2 DEF EarlyInv
  <2> QED
    BY <2>2, <2>4, <2>7, <2>8 DEF Takes, EarlyInv, NoneYet
<1>5. CASE cli.phase = "waiting" /\ UnderWayEarly
  <2>1. Finishes /\ queue' = <<>> /\ busy' = Guided!Nothing
    BY <1>5 DEF UnderWayEarly, Behind, Takes, Finishes, Posts, EarlyInv, NoneYet
  <2>2. NoneYet'
    BY <1>2, <1>5, <2>1, NoneYetKept DEF EarlyInv, UnderWayEarly, Finishes, Takes
  <2>3. CASE snap'.ownership # "SessionOpen"
    BY <1>3, <1>5, <2>1, <2>2, <2>3 DEF EarlyInv, AtPause, UnderWayEarly, Finishes
  <2>4. CASE snap'.ownership = "SessionOpen"
    <3>1. Cli!Stage = "open"
      BY <1>5, <2>1, <2>4 DEF UnderWayEarly, Finishes, Moves
    <3>2. Opened'
      BY <1>3, <2>1, <3>1 DEF Opened, OnlyResting
    <3> QED
      BY <1>3, <1>5, <2>2, <3>2 DEF EarlyInv
  <2> QED
    BY <2>3, <2>4
<1>6. CASE Opened
  <2>1. /\ Cli!Stage = "open" /\ busy = Guided!Nothing
        /\ \A i \in DOMAIN queue : queue[i].name \in Resting
    BY <1>6 DEF Opened, OnlyResting
  <2>2. OnlyResting'
    BY <2>1, BehindQueue DEF OnlyResting
  <2>3. ASSUME Takes PROVE Head(queue).name \in Resting
    BY <2>1, <2>3, TakenQueue DEF Takes, TunerInv
  <2>4. busy' = Guided!Nothing
    BY <2>1, <2>3 DEF Behind, Takes, Finishes, Posts, TunerInv, Operations, Stops,
                      Guided!Uses, Resting, EarlyInv, NoneYet
  <2>5. NoneYet'
    BY <2>1, <2>3, NoneYetKept, TaskFields DEF EarlyInv, Resting
  <2> QED
    BY <1>1, <1>3, <2>1, <2>2, <2>4, <2>5 DEF EarlyInv, Opened
<1> QED
  BY <1>1, <1>4, <1>5, <1>6 DEF EarlyInv

\* With a session open or left, it works on the commands of the session, and
\* on nothing after their release.
LEMMA LateKept ==
    ASSUME TunerInv, CliTyped, ~Early, LateInv, Behind
    PROVE  LateInv'
<1>1. Cli!Stage' = Cli!Stage /\ cli' = cli
  BY BehindQueue DEF Behind
<1>2. Leaving' = Leaving
  BY <1>1 DEF Leaving
<1>3. ASSUME Takes
      PROVE  Head(queue).name \in Working \cup Resting /\ 1 \in DOMAIN queue
             /\ Head(queue) = queue[1]
  BY <1>3, TakenQueue DEF Takes, TunerInv, LateInv
<1>4. busy'.name \notin Resting
  BY TaskFields DEF Behind, TunerInv, Operations, Stops, Guided!Uses, Resting
<1>5. Holding("release")' => Holding("release")
  BY BehindQueue DEF Holding, Resting
<1>6. OnlyResting => OnlyResting'
  BY BehindQueue DEF OnlyResting
<1>7. ASSUME snap.ownership = "Disconnected"
      PROVE  UNCHANGED <<snap, session, busy>> /\ busy = Guided!Nothing /\ OnlyResting
             /\ session = "none"
  <2>1. OnlyResting /\ busy = Guided!Nothing /\ session = "none"
    BY <1>7 DEF LateInv
  <2>2. Takes => Head(queue).name \in Resting
    BY <1>3, <2>1 DEF OnlyResting
  <2> QED
    BY <1>7, <2>1, <2>2 DEF Behind, Takes, Finishes, Posts
<1>8. ASSUME snap.ownership # "Disconnected", snap'.ownership = "Disconnected"
      PROVE  /\ busy' = Guided!Nothing /\ session' = "none"
             /\ \/ Takes /\ Head(queue).name = "release"
                \/ Finishes /\ busy.name = "release"
  <2>1. CASE Takes
    <3>1. Head(queue).name = "release" /\ session' = "none"
      BY <1>3, <1>8, <2>1 DEF Takes, Moves, Working, Resting, Guided!Uses
    <3> QED
      BY <1>8, <2>1, <3>1 DEF Takes, Begins
  <2>2. CASE Finishes
    BY <1>8, <2>2 DEF Finishes, Moves, LateInv, Working, Guided!Uses
  <2> QED
    BY <1>8, <2>1, <2>2 DEF Behind, Posts
<1>9. ASSUME Takes, Head(queue).name = "release" PROVE OnlyResting'
  <2>1. ASSUME NEW i \in DOMAIN queue' PROVE queue'[i].name \in Resting
    <3>1. /\ i + 1 \in DOMAIN queue /\ queue'[i] = queue[i + 1] /\ 1 < i + 1
          /\ 1 \in DOMAIN queue /\ queue[1].name = "release"
      BY <1>9, TakenQueue DEF Takes, TunerInv
    <3> QED
      BY <3>1 DEF LateInv
  <2> QED
    BY <2>1 DEF OnlyResting
<1>10. ASSUME Finishes, busy.name = "release" PROVE OnlyResting'
  BY <1>6, <1>10 DEF LateInv
<1>11. \A i \in DOMAIN queue' : queue'[i].name \in Working \cup Resting
  BY BehindQueue DEF LateInv
<1>12. busy'.name \in Working \cup {"none"}
  <2>1. CASE Takes
    BY <1>3, <1>4, <2>1, TaskFields DEF Takes, Working
  <2> QED
    BY <2>1, TaskFields DEF Behind, Finishes, Posts, LateInv
<1>13. ~Leaving => /\ ~Holding("release")' /\ busy'.name # "release"
                   /\ snap'.ownership # "Disconnected"
  <2> SUFFICES ASSUME ~Leaving
               PROVE  /\ ~Holding("release")' /\ busy'.name # "release"
                      /\ snap'.ownership # "Disconnected"
    OBVIOUS
  <2>1. ~Holding("release") /\ busy.name # "release" /\ snap.ownership # "Disconnected"
    BY DEF LateInv
  <2>2. Takes => Head(queue).name # "release"
    BY <1>3, <2>1 DEF Holding
  <2> QED
    BY <1>5, <1>8, <2>1, <2>2, TaskFields DEF Behind, Takes, Finishes, Posts
<1>14. ASSUME NEW i \in DOMAIN queue', NEW j \in DOMAIN queue',
              queue'[i].name = "release", i < j
       PROVE  queue'[j].name \in Resting
  <2>1. CASE Takes
    <3>1. /\ i + 1 \in DOMAIN queue /\ queue'[i] = queue[i + 1] /\ i \in Nat
          /\ j + 1 \in DOMAIN queue /\ queue'[j] = queue[j + 1] /\ j \in Nat
      BY <2>1, TakenQueue DEF Takes, TunerInv
    <3>2. i + 1 < j + 1
      BY <1>14, <3>1
    <3> QED
      BY <1>14, <3>1, <3>2 DEF LateInv
  <2>2. CASE queue' = queue
    BY <1>14, <2>2 DEF LateInv
  <2>3. ASSUME NEW name \in Resting, queue' = Append(queue, Guided!Task(name, 0))
        PROVE  queue'[j].name \in Resting
    <3>1. name \in Names /\ name # "release"
      BY DEF Names, Resting
    <3>2. i \in DOMAIN queue /\ queue'[i] = queue[i]
      BY <1>14, <2>3, <3>1, PostedQueue, TaskFields DEF TunerInv
    <3>3. \/ j \in DOMAIN queue /\ queue'[j] = queue[j]
          \/ queue'[j] = Guided!Task(name, 0)
      BY <2>3, <3>1, PostedQueue DEF TunerInv
    <3> QED
      BY <1>14, <3>2, <3>3, TaskFields DEF LateInv
  <2> QED
    BY <2>1, <2>2, <2>3 DEF Behind, Finishes, Posts
<1>15. busy'.name = "release" => OnlyResting'
  <2>1. CASE Takes
    BY <1>9, <2>1, TaskFields DEF Takes
  <2> QED
    BY <1>6, <2>1, TaskFields DEF Behind, Finishes, Posts, LateInv
<1>16. snap'.ownership = "Disconnected" =>
          OnlyResting' /\ busy' = Guided!Nothing /\ session' = "none"
  BY <1>6, <1>7, <1>8, <1>9, <1>10
<1>17. Cli!Stage = "release" /\ cli.phase = "read" => snap'.ownership = "Disconnected"
  BY <1>7 DEF LateInv
<1> QED
  BY <1>1, <1>2, <1>11, <1>12, <1>13, <1>14, <1>15, <1>16, <1>17 DEF LateInv

\* A result of zero stands while the tuner goes on.
LEMMA SuccessKept ==
    ASSUME TunerInv, CliTyped, StartInv, SuccessInv, PhaseInv, Behind
    PROVE  SuccessInv'
<1> SUFFICES ASSUME cli.command = "acquire", cli.result = 0, cli.phase # "exited"
             PROVE  /\ ~Holding("start")' /\ busy'.name # "start"
                    /\ cli.at = 14 \/ (cli.at = 15 /\ cli.phase = "enter") => snap'.clean
  BY DEF SuccessInv, Behind
<1>1. /\ ~Holding("start") /\ busy.name # "start"
      /\ cli.at = 14 \/ (cli.at = 15 /\ cli.phase = "enter") => snap.clean
  BY DEF SuccessInv
<1>2. Takes => Head(queue).name # "start"
  BY <1>1, TakenQueue DEF Holding, Takes, TunerInv
<1>3. ~Holding("start")' /\ busy'.name # "start"
  BY <1>1, <1>2, BehindQueue, TaskFields DEF Behind, Takes, Finishes, Posts, Holding, Resting
<1>4. ASSUME cli.at = 14 \/ (cli.at = 15 /\ cli.phase = "enter")
      PROVE  snap'.clean
  <2>1. Cli!Stage \in {"csv", "release"} /\ (Cli!Stage = "release" => cli.phase = "enter")
    BY <1>4, StageFacts DEF Placed, Length
  <2>2. ~Early /\ ~Leaving
    BY <2>1 DEF Early, Before, Leaving
  <2>3. LateInv
    BY <2>2 DEF PhaseInv
  <2>4. /\ Takes => Head(queue).name \notin {"start", "release", "recover"} \cup Guided!Uses
        /\ busy.name \notin {"start", "release", "recover"} \cup Guided!Uses
    BY <1>1, <1>2, <2>2, <2>3, TakenQueue
       DEF LateInv, Holding, Takes, TunerInv, Working, Resting, Guided!Uses
  <2> QED
    BY <1>1, <1>4, <2>4 DEF Behind, Takes, Finishes, Posts, Moves
<1> QED
  BY <1>3, <1>4

\* A step of the tuner keeps the invariant of the command line.
LEMMA TunerKeeps ==
    ASSUME CliInv, cli.phase # "exited", Cli!Threads, UNCHANGED <<cli, interrupted>>
    PROVE  CliInv'
<1>1. Behind
  BY SameThreads, ThreadsStep DEF CliInv, Behind
<1>2. CliTyped'
  BY <1>1, BehindQueue DEF CliInv, CliTyped, Behind, Cli!ParseCliOptions,
        Cli!NeedsProject, Cli!NeedsProfile, Cli!TakesProfile, Cli!StopsWatchdog
<1>3. Early' = Early
  BY <1>1, BehindQueue DEF CliInv, Early, Behind
<1>4. PhaseInv'
  BY <1>1, <1>3, EarlyKept, LateKept, SMTT(40) DEF CliInv, PhaseInv, Behind
<1> QED
  BY <1>1, <1>2, <1>4, StartKept, SuccessKept, IdsKept DEF CliInv, Behind

----------------------------------------------------------------------------
\* A step of the front end that submits nothing, and one of any kind.
Idles == UNCHANGED <<snap, queue, busy, session, disk>>
SameRun == /\ cli' \in CliRecords /\ interrupted' \in BOOLEAN
           /\ cli'.command = cli.command /\ cli'.given = cli.given

\* It returns, late or from a tuner at rest.
Leaves == /\ Idles /\ SameRun /\ cli'.at = cli.at /\ cli'.phase = "exited"
          /\ cli'.late \/ AtRestAgain

\* It goes on to the next stage; a success has been earned.
Earned ==
    cli.command = "acquire" /\ cli'.result = 0 =>
        \/ /\ cli.result = 0
           /\ Cli!Stage \in {"tune", "stop", "csv"} => cli'.ready = cli.ready
           /\ Cli!Stage = "stop" => snap.clean
        \/ Cli!Stage = "start" /\ cli'.ready /\ snap.acquisition = "Running"
\* Before the session is open the tuner is at rest.
Ready ==
    Early => /\ ~cli'.late /\ watchdog' = watchdog
             /\ \/ AtPause /\ Cli!Stage # "open"
                \/ Cli!Stage = "open" /\ Opened /\ snap.ownership = "SessionOpen"
             /\ cli.command = "recover" /\ cli.at >= 2 => ~newer'
Advances == /\ Idles /\ SameRun /\ cli'.at = cli.at + 1 /\ cli'.phase = "enter"
            /\ cli.at # Length[cli.command]
            /\ cli.phase \notin {"parse", "exited"}
            /\ Earned /\ Ready

\* It goes on within a stage.
Remains == /\ SameRun /\ cli'.at = cli.at /\ cli'.late = cli.late
           /\ cli'.ready = cli.ready /\ cli'.result = cli.result

\* The records of the front end.
LEMMA Records ==
    /\ \A b : Cli!Zero(b) \in {0, 1}
    /\ \A c \in CliRecords, r \in {0, 1}, b \in BOOLEAN, z \in {0, 1, 130} :
          /\ [c EXCEPT !.phase = "exited", !.code = z] \in CliRecords
          /\ [c EXCEPT !.phase = "exited", !.code = z, !.late = TRUE] \in CliRecords
          /\ [c EXCEPT !.result = r] \in CliRecords
          /\ [c EXCEPT !.ready = b] \in CliRecords
          /\ [c EXCEPT !.ready = b, !.result = r] \in CliRecords
          /\ [c EXCEPT !.ready = b, !.late = TRUE] \in CliRecords
          /\ [c EXCEPT !.result = r, !.late = TRUE] \in CliRecords
<1>1. \A b : Cli!Zero(b) \in {0, 1}
  BY DEF Cli!Zero
<1>2. ASSUME NEW c \in CliRecords, NEW r \in {0, 1}, NEW b \in BOOLEAN,
             NEW z \in {0, 1, 130}
      PROVE  /\ [c EXCEPT !.phase = "exited", !.code = z] \in CliRecords
             /\ [c EXCEPT !.phase = "exited", !.code = z, !.late = TRUE] \in CliRecords
             /\ [c EXCEPT !.result = r] \in CliRecords
             /\ [c EXCEPT !.ready = b] \in CliRecords
             /\ [c EXCEPT !.ready = b, !.result = r] \in CliRecords
             /\ [c EXCEPT !.ready = b, !.late = TRUE] \in CliRecords
             /\ [c EXCEPT !.result = r, !.late = TRUE] \in CliRecords
  <2>1. [c EXCEPT !.phase = "exited", !.code = z] \in CliRecords
    BY DEF CliRecords, Phases
  <2>2. [c EXCEPT !.result = r] \in CliRecords
    BY DEF CliRecords
  <2>3. [c EXCEPT !.ready = b] \in CliRecords
    BY DEF CliRecords
  <2>4. [c EXCEPT !.ready = b, !.result = r] \in CliRecords
    BY DEF CliRecords
  <2>5. [c EXCEPT !.ready = b, !.late = TRUE] \in CliRecords
    BY DEF CliRecords
  <2>6. [c EXCEPT !.result = r, !.late = TRUE] \in CliRecords
    BY DEF CliRecords
  <2>7. [c EXCEPT !.phase = "exited", !.code = z, !.late = TRUE] \in CliRecords
    BY DEF CliRecords, Phases
  <2> QED
    BY <2>1, <2>2, <2>3, <2>4, <2>5, <2>6, <2>7
<1> QED
  BY <1>1, <1>2

\* The next stage.
LEMMA Advanced ==
    ASSUME NEW c \in CliRecords
    PROVE  /\ Cli!Advance(c) \in CliRecords
           /\ Cli!Advance(c).command = c.command /\ Cli!Advance(c).given = c.given
           /\ Cli!Advance(c).at = c.at + 1 /\ Cli!Advance(c).phase = "enter"
           /\ Cli!Advance(c).ready = c.ready /\ Cli!Advance(c).result = c.result
           /\ Cli!Advance(c).late = c.late
<1>1. Cli!Advance(c) = [c EXCEPT !.phase = "enter", !.at = @ + 1]
  BY DEF Cli!Advance
<1>2. ASSUME NEW n \in Nat, NEW p \in Phases
      PROVE  LET d == [c EXCEPT !.phase = p, !.at = n]
             IN  /\ d \in CliRecords /\ d.command = c.command /\ d.given = c.given
                 /\ d.at = n /\ d.phase = p /\ d.ready = c.ready
                 /\ d.result = c.result /\ d.late = c.late
  BY DEF CliRecords
<1>3. c.at \in Nat /\ "enter" \in Phases
  BY DEF CliRecords, Phases
<1>4. Cli!Advance(c) = [c EXCEPT !.phase = "enter", !.at = c.at + 1]
  BY <1>1
<1>5. c.at + 1 \in Nat
  BY <1>3
<1> DEFINE d == [c EXCEPT !.phase = "enter", !.at = c.at + 1]
<1>6. /\ d \in CliRecords /\ d.command = c.command /\ d.given = c.given
      /\ d.at = c.at + 1 /\ d.phase = "enter" /\ d.ready = c.ready
      /\ d.result = c.result /\ d.late = c.late
  BY <1>2, <1>3, <1>5, Zenon
<1> HIDE DEF d
<1> QED
  BY <1>4, <1>6 DEF d

\* The options are those of the run.
LEMMA SameOptions ==
    ASSUME SameRun
    PROVE  Cli!ParseCliOptions(cli.command, cli.given)
              => Cli!ParseCliOptions(cli'.command, cli'.given)
BY DEF SameRun

\* The front end returns.
LEMMA LeavesKeeps == ASSUME CliInv, Leaves PROVE CliInv'
<1>1. TunerInv' /\ OwnIds'
  BY DEF Leaves, Idles, CliInv, TunerInv, OwnIds
<1>2. CliTyped'
  BY DEF Leaves, SameRun, CliInv, CliTyped
<1>3. StartInv'
  BY DEF Leaves, Idles, SameRun, CliInv, StartInv, Unstarted, Holding, NoneYet
<1>4. SuccessInv' /\ PhaseInv'
  BY DEF Leaves, Idles, SuccessInv, PhaseInv, AtRestAgain, OnlyResting
<1> QED
  BY <1>1, <1>2, <1>3, <1>4 DEF CliInv

\* The front end goes on to the next stage.
LEMMA AdvancesKeeps == ASSUME CliInv, Advances PROVE CliInv'
<1>1. TunerInv' /\ OwnIds'
  BY DEF Advances, Idles, CliInv, TunerInv, OwnIds
<1>2. /\ cli.command \in CliCommands /\ cli.at \in 1 .. Length[cli.command]
      /\ Length[cli.command] \in Nat
      /\ Placed(cli.command, cli.at) /\ Cli!Stage = Cli!Flow[cli.command][cli.at]
      /\ Early => Cli!Stage \in Before \cup {"ask"}
      /\ ~Early => Cli!Stage \in Within /\ cli.command # "recover"
  BY StageFacts DEF CliInv, Length, CliCommands
<1>3. /\ cli'.at = cli.at + 1 /\ cli'.command = cli.command /\ cli.at < Length[cli.command]
      /\ cli'.phase = "enter" /\ cli'.given = cli.given /\ cli.at \in Nat
      /\ Cli!Stage' = Cli!Flow[cli.command][cli.at + 1]
  BY <1>2 DEF Advances, SameRun, Cli!Stage
<1>4. CliTyped'
  <2>1. Cli!ParseCliOptions(cli'.command, cli'.given)
    BY SameOptions DEF Advances, CliInv, CliTyped
  <2>2. cli'.at \in 1 .. Length[cli'.command]
    BY <1>2, <1>3
  <2> QED
    BY <1>3, <2>1, <2>2 DEF Advances, SameRun, CliTyped
<1>5. StartInv'
  <2>1. Unstarted' => Unstarted
    BY <1>3 DEF Unstarted
  <2> QED
    BY <1>3, <2>1 DEF Advances, Idles, CliInv, StartInv, Holding, NoneYet
<1>6. SuccessInv'
  <2> SUFFICES ASSUME cli.command = "acquire", cli'.result = 0
               PROVE  /\ cli.at + 1 >= 12 /\ cli'.ready
                      /\ ~Holding("start") /\ busy.name # "start"
                      /\ cli.at + 1 = 14 \/ cli.at + 1 = 15 => snap.clean
    BY <1>3 DEF SuccessInv, Advances, Idles, Holding
  <2>1. cli.phase # "exited"
    BY DEF Advances
  <2>2. CASE /\ cli.result = 0
             /\ Cli!Stage \in {"tune", "stop", "csv"} => cli'.ready = cli.ready
             /\ Cli!Stage = "stop" => snap.clean
    <3>1. /\ cli.at >= 12 /\ cli.ready /\ ~Holding("start") /\ busy.name # "start"
          /\ cli.at = 14 => snap.clean
      BY <2>1, <2>2 DEF CliInv, SuccessInv
    <3>2. cli.at < 15
      BY <1>3 DEF Length
    <3>3. /\ cli.at = 12 => Cli!Stage = "tune"
          /\ cli.at = 13 => Cli!Stage = "stop"
          /\ cli.at = 14 => Cli!Stage = "csv"
      BY <1>2 DEF Placed
    <3>4. cli.at = 12 \/ cli.at = 13 \/ cli.at = 14
      BY <1>3, <3>1, <3>2
    <3>5. cli'.ready
      BY <2>2, <3>1, <3>3, <3>4
    <3> QED
      BY <2>2, <3>1, <3>3, <3>4, <3>5
  <2>3. CASE Cli!Stage = "start" /\ cli'.ready /\ snap.acquisition = "Running"
    <3>1. cli.at = 11
      BY <1>2, <2>3 DEF Placed
    <3>2. ~Holding("start")
      BY <2>3 DEF CliInv, StartInv, NoneYet
    <3>3. busy.name # "start"
      BY <2>3 DEF CliInv, TunerInv, Fits, Consistent, UnderWay
    <3> QED
      BY <2>3, <3>1, <3>2, <3>3
  <2> QED
    BY <2>2, <2>3 DEF Advances, Earned
<1>7. cli.phase # "exited"
  BY DEF Advances
<1>8. CASE Early /\ ~(Cli!Stage = "open" /\ cli.command # "recover")
  <2>1. Early'
    BY <1>2, <1>3, <1>8 DEF Early, Placed
  <2>2. AtPause /\ NoneYet /\ ~cli'.late /\ watchdog' = watchdog
    BY <1>2, <1>7, <1>8 DEF Advances, Ready, CliInv, PhaseInv, EarlyInv, Placed
  <2>3. cli'.command = "recover" /\ cli'.at >= 3 => ~newer'
    BY <1>3, <1>8 DEF Advances, Ready
  <2>4. EarlyInv'
    BY <1>3, <2>2, <2>3 DEF Advances, Idles, EarlyInv, AtPause, NoneYet
  <2> QED
    BY <1>1, <1>3, <1>4, <1>5, <1>6, <2>1, <2>4 DEF CliInv, PhaseInv
<1>9. CASE Early /\ Cli!Stage = "open" /\ cli.command # "recover"
  <2>1. ~Early'
    BY <1>2, <1>3, <1>9 DEF Early, Placed
  <2>2. OnlyResting /\ busy = Guided!Nothing /\ snap.ownership = "SessionOpen"
    BY <1>9 DEF Advances, Ready, Opened
  <2>3. LateInv'
    BY <1>3, <2>2, TaskFields
       DEF Advances, Idles, LateInv, OnlyResting, Leaving, Holding, Resting
  <2> QED
    BY <1>1, <1>3, <1>4, <1>5, <1>6, <2>1, <2>3 DEF CliInv, PhaseInv
<1>10. CASE ~Early
  <2>1. ~Early'
    BY <1>2, <1>3, <1>10 DEF Early, Placed, Within, Before
  <2>2. ~Leaving
    BY <1>2, <1>3 DEF Leaving, Placed
  <2>3. LateInv
    BY <1>7, <1>10 DEF CliInv, PhaseInv
  <2>4. LateInv'
    BY <1>3, <2>2, <2>3 DEF Advances, Idles, LateInv, OnlyResting, Leaving, Holding
  <2> QED
    BY <1>1, <1>3, <1>4, <1>5, <1>6, <2>1, <2>4 DEF CliInv, PhaseInv
<1> QED
  BY <1>8, <1>9, <1>10

\* The front end goes on within a stage and leaves the tuner alone.
LEMMA TurnsKeeps ==
    ASSUME CliInv, Idles, Remains, CliTyped', watchdog' = watchdog,
           NEW p, NEW q, cli.phase = p, cli'.phase = q, newer' = newer,
           \/ p = "parse" /\ q = "resolve"
           \/ p = "resolve" /\ q = "enter"
           \/ p = "enter" /\ q = "talk"
           \/ p = "waiting" /\ q = "read"
           \/ p = "tuning" /\ q = "tuned"
           \/ p = "tuned" /\ q = "talk",
           q = "read" => /\ ~(Early /\ (Sent \/ UnderWayEarly))
                         /\ Cli!Stage = "release" => snap.ownership = "Disconnected"
    PROVE  CliInv'
<1>1. TunerInv' /\ OwnIds'
  BY DEF Idles, CliInv, TunerInv, OwnIds
<1>2. /\ cli'.at = cli.at /\ cli'.command = cli.command /\ cli'.given = cli.given
      /\ Cli!Stage' = Cli!Stage
  BY DEF Remains, SameRun, Cli!Stage
<1>3. q = "enter" => cli.at = 1
  BY DEF CliInv, CliTyped
<1>4. StartInv'
  <2>1. Unstarted' => Unstarted
    BY <1>2, <1>3 DEF Unstarted
  <2> QED
    BY <1>2, <2>1 DEF Idles, CliInv, StartInv, Holding, NoneYet
<1>5. SuccessInv'
  BY <1>2, <1>3 DEF Remains, Idles, CliInv, SuccessInv, Holding
<1>6. CASE Early
  <2>1. Cli!Stage # "tune" /\ EarlyInv
    BY <1>6, StageFacts DEF CliInv, PhaseInv, Before
  <2>2. p \notin {"tuning", "tuned"}
    BY <2>1 DEF CliInv, CliTyped
  <2>3. EarlyInv'
    BY <1>2, <1>3, <1>6, <2>1, <2>2
       DEF Remains, Idles, EarlyInv, AtPause, NoneYet, Opened, OnlyResting
  <2>4. Early'
    BY <1>2, <1>6 DEF Early
  <2> QED
    BY <1>1, <1>4, <1>5, <2>3, <2>4 DEF CliInv, PhaseInv
<1>7. CASE ~Early
  <2>1. LateInv
    BY <1>7 DEF CliInv, PhaseInv
  <2>2. ~Early' /\ Leaving' = Leaving
    BY <1>2, <1>7 DEF Early, Leaving
  <2>3. LateInv'
    BY <1>2, <2>1, <2>2 DEF Idles, LateInv, OnlyResting, Holding
  <2> QED
    BY <1>1, <1>4, <1>5, <2>2, <2>3 DEF CliInv, PhaseInv
<1> QED
  BY <1>6, <1>7

\* A command is put into the queue.
LEMMA SubmitKeeps ==
    ASSUME CliInv, Remains, CliTyped', UNCHANGED <<snap, busy, session, disk>>,
           NEW name \in Names, queue' = Append(queue, Guided!Task(name, cli'.id)),
           cli.phase \in {"enter", "talk", "joining"}, cli'.phase \in {"waiting", "tuning"},
           name \notin Resting,
           name = "start" => Cli!Stage = "start" /\ cli.phase = "enter",
           Early => /\ cli'.phase = "waiting" /\ name = Cli!Stage
                    /\ watchdog' = "off" /\ ~newer',
           ~Early => name \in Working /\ (name = "release" <=> Leaving')
    PROVE  CliInv'
<1>1. cli'.id \in Nat
  BY DEF Remains, SameRun, CliRecords
<1>2. /\ cli'.at = cli.at /\ cli'.command = cli.command /\ cli'.given = cli.given
      /\ Cli!Stage' = Cli!Stage /\ cli'.late = cli.late
  BY DEF Remains, SameRun, Cli!Stage
<1>3. /\ \A i \in DOMAIN queue' :
            \/ i \in DOMAIN queue /\ queue'[i] = queue[i]
            \/ i \notin DOMAIN queue /\ queue'[i].name = name
      /\ \A i, j \in DOMAIN queue' :
            i \notin DOMAIN queue => j <= i /\ (j \notin DOMAIN queue => i = j)
      /\ DOMAIN queue' \subseteq Nat
      /\ queue' \in Seq(Tasks)
  BY <1>1, PostedQueue, TaskFields DEF CliInv, TunerInv
<1>4. TunerInv'
  BY <1>3 DEF CliInv, TunerInv
<1>5. OwnIds'
  BY <1>3 DEF CliInv, OwnIds
<1>6. name = "start" => cli.at = 11 /\ cli.command = "acquire" /\ Unstarted
  BY StageFacts DEF CliInv, Placed, Unstarted
<1>7. ASSUME name = "start" PROVE StartInv'
  <2>1. NoneYet /\ ~Holding("start") /\ busy.name # "start" /\ ~Unstarted'
    BY <1>2, <1>6, <1>7 DEF CliInv, StartInv, Unstarted
  <2>2. "project" \in cli.given
    BY <1>6, <1>7 DEF CliInv, CliTyped, Cli!ParseCliOptions, Cli!NeedsProject
  <2>3. \A i, j \in DOMAIN queue' :
          queue'[i].name = "start" /\ queue'[j].name = "start" => i = j
    BY <1>3, <2>1 DEF Holding
  <2> QED
    BY <1>2, <2>1, <2>2, <2>3 DEF StartInv, NoneYet
<1>8. ASSUME name # "start" PROVE StartInv' /\ (Holding("start")' => Holding("start"))
  <2>1. Unstarted' => Unstarted
    BY <1>2 DEF Unstarted
  <2>2. Holding("start")' => Holding("start")
    BY <1>3, <1>8 DEF Holding
  <2>3. \A i, j \in DOMAIN queue' :
          queue'[i].name = "start" /\ queue'[j].name = "start" => i = j
    BY <1>3, <1>8 DEF CliInv, StartInv
  <2> QED
    BY <1>2, <2>1, <2>2, <2>3 DEF CliInv, StartInv, NoneYet
<1>9. SuccessInv'
  <2> SUFFICES ASSUME cli.command = "acquire", cli.result = 0
               PROVE  SuccessInv'
    BY <1>2 DEF SuccessInv, Remains
  <2>1. /\ cli.at >= 12 /\ cli.ready /\ ~Holding("start") /\ busy.name # "start"
        /\ cli.at = 14 => snap.clean
    BY DEF CliInv, SuccessInv
  <2>2. ~Holding("start")'
    BY <1>6, <1>8, <2>1
  <2> QED
    BY <1>2, <2>1, <2>2 DEF SuccessInv, Remains
<1>10. CASE Early
  <2>1. AtPause /\ NoneYet /\ ~cli.late
    BY <1>10 DEF CliInv, PhaseInv, EarlyInv
  <2>2. queue' = <<Guided!Task(Cli!Stage, cli'.id)>>
    BY <1>10, <2>1 DEF AtPause
  <2>3. Sent'
    BY <1>2, <1>10, <2>1, <2>2 DEF AtPause, Sent
  <2>4. EarlyInv' /\ Early'
    BY <1>2, <1>10, <2>1, <2>3 DEF EarlyInv, NoneYet, Early
  <2> QED
    BY <1>4, <1>5, <1>7, <1>8, <1>9, <1>10, <2>4 DEF CliInv, PhaseInv
<1>11. CASE ~Early
  <2>1. LateInv /\ ~Early' /\ ~Leaving
    BY <1>2, <1>11 DEF CliInv, PhaseInv, Early, Leaving
  <2>2. ~Holding("release") /\ busy.name # "release" /\ snap.ownership # "Disconnected"
    BY <2>1 DEF LateInv
  <2>3. \A i \in DOMAIN queue' : queue'[i].name \in Working \cup Resting
    BY <1>3, <1>11, <2>1 DEF LateInv
  <2>4. ~Leaving' => ~Holding("release")'
    BY <1>3, <1>11, <2>2 DEF Holding
  <2>5. ASSUME NEW i \in DOMAIN queue', NEW j \in DOMAIN queue',
               queue'[i].name = "release", i < j
        PROVE  FALSE
    <3>1. i \notin DOMAIN queue
      BY <1>3, <2>2, <2>5 DEF Holding
    <3> QED
      BY <1>3, <2>5, <3>1
  <2>6. LateInv'
    BY <1>2, <2>1, <2>2, <2>3, <2>4, <2>5 DEF LateInv
  <2> QED
    BY <1>4, <1>5, <1>7, <1>8, <1>9, <1>11, <2>1, <2>6 DEF CliInv, PhaseInv
<1> QED
  BY <1>10, <1>11

\* Before some commands the watchdog is asked to stop.
LEMMA JoinsKeeps ==
    ASSUME CliInv, Idles, Remains, CliTyped', Cli!RequestWatchdogStop,
           cli.phase = "enter", cli'.phase = "joining", Early => ~newer'
    PROVE  CliInv'
<1>1. TunerInv' /\ OwnIds'
  BY DEF Idles, CliInv, TunerInv, OwnIds
<1>2. /\ cli'.at = cli.at /\ cli'.command = cli.command /\ cli'.given = cli.given
      /\ Cli!Stage' = Cli!Stage /\ cli'.late = cli.late
  BY DEF Remains, SameRun, Cli!Stage
<1>3. StartInv'
  <2>1. Unstarted' => Unstarted
    BY <1>2 DEF Unstarted
  <2> QED
    BY <1>2, <2>1 DEF Idles, CliInv, StartInv, Holding, NoneYet
<1>4. SuccessInv'
  BY <1>2 DEF Remains, Idles, CliInv, SuccessInv, Holding
<1>5. CASE Early
  <2>1. AtPause /\ NoneYet /\ ~cli.late
    BY <1>5 DEF CliInv, PhaseInv, EarlyInv
  <2>2. watchdog' = "off"
    BY <2>1 DEF AtPause, Cli!RequestWatchdogStop
  <2>3. EarlyInv' /\ Early'
    BY <1>2, <1>5, <2>1, <2>2 DEF Idles, EarlyInv, AtPause, NoneYet, Early
  <2> QED
    BY <1>1, <1>3, <1>4, <2>3 DEF CliInv, PhaseInv
<1>6. CASE ~Early
  <2>1. LateInv /\ ~Early' /\ ~Leaving /\ ~Leaving'
    BY <1>2, <1>6 DEF CliInv, PhaseInv, Early, Leaving
  <2>2. LateInv'
    BY <1>2, <2>1 DEF Idles, LateInv, OnlyResting, Holding
  <2> QED
    BY <1>1, <1>3, <1>4, <2>1, <2>2 DEF CliInv, PhaseInv
<1> QED
  BY <1>5, <1>6

----------------------------------------------------------------------------
\* At a stage that is not the last of its command.
LEMMA NotLast ==
    ASSUME CliTyped, Cli!Stage \notin {"release", "recover"},
           cli.command # "status" \/ Cli!Stage # "check"
    PROVE  cli.at # Length[cli.command]
BY StageFacts DEF Placed

\* A tuner at rest before there is a session.
LEMMA PauseRests == ASSUME AtPause, NoneYet PROVE AtRestAgain
BY DEF AtPause, NoneYet, AtRestAgain, OnlyResting

\* Before the first command there is nothing to wait for.
LEMMA EarlyPauses ==
    ASSUME CliInv, Early, cli.phase \notin {"waiting", "read", "exited"}
    PROVE  AtPause /\ NoneYet /\ ~cli.late /\ AtRestAgain
BY PauseRests DEF CliInv, PhaseInv, EarlyInv

\* The front end returns from a tuner at rest.
LEMMA ExitKeeps ==
    ASSUME CliInv, Idles, UNCHANGED interrupted, AtRestAgain,
           NEW z \in {0, 1, 130}, Cli!Exit(z)
    PROVE  CliInv'
<1>1. cli \in CliRecords /\ interrupted \in BOOLEAN
  BY DEF CliInv, CliTyped
<1>2. cli' = [cli EXCEPT !.phase = "exited", !.code = z]
  BY SMTT(40) DEF Cli!Exit
<1>3. cli' \in CliRecords
  BY <1>1, <1>2, Records
<1>4. /\ cli'.command = cli.command /\ cli'.given = cli.given
      /\ cli'.at = cli.at /\ cli'.phase = "exited"
  BY <1>1, <1>2 DEF CliRecords
<1>5. Leaves
  BY <1>1, <1>3, <1>4 DEF Leaves, SameRun
<1> QED
  BY <1>5, LeavesKeeps

\* The front end goes on to the next stage, whatever it has concluded.
LEMMA GoKeeps ==
    ASSUME CliInv, Idles, UNCHANGED interrupted,
           NEW c \in CliRecords, c.command = cli.command, c.given = cli.given, c.at = cli.at,
           cli' = Cli!Advance(c),
           cli.at # Length[cli.command], cli.phase \notin {"parse", "exited"},
           cli.command = "acquire" /\ c.result = 0 =>
               \/ /\ cli.result = 0
                  /\ Cli!Stage \in {"tune", "stop", "csv"} => c.ready = cli.ready
                  /\ Cli!Stage = "stop" => snap.clean
               \/ Cli!Stage = "start" /\ c.ready /\ snap.acquisition = "Running",
           Early => /\ ~c.late /\ watchdog' = watchdog
                    /\ \/ AtPause /\ Cli!Stage # "open"
                       \/ Cli!Stage = "open" /\ Opened /\ snap.ownership = "SessionOpen"
                    /\ cli.command = "recover" /\ cli.at >= 2 => ~newer'
    PROVE  CliInv'
<1>1. interrupted \in BOOLEAN
  BY DEF CliInv, CliTyped
<1>2. /\ cli' \in CliRecords /\ cli'.command = cli.command /\ cli'.given = cli.given
      /\ cli'.at = cli.at + 1 /\ cli'.phase = "enter" /\ cli'.ready = c.ready
      /\ cli'.result = c.result /\ cli'.late = c.late
  BY Advanced
<1>3. Advances
  BY <1>1, <1>2 DEF Advances, SameRun, Earned, Ready
<1> QED
  BY <1>3, AdvancesKeeps

\* From an open session the front end goes on in any case.
LEMMA LateGoKeeps ==
    ASSUME CliInv, Idles, UNCHANGED interrupted, ~Early, Cli!Stage # "release",
           NEW c \in CliRecords, c.command = cli.command, c.given = cli.given, c.at = cli.at,
           cli' = Cli!Advance(c), cli.phase \notin {"parse", "exited"},
           cli.command = "acquire" /\ c.result = 0 =>
               \/ /\ cli.result = 0
                  /\ Cli!Stage \in {"tune", "stop", "csv"} => c.ready = cli.ready
                  /\ Cli!Stage = "stop" => snap.clean
               \/ Cli!Stage = "start" /\ c.ready /\ snap.acquisition = "Running"
    PROVE  CliInv'
<1>1. Cli!Stage \in Within
  BY StageFacts DEF CliInv
<1>2. cli.at # Length[cli.command]
  BY <1>1, NotLast DEF CliInv, Within
<1> QED
  BY <1>2, GoKeeps

\* A phase within a stage.
LEMMA PhaseTyped ==
    ASSUME CliTyped, Remains, NEW p, cli'.phase = p,
           p \in {"parse", "resolve"} => cli.at = 1,
           p \in {"joining", "waiting", "read"} => Cli!Stage \notin Cli!Conversations,
           p = "joining" => Cli!StopsWatchdog(Cli!Stage),
           p = "talk" => Cli!Stage \in Cli!Conversations,
           p \in {"tuning", "tuned"} => Cli!Stage = "tune",
           Cli!ParseCliOptions(cli.command, cli.given)
    PROVE  CliTyped'
<1>1. /\ cli'.at = cli.at /\ cli'.command = cli.command /\ Cli!Stage' = Cli!Stage
      /\ cli' \in CliRecords /\ interrupted' \in BOOLEAN
  BY DEF Remains, SameRun, Cli!Stage
<1>2. Cli!ParseCliOptions(cli'.command, cli'.given)
  BY SameOptions DEF Remains
<1>3. Cli!StopsWatchdog(Cli!Stage)' <=> Cli!StopsWatchdog(Cli!Stage)
  BY <1>1 DEF Cli!StopsWatchdog
<1> QED
  BY <1>1, <1>2, <1>3 DEF CliTyped, Cli!Conversations

\* The record of a phase within a stage.
LEMMA PhaseSet ==
    ASSUME CliTyped, UNCHANGED interrupted, NEW p \in Phases, cli' = [cli EXCEPT !.phase = p]
    PROVE  Remains /\ cli'.phase = p /\ cli'.id = cli.id
<1>1. cli \in CliRecords /\ interrupted \in BOOLEAN
  BY DEF CliTyped
<1>2. cli' \in CliRecords
  BY <1>1 DEF CliRecords
<1> QED
  BY <1>1, <1>2 DEF CliRecords, Remains, SameRun

\* The options are parsed and the project resolved before anything else.
LEMMA BeginningKept ==
    ASSUME CliInv, Cli!ParseOptions \/ Cli!ResolveProject PROVE CliInv'
<1>1. /\ cli.phase \in {"parse", "resolve"} /\ interrupted' = interrupted
      /\ UNCHANGED <<snap, newer, queue, busy, watchdog, session, disk>>
  BY DEF Cli!ParseOptions, Cli!ResolveProject, Cli!tuner
<1>2. cli.at = 1 /\ CliTyped
  BY <1>1 DEF CliInv, CliTyped
<1>3. Early
  BY <1>2, StageFacts DEF Placed, Early, Before
<1>4. AtRestAgain
  BY <1>1, <1>3, EarlyPauses
<1>5. CASE Cli!Exit(1)
  BY <1>1, <1>4, <1>5, ExitKeeps DEF Idles
<1>6. ASSUME NEW q \in {"resolve", "enter"}, cli' = [cli EXCEPT !.phase = q],
             q = "resolve" => /\ cli.phase = "parse"
                              /\ Cli!ParseCliOptions(cli.command, cli.given),
             q = "enter" => cli.phase = "resolve"
      PROVE  CliInv'
  <2>1. Remains /\ cli'.phase = q
    BY <1>1, <1>2, <1>6, PhaseSet DEF Phases
  <2>2. CliTyped'
    BY <1>2, <1>6, <2>1, PhaseTyped DEF CliTyped
  <2> QED
    BY <1>1, <1>6, <2>1, <2>2, TurnsKeeps DEF Idles
<1> QED
  BY <1>5, <1>6 DEF Cli!ParseOptions, Cli!ResolveProject

\* A stage is entered: skipped, or begun by a conversation or a command.
LEMMA EnterKept == ASSUME CliInv, Cli!EnterStage PROVE CliInv'
<1>1. /\ cli.phase = "enter" /\ interrupted' = interrupted /\ CliTyped
      /\ cli \in CliRecords
      /\ Cli!ParseCliOptions(cli.command, cli.given)
  BY DEF CliInv, CliTyped, Cli!EnterStage, Cli!Submit
<1>2. /\ Early => Cli!Stage \in Before \cup {"ask"}
      /\ ~Early => Cli!Stage \in Within
      /\ Early /\ Cli!Stage = "ask" => cli.command = "recover"
      /\ Cli!Stage \in Before \cup Within
  BY <1>1, StageFacts DEF Early, Before, Within
<1>3. CASE ~Cli!Runs(Cli!Stage)
  <2>1. Cli!Stage \notin Before /\ ~Early /\ Cli!Stage # "release"
    <3>1. ASSUME NEW s \in Before \cup {"release"} PROVE Cli!Runs(s)
      BY DEF Cli!Runs, Before
    <3>2. cli.command = "recover" => Cli!Runs("ask")
      BY DEF Cli!Runs
    <3> QED
      BY <1>2, <1>3, <3>1, <3>2
  <2> DEFINE failed == Cli!Stage = "stop" /\ cli.ready /\ ~snap.clean
  <2>2. /\ cli' = IF failed THEN Cli!Advance([cli EXCEPT !.result = 1]) ELSE Cli!Advance(cli)
        /\ UNCHANGED <<snap, newer, queue, busy, watchdog, session, disk>>
    BY <1>3 DEF Cli!EnterStage, Cli!tuner
  <2>3. CASE ~failed
    <3>1. cli.command = "acquire" /\ cli.result = 0 => cli.ready
      BY <1>1 DEF CliInv, SuccessInv
    <3>2. cli.command = "acquire" /\ cli.result = 0 => (Cli!Stage = "stop" => snap.clean)
      BY <2>3, <3>1
    <3>3. cli' = Cli!Advance(cli)
      BY <2>2, <2>3
    <3> QED
      BY <1>1, <2>1, <2>2, <3>2, <3>3, LateGoKeeps DEF Idles
  <2>4. CASE failed
    <3> DEFINE c == [cli EXCEPT !.result = 1]
    <3>1. c \in CliRecords
      BY <1>1, Records
    <3>2. /\ c.command = cli.command /\ c.given = cli.given /\ c.at = cli.at
          /\ c.result # 0
      BY <1>1 DEF CliRecords
    <3>3. cli' = Cli!Advance(c)
      BY <2>2, <2>4
    <3> HIDE DEF c
    <3> QED
      BY <1>1, <2>1, <2>2, <3>1, <3>2, <3>3, LateGoKeeps, SMTT(40) DEF Idles
  <2> QED
    BY <2>3, <2>4
<1>4. CASE /\ Cli!Runs(Cli!Stage) /\ Cli!Stage \in Cli!Conversations
           /\ cli' = [cli EXCEPT !.phase = "talk"]
           /\ UNCHANGED <<snap, newer, queue, busy, watchdog, session, disk>>
  <2>1. Remains /\ cli'.phase = "talk"
    BY <1>1, <1>4, PhaseSet DEF Phases
  <2>2. CliTyped'
    BY <1>1, <1>4, <2>1, PhaseTyped
  <2> QED
    BY <1>1, <1>4, <2>1, <2>2, TurnsKeeps DEF Idles
<1>5. CASE Cli!Stage \notin Cli!Conversations /\ Cli!Submit(Cli!Stage, "waiting")
  <2> DEFINE p == IF Cli!StopsWatchdog(Cli!Stage) THEN "joining" ELSE "waiting"
  <2>1. /\ cli' = [cli EXCEPT !.phase = p, !.id = @ + 1]
        /\ UNCHANGED <<snap, busy, session, disk>> /\ Cli!NoteRevision(Cli!Stage)
    BY <1>5 DEF Cli!Submit
  <2>2. p \in {"joining", "waiting"} /\ (p = "joining" <=> Cli!StopsWatchdog(Cli!Stage))
    OBVIOUS
  <2> HIDE DEF p
  <2>3. Remains /\ cli'.phase = p /\ cli'.id = cli.id + 1
    <3>1. interrupted \in BOOLEAN /\ cli.id + 1 \in Nat
      BY <1>1 DEF CliTyped, CliRecords
    <3>2. cli' = [cli EXCEPT !.phase = p, !.id = cli.id + 1]
      BY <2>1
    <3>3. ASSUME NEW n \in Nat, NEW x \in Phases
          PROVE  [cli EXCEPT !.phase = x, !.id = n] \in CliRecords
      BY <1>1 DEF CliRecords
    <3>4. p \in Phases
      BY <2>2 DEF Phases
    <3>5. cli' \in CliRecords
      BY <3>1, <3>2, <3>3, <3>4
    <3> QED
      BY <1>1, <3>1, <3>2, <3>5 DEF CliRecords, Remains, SameRun
  <2>4. CliTyped'
    BY <1>1, <1>5, <2>2, <2>3, PhaseTyped
  <2>5. Early => ~newer'
    <3> SUFFICES ASSUME Early PROVE ~newer'
      OBVIOUS
    <3>1. CASE Cli!Stage = "recover"
      <4>1. cli.command = "recover" /\ cli.at >= 3
        BY <1>1, <3>1, StageFacts DEF Placed
      <4>2. ~newer
        BY <1>1, <4>1 DEF CliInv, PhaseInv, EarlyInv
      <4> QED
        BY <2>1, <4>2 DEF Cli!NoteRevision
    <3>2. CASE Cli!Stage # "recover"
      <4>1. ~Cli!KeepsRevision(Cli!Stage)
        BY <1>2, <3>2 DEF Cli!KeepsRevision, Before
      <4> QED
        BY <2>1, <4>1 DEF Cli!NoteRevision
    <3> QED
      BY <3>1, <3>2
  <2>6. CASE Cli!StopsWatchdog(Cli!Stage)
    <3>1. Cli!RequestWatchdogStop /\ queue' = queue
      BY <1>5, <2>6 DEF Cli!Submit
    <3> QED
      BY <1>1, <2>1, <2>2, <2>3, <2>4, <2>5, <2>6, <3>1, JoinsKeeps DEF Idles
  <2>7. CASE ~Cli!StopsWatchdog(Cli!Stage)
    <3>1. /\ queue' = Append(queue, Guided!Task(Cli!Stage, cli.id + 1))
          /\ watchdog' = watchdog
      BY <1>5, <2>7 DEF Cli!Submit, Cli!Post, Cli!Task, Guided!Task
    <3>2. Cli!Stage \in Names /\ Cli!Stage \notin Resting
      BY <1>2, <1>5 DEF Before, Within, Cli!Conversations, Names, Guided!Commands, Resting
    <3>3. Cli!Stage # "release"
      BY <2>7 DEF Cli!StopsWatchdog
    <3>4. ~Leaving'
      BY <2>3, <3>3 DEF Leaving, Remains, SameRun, Cli!Stage
    <3>5. ~Early => Cli!Stage \in Working
      BY <1>2, <1>5 DEF Within, Working, Cli!Conversations
    <3>6. Early => watchdog' = "off"
      BY <1>1, <3>1, EarlyPauses DEF AtPause
    <3> QED
      BY <1>1, <2>1, <2>2, <2>3, <2>4, <2>5, <2>7, <3>1, <3>2, <3>3, <3>4, <3>5, <3>6,
         SubmitKeeps
  <2> QED
    BY <2>6, <2>7
<1> QED
  BY <1>3, <1>4, <1>5 DEF Cli!EnterStage, Cli!tuner

\* The watchdog has been joined, and the command is put into the queue.
LEMMA JoinKept == ASSUME CliInv, Cli!JoinWatchdog PROVE CliInv'
<1>1. /\ cli.phase = "joining" /\ interrupted' = interrupted /\ CliTyped
      /\ cli' = [cli EXCEPT !.phase = "waiting"]
      /\ UNCHANGED <<snap, newer, busy, watchdog, session, disk>>
      /\ Cli!Stage \notin Cli!Conversations /\ Cli!StopsWatchdog(Cli!Stage)
      /\ Cli!ParseCliOptions(cli.command, cli.given)
  BY DEF CliInv, CliTyped, Cli!JoinWatchdog
<1>2. Remains /\ cli'.phase = "waiting" /\ cli'.id = cli.id
  BY <1>1, PhaseSet DEF Phases
<1>3. CliTyped'
  BY <1>1, <1>2, PhaseTyped
<1>4. queue' = Append(queue, Guided!Task(Cli!Stage, cli.id))
  BY DEF Cli!JoinWatchdog, Cli!Post, Cli!Task, Guided!Task
<1>5. /\ Early => Cli!Stage \in Before \cup {"ask"}
      /\ ~Early => Cli!Stage \in Within
  BY <1>1, StageFacts
<1>6. Cli!Stage \in Names /\ Cli!Stage \notin Resting \cup {"start"}
  BY <1>1 DEF Cli!StopsWatchdog, Names, Guided!Commands, Resting
<1>7. ~Early => Cli!Stage = "release"
  BY <1>1, <1>5 DEF Cli!StopsWatchdog, Within
<1>8. ~Early => Leaving'
  BY <1>2, <1>7 DEF Leaving, Remains, SameRun, Cli!Stage
<1>9. Early => watchdog' = "off" /\ ~newer'
  BY <1>1, EarlyPauses DEF AtPause, CliInv, PhaseInv, EarlyInv
<1> QED
  BY <1>1, <1>2, <1>3, <1>4, <1>6, <1>7, <1>8, <1>9, SubmitKeeps DEF Working

\* What a wait sees before the session is open is the end of its command.
LEMMA WaitKept == ASSUME CliInv, Cli!WaitForRevision PROVE CliInv'
<1>1. /\ cli.phase \in {"waiting", "tuning"} /\ newer /\ Cli!Awaits(Cli!Awaited)
      /\ cli' = [cli EXCEPT !.phase = IF @ = "tuning" THEN "tuned" ELSE "read"]
      /\ UNCHANGED <<snap, newer, queue, busy, watchdog, session, disk>>
      /\ interrupted' = interrupted /\ CliTyped /\ cli \in CliRecords
      /\ Cli!ParseCliOptions(cli.command, cli.given)
  BY DEF CliInv, CliTyped, Cli!WaitForRevision, Cli!Waiting, Cli!tuner
<1>2. CASE cli.phase = "tuning"
  <2>1. cli' = [cli EXCEPT !.phase = "tuned"]
    BY <1>1, <1>2
  <2>2. Remains /\ cli'.phase = "tuned"
    BY <1>1, <2>1, PhaseSet DEF Phases
  <2>3. CliTyped'
    BY <1>1, <1>2, <2>2, PhaseTyped DEF CliTyped
  <2> QED
    BY <1>1, <1>2, <2>2, <2>3, TurnsKeeps DEF Idles
<1>3. CASE cli.phase = "waiting"
  <2>1. cli' = [cli EXCEPT !.phase = "read"]
    BY <1>1, <1>3
  <2>2. Remains /\ cli'.phase = "read"
    BY <1>1, <2>1, PhaseSet DEF Phases
  <2>3. CliTyped'
    BY <1>1, <1>3, <2>2, PhaseTyped DEF CliTyped
  <2>4. Cli!Awaits(Cli!Stage)
    BY <1>1, <1>3 DEF Cli!Awaited
  <2>5. Early => ~Sent /\ ~UnderWayEarly
    BY <1>1, <2>4 DEF Sent, UnderWayEarly, Cli!Awaits, Cli!Finished
  <2>6. Cli!Stage = "release" => snap.ownership = "Disconnected"
    BY <2>4 DEF Cli!Awaits
  <2> QED
    BY <1>1, <1>3, <2>2, <2>3, <2>5, <2>6, TurnsKeeps DEF Idles
<1> QED
  BY <1>1, <1>2, <1>3

\* A wait that takes too long is the end of the run, or of a success.
LEMMA TimeOutKept == ASSUME CliInv, Cli!TimeOut PROVE CliInv'
<1>1. /\ cli.phase \in {"waiting", "tuning"} /\ interrupted' = interrupted
      /\ UNCHANGED <<snap, newer, queue, busy, watchdog, session, disk>>
      /\ CliTyped /\ cli \in CliRecords /\ interrupted \in BOOLEAN
  BY DEF CliInv, CliTyped, Cli!TimeOut, Cli!Waiting, Cli!tuner
<1>2. Cli!Stage \notin Before \cup {"ask"} => ~Early
  BY <1>1, StageFacts
<1>3. CASE cli' = [cli EXCEPT !.phase = "exited", !.code = 1, !.late = TRUE]
  <2>1. cli' \in CliRecords
    BY <1>1, <1>3, Records, ZenonT(60)
  <2>2. /\ cli'.command = cli.command /\ cli'.given = cli.given
        /\ cli'.at = cli.at /\ cli'.phase = "exited" /\ cli'.late
    BY <1>1, <1>3 DEF CliRecords
  <2> QED
    BY <1>1, <2>1, <2>2, LeavesKeeps, SMTT(40) DEF Leaves, SameRun, Idles
<1>4. CASE /\ Cli!Stage \in {"audit", "capture", "apply", "startup", "start"}
           /\ cli' = Cli!Advance([cli EXCEPT !.ready = FALSE, !.late = TRUE])
  <2> DEFINE c == [cli EXCEPT !.ready = FALSE, !.late = TRUE]
  <2>1. c \in CliRecords
    BY <1>1, Records, ZenonT(60)
  <2>2. /\ c.command = cli.command /\ c.given = cli.given /\ c.at = cli.at
        /\ c.result = cli.result
    BY <1>1 DEF CliRecords
  <2>3. cli' = Cli!Advance(c)
    BY <1>4
  <2> HIDE DEF c
  <2>4. ~Early
    BY <1>2, <1>4 DEF Before
  <2> QED
    BY <1>1, <1>4, <2>1, <2>2, <2>3, <2>4, LateGoKeeps DEF Idles
<1>5. CASE /\ Cli!Stage \in {"save", "stop", "tune"}
           /\ cli' = Cli!Advance([cli EXCEPT !.result = 1, !.late = TRUE])
  <2> DEFINE c == [cli EXCEPT !.result = 1, !.late = TRUE]
  <2>1. c \in CliRecords
    BY <1>1, Records
  <2>2. c.command = cli.command /\ c.given = cli.given /\ c.at = cli.at /\ c.result # 0
    BY <1>1 DEF CliRecords
  <2>3. cli' = Cli!Advance(c)
    BY <1>5
  <2> HIDE DEF c
  <2>4. ~Early
    BY <1>2, <1>5 DEF Before
  <2> QED
    BY <1>1, <1>5, <2>1, <2>2, <2>3, <2>4, LateGoKeeps DEF Idles
<1> QED
  BY <1>3, <1>4, <1>5 DEF Cli!TimeOut

\* A conclusion of an open session, and the next stage.
LEMMA Concludes ==
    ASSUME CliInv, UNCHANGED <<snap, queue, busy, watchdog, session, disk, interrupted>>,
           ~Early, Cli!Stage # "release", cli.phase \notin {"parse", "exited"},
           NEW r \in {0, 1}, NEW b \in BOOLEAN,
           \/ Cli!Then([cli EXCEPT !.result = r]) /\ b = cli.ready
           \/ Cli!Then([cli EXCEPT !.ready = b]) /\ r = cli.result
           \/ Cli!Then([cli EXCEPT !.ready = b, !.result = r])
           \/ Cli!Go /\ r = cli.result /\ b = cli.ready,
           cli.command = "acquire" /\ r = 0 =>
               \/ /\ cli.result = 0
                  /\ Cli!Stage \in {"tune", "stop", "csv"} => b = cli.ready
                  /\ Cli!Stage = "stop" => snap.clean
               \/ Cli!Stage = "start" /\ b /\ snap.acquisition = "Running"
    PROVE  CliInv'
<1>1. cli \in CliRecords
  BY DEF CliInv, CliTyped
<1>2. ASSUME NEW c \in CliRecords, cli' = Cli!Advance(c), c.ready = b, c.result = r,
             c.command = cli.command, c.given = cli.given, c.at = cli.at
      PROVE  CliInv'
  BY <1>2, LateGoKeeps DEF Idles
<1>3. CASE Cli!Then([cli EXCEPT !.result = r]) /\ b = cli.ready
  <2> DEFINE c == [cli EXCEPT !.result = r]
  <2>1. c \in CliRecords /\ cli' = Cli!Advance(c)
    BY <1>1, <1>3, Records, ZenonT(60) DEF Cli!Then
  <2>2. /\ c.command = cli.command /\ c.given = cli.given /\ c.at = cli.at
        /\ c.ready = b /\ c.result = r
    BY <1>1, <1>3 DEF CliRecords
  <2> HIDE DEF c
  <2> QED
    BY <1>2, <2>1, <2>2, SMTT(40)
<1>4. CASE Cli!Then([cli EXCEPT !.ready = b]) /\ r = cli.result
  <2> DEFINE c == [cli EXCEPT !.ready = b]
  <2>1. c \in CliRecords /\ cli' = Cli!Advance(c)
    BY <1>1, <1>4, Records, ZenonT(60) DEF Cli!Then
  <2>2. /\ c.command = cli.command /\ c.given = cli.given /\ c.at = cli.at
        /\ c.ready = b /\ c.result = r
    BY <1>1, <1>4 DEF CliRecords
  <2> HIDE DEF c
  <2> QED
    BY <1>2, <2>1, <2>2
<1>5. CASE Cli!Then([cli EXCEPT !.ready = b, !.result = r])
  <2> DEFINE c == [cli EXCEPT !.ready = b, !.result = r]
  <2>1. c \in CliRecords /\ cli' = Cli!Advance(c)
    BY <1>1, <1>5, Records DEF Cli!Then
  <2>2. /\ c.command = cli.command /\ c.given = cli.given /\ c.at = cli.at
        /\ c.ready = b /\ c.result = r
    BY <1>1 DEF CliRecords
  <2> HIDE DEF c
  <2> QED
    BY <1>2, <2>1, <2>2
<1>6. CASE Cli!Go /\ r = cli.result /\ b = cli.ready
  BY <1>1, <1>2, <1>6 DEF Cli!Go
<1> QED
  BY <1>3, <1>4, <1>5, <1>6

\* Before the session is open, the front end goes on from a tuner at rest.
LEMMA EarlyGoKeeps ==
    ASSUME CliInv, UNCHANGED <<snap, queue, busy, watchdog, session, disk, interrupted>>,
           Early, cli.phase \notin {"parse", "exited"}, Cli!Go,
           cli.at # Length[cli.command],
           \/ AtPause /\ Cli!Stage # "open"
           \/ Cli!Stage = "open" /\ Opened /\ snap.ownership = "SessionOpen",
           cli.command = "recover" /\ cli.at >= 2 => ~newer'
    PROVE  CliInv'
<1>1. cli \in CliRecords /\ ~cli.late
  BY DEF CliInv, CliTyped, PhaseInv, EarlyInv
<1>2. cli.command = "acquire" => cli.result # 0
  <2>1. cli.command = "acquire" => Cli!Stage \notin {"start", "tune", "stop", "csv", "release"}
    BY StageFacts DEF CliInv, Before, Early
  <2>2. cli.command = "acquire" /\ cli.result = 0 => cli.at \in {12, 13, 14, 15}
    BY StageFacts DEF CliInv, SuccessInv, Length
  <2> QED
    BY <2>1, <2>2, StageFacts DEF CliInv, Placed, Length
<1> QED
  BY <1>1, <1>2, GoKeeps DEF Idles, Cli!Go

\* The prompt is answered, or the input ends.
LEMMA AnswerKept == ASSUME CliInv, Cli!AnswerPrompt PROVE CliInv'
<1>1. /\ cli.phase = "talk" /\ Cli!Stage \in {"confirm", "ask"} /\ CliTyped
      /\ UNCHANGED <<snap, newer, queue, busy, watchdog, session, disk, interrupted>>
      /\ cli \in CliRecords /\ cli.ready \in BOOLEAN /\ cli.result \in {0, 1}
  BY DEF CliInv, CliTyped, CliRecords, Cli!AnswerPrompt, Cli!tuner
<1>2. Cli!Stage = "confirm" \/ cli.command = "recover" <=> Early
  BY <1>1, StageFacts DEF Early, Before
<1>3. cli.command = "acquire" => Cli!Stage \notin {"tune", "stop", "csv"}
  BY <1>1
<1>4. CASE ~Early
  <2>1. Cli!Go \/ Cli!Then([cli EXCEPT !.ready = FALSE])
    BY <1>2, <1>4 DEF Cli!AnswerPrompt
  <2>2. CASE Cli!Go
    BY <1>1, <1>4, <2>2, Concludes
  <2>3. CASE Cli!Then([cli EXCEPT !.ready = FALSE])
    BY <1>1, <1>4, <2>3, Concludes
  <2> QED
    BY <2>1, <2>2, <2>3
<1>5. CASE Early
  <2>1. AtPause /\ AtRestAgain
    BY <1>1, <1>5, EarlyPauses
  <2>2. CASE Cli!Go
    <3>1. cli.command = "recover" /\ cli.at >= 2 => ~newer'
      <4>1. cli.command = "recover" /\ cli.at >= 2 => cli.at >= 3
        BY <1>1, StageFacts DEF Placed
      <4> QED
        BY <1>1, <1>5, <4>1 DEF CliInv, PhaseInv, EarlyInv
    <3>2. cli.at # Length[cli.command]
      BY <1>1, NotLast
    <3> QED
      BY <1>1, <1>5, <2>1, <2>2, <3>1, <3>2, EarlyGoKeeps
  <2>3. CASE Cli!Exit(IF interrupted THEN 130 ELSE 1)
    BY <1>1, <2>1, <2>3, ExitKeeps DEF Idles
  <2> QED
    BY <1>2, <1>5, <2>2, <2>3 DEF Cli!AnswerPrompt
<1> QED
  BY <1>4, <1>5

\* The loops of an open session, and the dump after it.
LEMMA LoopKept ==
    ASSUME CliInv, Cli!WatchSession \/ Cli!TuneLoop \/ Cli!DumpRequestedWaveformCsv
    PROVE  CliInv'
<1>1. /\ cli.phase = "talk" /\ Cli!Stage \in {"watch", "tune", "csv"} /\ CliTyped
      /\ UNCHANGED <<snap, newer, queue, busy, watchdog, session, disk, interrupted>>
      /\ cli \in CliRecords /\ cli.ready \in BOOLEAN /\ cli.result \in {0, 1}
  BY DEF CliInv, CliTyped, CliRecords, Cli!WatchSession, Cli!TuneLoop,
         Cli!DumpRequestedWaveformCsv, Cli!tuner
<1>2. ~Early /\ (cli.command = "acquire" => Cli!Stage # "watch")
  BY <1>1, StageFacts DEF Placed, Before
<1>3. \/ Cli!Stage = "watch" /\ Cli!Then([cli EXCEPT !.result = 0])
      \/ Cli!Then([cli EXCEPT !.result = 1])
      \/ Cli!Go
  BY DEF Cli!WatchSession, Cli!TuneLoop, Cli!DumpRequestedWaveformCsv
<1>4. CASE Cli!Stage = "watch" /\ Cli!Then([cli EXCEPT !.result = 0])
  BY <1>1, <1>2, <1>4, Concludes
<1>5. CASE Cli!Then([cli EXCEPT !.result = 1])
  BY <1>1, <1>2, <1>5, Concludes
<1>6. CASE Cli!Go
  BY <1>1, <1>2, <1>6, Concludes
<1> QED
  BY <1>3, <1>4, <1>5, <1>6

\* A command of the tune loop is submitted.
LEMMA TuneKept == ASSUME CliInv, Cli!ParseAcquisitionCommand PROVE CliInv'
<1>1. /\ cli.phase = "talk" /\ Cli!Stage = "tune" /\ CliTyped
      /\ UNCHANGED <<snap, busy, watchdog, session, disk, interrupted>>
      /\ cli \in CliRecords /\ interrupted \in BOOLEAN
      /\ Cli!ParseCliOptions(cli.command, cli.given)
  BY DEF CliInv, CliTyped, Cli!ParseAcquisitionCommand
<1>2. PICK op \in {"source", "preview", "restore"} :
        /\ cli' = [cli EXCEPT !.phase = "tuning", !.op = op, !.id = @ + 1, !.tunes = @ + 1]
        /\ queue' = Append(queue, Guided!Task(op, cli.id + 1))
  BY DEF Cli!ParseAcquisitionCommand, Cli!Post, Cli!Task, Guided!Task
<1>3. Remains /\ cli'.phase = "tuning" /\ cli'.id = cli.id + 1
  <2>1. cli.id + 1 \in Nat /\ cli.tunes + 1 \in Nat
    BY <1>1 DEF CliRecords
  <2>2. cli' = [cli EXCEPT !.phase = "tuning", !.op = op, !.id = cli.id + 1,
                           !.tunes = cli.tunes + 1]
    BY <1>2
  <2>3. ASSUME NEW n \in Nat, NEW m \in Nat, NEW x \in Phases
        PROVE  [cli EXCEPT !.phase = x, !.op = op, !.id = n, !.tunes = m] \in CliRecords
    BY <1>1 DEF CliRecords
  <2>4. cli' \in CliRecords
    BY <2>1, <2>2, <2>3 DEF Phases
  <2> QED
    BY <1>1, <2>1, <2>2, <2>4 DEF CliRecords, Remains, SameRun
<1>4. CliTyped'
  BY <1>1, <1>3, PhaseTyped
<1>5. ~Early
  BY <1>1, StageFacts DEF Before
<1>6. ~Leaving'
  BY <1>1, <1>3 DEF Leaving, Remains, SameRun, Cli!Stage
<1>7. op \in Names /\ op \notin Resting \cup {"start", "release"} /\ op \in Working
  BY DEF Names, Guided!Commands, Resting, Working
<1> QED
  BY <1>1, <1>2, <1>3, <1>4, <1>5, <1>6, <1>7, SubmitKeeps

\* Its result is read.
LEMMA TunedKept == ASSUME CliInv, Cli!AfterTuneCommand PROVE CliInv'
<1>1. /\ cli.phase = "tuned" /\ Cli!Stage = "tune" /\ CliTyped
      /\ UNCHANGED <<snap, newer, queue, busy, watchdog, session, disk, interrupted>>
      /\ cli \in CliRecords /\ cli.ready \in BOOLEAN /\ cli.result \in {0, 1}
      /\ Cli!ParseCliOptions(cli.command, cli.given)
  BY DEF CliInv, CliTyped, CliRecords, Cli!AfterTuneCommand, Cli!tuner
<1>2. ~Early
  BY <1>1, StageFacts DEF Before
<1>3. CASE Cli!Then([cli EXCEPT !.result = 1])
  BY <1>1, <1>2, <1>3, Concludes
<1>4. CASE cli' = [cli EXCEPT !.phase = "talk"]
  <2>1. Remains /\ cli'.phase = "talk"
    BY <1>1, <1>4, PhaseSet DEF Phases
  <2>2. CliTyped'
    BY <1>1, <2>1, PhaseTyped DEF Cli!Conversations
  <2> QED
    BY <1>1, <2>1, <2>2, TurnsKeeps DEF Idles
<1> QED
  BY <1>3, <1>4 DEF Cli!AfterTuneCommand

\* What the snapshot says before the session is open.
LEMMA EarlyReadKept == ASSUME CliInv, Early, Cli!ReadSnapshot PROVE CliInv'
<1>1. /\ cli.phase = "read" /\ CliTyped
      /\ UNCHANGED <<snap, queue, busy, watchdog, session, disk, interrupted>>
      /\ Cli!Stage \in {"open", "look"} => ~newer'
  BY DEF CliInv, CliTyped, Cli!ReadSnapshot
<1>2. Cli!Stage \in {"use", "check", "load", "handoff", "open", "look", "recover"}
  BY <1>1, EarlyWaits
<1>3. NoneYet /\ (AtPause \/ Opened) /\ (Opened => Cli!Stage = "open")
  BY <1>1 DEF CliInv, PhaseInv, EarlyInv, Opened
<1>4. ASSUME Cli!Go, Cli!Stage \notin {"open", "recover"},
             cli.command # "status" \/ Cli!Stage # "check"
      PROVE  CliInv'
  <2>1. cli.at # Length[cli.command]
    BY <1>1, <1>2, <1>4, NotLast
  <2>2. cli.command = "recover" /\ cli.at >= 2 => Cli!Stage = "look"
    BY <1>1, <1>2, <1>4, StageFacts DEF Placed
  <2> QED
    BY <1>1, <1>3, <1>4, <2>1, <2>2, EarlyGoKeeps
<1>5. ASSUME NEW z \in {0, 1, 130}, Cli!Exit(z), Cli!Stage # "open"
      PROVE  CliInv'
  BY <1>1, <1>3, <1>5, PauseRests, ExitKeeps, SMTT(40) DEF Idles
<1>6. CASE Cli!Stage = "use"
  BY <1>4, <1>5, <1>6, Records DEF Cli!ReadSnapshot, Cli!ReadProject
<1>7. CASE Cli!Stage = "check"
  <2>1. \/ Cli!Go /\ cli.command # "status"
        \/ Cli!Exit(IF interrupted THEN 130 ELSE Cli!Zero(snap.ownership = "Idle"))
    BY <1>7, SMTT(40) DEF Cli!ReadSnapshot, Cli!ReadStatus
  <2>2. (IF interrupted THEN 130 ELSE Cli!Zero(snap.ownership = "Idle")) \in {0, 1, 130}
    BY Records
  <2> QED
    BY <1>4, <1>5, <1>7, <2>1, <2>2
<1>8. CASE Cli!Stage = "load"
  BY <1>4, <1>5, <1>8 DEF Cli!ReadSnapshot, Cli!ReadLoaded
<1>9. CASE Cli!Stage = "handoff"
  BY <1>4, <1>5, <1>9 DEF Cli!ReadSnapshot, Cli!ReadHandoff
<1>10. CASE Cli!Stage = "look"
  BY <1>4, <1>5, <1>10 DEF Cli!ReadSnapshot, Cli!ReadLook
<1>11. CASE Cli!Stage = "recover"
  <2>1. Cli!Exit(IF interrupted THEN 130 ELSE Cli!Zero(snap.recovery.state = "Recovered"))
    BY <1>11, SMTT(40) DEF Cli!ReadSnapshot, Cli!ReadRecovery
  <2>2. (IF interrupted THEN 130 ELSE Cli!Zero(snap.recovery.state = "Recovered"))
          \in {0, 1, 130}
    BY Records
  <2> QED
    BY <1>5, <1>11, <2>1, <2>2
<1>12. CASE Cli!Stage = "open"
  <2>1. CASE Cli!Go /\ snap.ownership = "SessionOpen"
    <3>1. Opened
      BY <1>3, <2>1 DEF AtPause
    <3>2. cli.at # Length[cli.command]
      BY <1>1, <1>12, NotLast
    <3> QED
      BY <1>1, <1>12, <2>1, <3>1, <3>2, EarlyGoKeeps
  <2>2. CASE Cli!Exit(1) /\ snap.ownership # "SessionOpen"
    <3>1. AtRestAgain
      BY <1>3, <2>2, PauseRests DEF Opened, NoneYet, AtRestAgain
    <3> QED
      BY <1>1, <2>2, <3>1, ExitKeeps DEF Idles
  <2> QED
    BY <1>12, <2>1, <2>2 DEF Cli!ReadSnapshot, Cli!ReadOpened
<1> QED
  BY <1>2, <1>6, <1>7, <1>8, <1>9, <1>10, <1>11, <1>12

\* What it says of an open session.
LEMMA LateReadKept == ASSUME CliInv, ~Early, Cli!ReadSnapshot PROVE CliInv'
<1>1. /\ cli.phase = "read" /\ CliTyped
      /\ UNCHANGED <<snap, queue, busy, watchdog, session, disk, interrupted>>
      /\ cli \in CliRecords /\ cli.ready \in BOOLEAN /\ cli.result \in {0, 1}
      /\ Cli!Stage \notin Cli!Conversations
  BY DEF CliInv, CliTyped, CliRecords, Cli!ReadSnapshot
<1>2. Cli!Stage \in {"audit", "capture", "save", "apply", "startup", "start", "stop", "release"}
  BY <1>1, StageFacts DEF Within, Cli!Conversations
<1>3. ASSUME NEW r \in {0, 1}, Cli!Then([cli EXCEPT !.result = r]),
             Cli!Stage # "release", r # 0 \/ cli.command # "acquire"
      PROVE  CliInv'
  BY <1>1, <1>3, Concludes
<1>4. CASE Cli!Stage = "audit"
  <2> DEFINE r == IF cli.command = "audit" THEN Cli!Zero(snap.audit.state = "Ready") ELSE 1
  <2>1. r \in {0, 1} /\ (r # 0 \/ cli.command # "acquire")
    BY DEF Cli!Zero
  <2>2. Cli!Then([cli EXCEPT !.result = r])
    BY <1>4 DEF Cli!ReadSnapshot, Cli!ReadAudit
  <2> HIDE DEF r
  <2> QED
    BY <1>3, <1>4, <2>1, <2>2
<1>5. CASE Cli!Stage = "capture"
  <2>1. Cli!ReadCaptured
    BY <1>5 DEF Cli!ReadSnapshot
  <2>2. CASE cli.command \in {"capture", "compare"}
    <3> DEFINE complete == snap.capture.state = "Complete"
               same == Cli!RefreshProfileComparison(snap) = "equal"
               r == Cli!Zero(IF cli.command = "capture" THEN complete ELSE complete /\ same)
    <3>1. r \in {0, 1}
      BY DEF Cli!Zero
    <3>2. Cli!Then([cli EXCEPT !.result = r])
      BY <2>1, <2>2 DEF Cli!ReadCaptured
    <3> HIDE DEF r
    <3> QED
      BY <1>3, <1>5, <2>2, <3>1, <3>2
  <2>3. CASE cli.command \notin {"capture", "compare"}
    <3>1. snap \in Snapshots
      BY DEF CliInv, TunerInv, Fits
    <3>2. Cli!StartupPlanAvailable(snap) \in BOOLEAN
      BY DEF Cli!StartupPlanAvailable, Cli!AuditComplete
    <3>3. PICK b \in BOOLEAN : Cli!Then([cli EXCEPT !.ready = b])
      BY <2>1, <2>3, <3>2 DEF Cli!ReadCaptured
    <3> QED
      BY <1>1, <1>5, <3>3, Concludes
  <2> QED
    BY <2>2, <2>3
<1>6. CASE Cli!Stage = "save"
  <2>1. Cli!Then([cli EXCEPT !.result = Cli!Zero(snap.good)])
    BY <1>6 DEF Cli!ReadSnapshot, Cli!ReadSaved
  <2>2. cli.command # "acquire"
    BY <1>1, <1>6, StageFacts, SMTT(40) DEF Placed
  <2> QED
    BY <1>3, <1>6, <2>1, <2>2, Records
<1>7. CASE Cli!Stage = "apply"
  <2>1. Cli!Then([cli EXCEPT !.result = Cli!Zero(snap.apply.state = "Passed")])
    BY <1>7 DEF Cli!ReadSnapshot, Cli!ReadApplied
  <2>2. cli.command # "acquire"
    BY <1>1, <1>7, StageFacts DEF Placed
  <2> QED
    BY <1>3, <1>7, <2>1, <2>2, Records
<1>8. CASE Cli!Stage = "startup"
  <2> DEFINE r == IF cli.command = "startup" THEN Cli!Zero(snap.startup.state = "Passed") ELSE 1
  <2>1. r \in {0, 1} /\ (cli.command = "acquire" => r # 0)
    BY DEF Cli!Zero
  <2>2. Cli!Then([cli EXCEPT !.ready = FALSE, !.result = r])
    BY <1>8 DEF Cli!ReadSnapshot, Cli!ReadStartup
  <2> HIDE DEF r
  <2> QED
    BY <1>1, <1>8, <2>1, <2>2, Concludes
<1>9. CASE Cli!Stage = "start"
  <2> DEFINE b == snap.acquisition = "Running"
  <2>1. Cli!Then([cli EXCEPT !.ready = b, !.result = Cli!Zero(b)])
    BY <1>9 DEF Cli!ReadSnapshot, Cli!ReadStarted
  <2>2. b \in BOOLEAN /\ Cli!Zero(b) \in {0, 1} /\ (Cli!Zero(b) = 0 => b)
    BY DEF Cli!Zero
  <2>3. Cli!Zero(b) = 0 => snap.acquisition = "Running"
    BY <2>2
  <2> HIDE DEF b
  <2> QED
    BY <1>1, <1>9, <2>1, <2>2, <2>3, Concludes
<1>10. CASE Cli!Stage = "stop"
  <2>1. CASE snap.clean
    <3>1. Cli!Go
      BY <1>10, <2>1 DEF Cli!ReadSnapshot, Cli!ReadCleanup, Cli!Then, Cli!Go
    <3> QED
      BY <1>1, <1>10, <2>1, <3>1, Concludes
  <2>2. CASE ~snap.clean
    BY <1>3, <1>10, <2>2 DEF Cli!ReadSnapshot, Cli!ReadCleanup
  <2> QED
    BY <2>1, <2>2
<1>11. CASE Cli!Stage = "release"
  <2>1. snap.ownership = "Disconnected"
    BY <1>1, <1>11 DEF CliInv, PhaseInv, LateInv
  <2>2. AtRestAgain
    BY <1>1, <2>1 DEF CliInv, PhaseInv, LateInv, AtRestAgain
  <2>3. Cli!Exit(IF interrupted THEN 130 ELSE cli.result)
    BY <1>11 DEF Cli!ReadSnapshot, Cli!ReleaseOperationSession
  <2>4. (IF interrupted THEN 130 ELSE cli.result) \in {0, 1, 130}
    BY <1>1
  <2> QED
    BY <1>1, <2>2, <2>3, <2>4, ExitKeeps DEF Idles
<1> QED
  BY <1>2, <1>4, <1>5, <1>6, <1>7, <1>8, <1>9, <1>10, <1>11

\* An interrupt is only noted.
LEMMA CliStill ==
    ASSUME CliInv, UNCHANGED <<snap, newer, queue, busy, watchdog, session, disk, cli>>,
           interrupted' \in BOOLEAN
    PROVE  CliInv'
<1>1. Cli!Stage' = Cli!Stage
  BY DEF Cli!Stage
<1>2. CliTyped'
  BY <1>1 DEF CliInv, CliTyped, Cli!StopsWatchdog, Cli!ParseCliOptions,
          Cli!NeedsProject, Cli!NeedsProfile, Cli!TakesProfile
<1>3. TunerInv' /\ StartInv' /\ SuccessInv' /\ OwnIds'
  BY DEF CliInv, TunerInv, StartInv, SuccessInv, OwnIds, Unstarted, Holding, NoneYet
<1>4. PhaseInv'
  BY <1>1 DEF CliInv, PhaseInv, Early, EarlyInv, LateInv, AtRestAgain, OnlyResting,
          AtPause, Sent, UnderWayEarly, Opened, Leaving, Holding, NoneYet
<1> QED
  BY <1>2, <1>3, <1>4 DEF CliInv

\* A step of the command line, of its tuner or of the user keeps the invariant.
LEMMA CliStep == ASSUME CliInv, Cli!Next PROVE CliInv'
<1>1. ASSUME Cli!Cli PROVE CliInv'
  BY <1>1, BeginningKept, EnterKept, JoinKept, WaitKept, TimeOutKept, AnswerKept, LoopKept,
     TuneKept, TunedKept, EarlyReadKept, LateReadKept DEF Cli!Cli
<1>2. ASSUME Cli!HandleInterrupt PROVE CliInv'
  BY <1>2, CliStill DEF Cli!HandleInterrupt, Cli!tuner
<1>3. ASSUME Cli!Exited PROVE CliInv'
  <2>1. interrupted \in BOOLEAN
    BY DEF CliInv, CliTyped
  <2> QED
    BY <1>3, <2>1, CliStill DEF Cli!Exited, Cli!vars, Cli!tuner
<1> QED
  BY <1>1, <1>2, <1>3, TunerKeeps DEF Cli!Next

\* The command line begins with a tuner at rest.
LEMMA CliStarts == ASSUME Cli!Init PROVE CliInv
<1>1. PICK command \in Requested, given \in SUBSET Given :
        cli = [command |-> command, given |-> given, at |-> 1, phase |-> "parse",
               id |-> 0, op |-> "none", ready |-> FALSE, result |-> 1, code |-> 0,
               tunes |-> 0, late |-> FALSE]
  BY DEF Cli!Init
<1>2. command \in CliCommands
  BY FrontEndInstances DEF Cli!CliAssumption, Cli!Flow, CliCommands
<1>3. /\ cli \in CliRecords /\ cli.at = 1 /\ cli.phase = "parse" /\ cli.result # 0
      /\ ~cli.late /\ cli.command = command /\ interrupted \in BOOLEAN
  <2>1. cli \in CliRecords
    BY <1>1, <1>2 DEF CliRecords, Phases
  <2>2. interrupted \in BOOLEAN
    BY DEF Cli!Init
  <2> QED
    BY <1>1, <2>1, <2>2
<1>4. CliTyped
  <2>1. 1 \in 1 .. Length[command]
    BY <1>2 DEF CliCommands, Length
  <2> QED
    BY <1>3, <2>1 DEF CliTyped
<1>5. /\ queue = <<>> /\ busy = Guided!Nothing /\ busy.name = "none" /\ watchdog = "off"
      /\ session = "none" /\ snap = Guided!NewSnapshot
      /\ disk \in [journal : Guided!Journals, saved : BOOLEAN]
  BY DEF Cli!Init, Cli!TunerInit, Cli!Nothing, Guided!Nothing, Cli!NewSnapshot,
         Guided!NewSnapshot, Cli!NotRun, Guided!NotRun, Cli!Journals, Guided!Journals
<1>6. NoneYet /\ AtPause
  BY <1>5 DEF NoneYet, AtPause, Guided!NewSnapshot
<1>7. TunerInv
  <2>1. queue \in Seq(Tasks) /\ busy \in Tasks
    BY <1>5 DEF Guided!Nothing, Tasks, Names
  <2>2. Fits("none", snap, session)
    BY <1>5 DEF Guided!NewSnapshot, Guided!NotRun, Fits,
         Snapshots, Results, Outcomes, Ownerships, Acquisitions, Comparisons,
         Sessions, Guided!Journals, Consistent, UnderWay, Stops, Guided!Uses
  <2> QED
    BY <1>5, <2>1, <2>2 DEF TunerInv
<1>8. Early
  BY <1>3, <1>4, StageFacts DEF Placed, Early, Before
<1>9. PhaseInv
  BY <1>3, <1>6, <1>8 DEF PhaseInv, EarlyInv
<1>10. StartInv /\ SuccessInv /\ OwnIds
  BY <1>3, <1>5, <1>6 DEF StartInv, SuccessInv, OwnIds, Unstarted, Holding
<1> QED
  BY <1>4, <1>7, <1>9, <1>10 DEF CliInv

(***************************************************************************)
(* Whatever the command and its options, the interrupts, the polls in      *)
(* between and the stage that failed: unless one of its waits timed out,   *)
(* the command line returns only when the tuner has dealt with everything  *)
(* it submitted and holds no session; an acquisition reported as a success *)
(* was stopped with verified cleanup; and an acquisition starts only where *)
(* its journal has a path (CliApp.cpp).                                    *)
(***************************************************************************)
THEOREM CliAlwaysLeavesTunerClean == Spec => []CliLeavesTunerClean
<1> DEFINE Inv == part = "cli" => CliInv
<1>1. Init => Inv
  BY CliStarts DEF Init
<1>2. Inv /\ [Next]_vars => Inv'
  <2> SUFFICES ASSUME Inv, [Next]_vars, part' = "cli" PROVE CliInv'
    OBVIOUS
  <2>1. part = "cli"
    BY DEF Next, CliSteps, GuidedSteps, ThreadSteps, vars
  <2>2. CASE CliSteps
    BY <2>1, <2>2, CliStep DEF CliSteps
  <2>3. CASE UNCHANGED vars
    <3>1. /\ UNCHANGED <<snap, newer, queue, busy, watchdog, session, disk, cli>>
          /\ interrupted' = interrupted
      BY <2>3 DEF vars, tuner, commandLine
    <3>2. interrupted \in BOOLEAN
      BY <2>1 DEF CliInv, CliTyped
    <3> QED
      BY <2>1, <3>1, <3>2, CliStill
  <2> QED
    BY <2>1, <2>2, <2>3 DEF Next, GuidedSteps, ThreadSteps
<1>3. Inv => CliLeavesTunerClean
  <2> SUFFICES ASSUME CliInv
               PROVE  Cli!QuietExit /\ Cli!CleanBeforeRelease /\ Cli!StartHasJournalPath
    BY DEF CliLeavesTunerClean
  <2>1. Cli!QuietExit
    <3> SUFFICES ASSUME cli.phase = "exited", ~cli.late
                 PROVE  /\ ~Cli!CommandsWaiting /\ busy = Cli!Nothing
                        /\ snap.ownership # "SessionOpen" /\ session = "none"
      BY DEF Cli!QuietExit
    <3>1. AtRestAgain
      BY DEF CliInv, PhaseInv
    <3> QED
      BY <3>1 DEF AtRestAgain, OnlyResting, CliInv, OwnIds, Cli!CommandsWaiting,
                  Cli!Nothing, Guided!Nothing
  <2>2. Cli!CleanBeforeRelease
    <3> SUFFICES ASSUME cli.command = "acquire", cli.phase = "enter",
                        Cli!Stage = "release", cli.result = 0
                 PROVE  snap.clean /\ session = "none"
      BY DEF Cli!CleanBeforeRelease
    <3>1. cli.at = 15
      BY StageFacts DEF CliInv, Placed, Length
    <3>2. snap.clean
      BY <3>1 DEF CliInv, SuccessInv
    <3> QED
      BY <3>2 DEF CliInv, TunerInv, Fits, Consistent
  <2>3. Cli!StartHasJournalPath
    BY DEF CliInv, StartInv, Holding, Cli!StartHasJournalPath
  <2> QED
    BY <2>1, <2>2, <2>3
<1> QED
  BY <1>1, <1>2, <1>3, PTL DEF Spec
=============================================================================

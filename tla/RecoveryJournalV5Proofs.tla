---------------------- MODULE RecoveryJournalV5Proofs -----------------------
(***************************************************************************)
(* The version 5 journal, for any number of registers, values, identities  *)
(* and deviations: the record saved last is the one loaded, a damaged file *)
(* is refused, and every register is restorable at every moment.           *)
(*                                                                         *)
(* V5Inv ties the module to the record: once there is a snapshot, every    *)
(* register holds the value its last deviation asked for, except that the  *)
(* one saved last may not be written yet.                                  *)
(***************************************************************************)
EXTENDS RecoveryJournalV5, SequenceTheorems, WellFoundedInduction, TLAPS

\* The deviations of record d that the module has seen.
Seen(d, waiting) == IF waiting THEN Len(d.deviations) - 1 ELSE Len(d.deviations)

\* What text, module and record are while the file holds record d.
Held(d, t, regs, found, waiting) ==
    /\ d \in Records /\ t = WriteV5(d) /\ ValidateV5Data(d)
    /\ d.snapshot = None => regs = found /\ ~waiting
    /\ d.snapshot # None =>
          /\ d.snapshot.values = found
          /\ waiting => Len(d.deviations) > 0
          /\ \A l \in Locations :
                regs[l] = WorkingValue(d, l, Seen(d, waiting))

V5Inv ==
    /\ live \in [Locations -> Values] /\ initial \in [Locations -> Values]
    /\ pending \in BOOLEAN
    /\ written # None => Held(written, text, live, initial, pending)
    /\ written = None /\ text = None => live = initial /\ ~pending
    /\ written = None /\ text # None => ParseTunerRecoveryJournalV5(text) = None

----------------------------------------------------------------------------
(***************************************************************************)
(* The last deviation of a register.                                       *)
(***************************************************************************)

\* A set of positions has a last one.
LEMMA LastPosition ==
    ASSUME NEW n \in Nat, NEW S \in SUBSET (1 .. n), S # {}
    PROVE  Max(S) \in S /\ \A y \in S : y <= Max(S)
<1>1. PICK T : T = {m \in Nat : \E y \in S : m = n - y}
  OBVIOUS
<1>2. T # {} /\ T \subseteq Nat
  <2>1. PICK y \in S : y \in 1 .. n
    OBVIOUS
  <2>2. n - y \in Nat
    BY <2>1
  <2>3. n - y \in T
    BY <1>1, <2>2
  <2> QED
    BY <1>1, <2>3
<1>3. PICK R : /\ R = {ss \in Nat \X Nat : ss[1] < ss[2]}
               /\ IsWellFoundedOn(R, Nat)
  BY NatLessThanWellFounded, Zenon DEF OpToRel
<1>4. PICK x \in T : \A y \in T : ~(<<y, x>> \in R)
  BY <1>2, <1>3, WFMin, Zenon
<1>5. \A y \in T : x \in Nat /\ y \in Nat /\ ~(y < x)
  BY <1>2, <1>3, <1>4
<1>6. PICK z \in S : x = n - z
  BY <1>1
<1>7. ASSUME NEW y \in S PROVE z >= y
  <2>1. n - y \in Nat
    OBVIOUS
  <2>2. n - y \in T
    BY <1>1, <2>1
  <2> QED
    BY <1>5, <1>6, <2>2
<1>8. \E k \in S : \A y \in S : k >= y
  BY <1>7
<1>9. Max(S) \in S /\ \A y \in S : Max(S) >= y
  BY <1>8 DEF Max
<1> QED
  BY <1>9

\* What the last of the first n deviations of l is.
LEMMA LastDeviation ==
    ASSUME NEW d \in Records, NEW l \in Locations,
           NEW n \in 0 .. Len(d.deviations), AtLocation(d, l, n) # {}
    PROVE  LET k == Max(AtLocation(d, l, n))
           IN  /\ k \in 1 .. n /\ k \in DOMAIN d.deviations
               /\ d.deviations[k] \in Deviations /\ d.deviations[k].location = l
               /\ \A i \in 1 .. n : d.deviations[i].location = l => i <= k
<1>1. d.deviations \in Seq(Deviations) /\ n \in Nat
  BY DEF Records
<1>2. AtLocation(d, l, n) \in SUBSET (1 .. n)
  BY DEF AtLocation
<1>3. PICK k : k = Max(AtLocation(d, l, n))
  OBVIOUS
<1>4. k \in AtLocation(d, l, n) /\ \A y \in AtLocation(d, l, n) : y <= k
  BY <1>1, <1>2, <1>3, LastPosition
<1>5. k \in 1 .. n /\ d.deviations[k].location = l
  BY <1>4 DEF AtLocation
<1>6. \A i \in 1 .. n : d.deviations[i].location = l => i <= k
  BY <1>4 DEF AtLocation
<1>7. k \in DOMAIN d.deviations /\ d.deviations[k] \in Deviations
  BY <1>1, <1>5
<1> QED
  BY <1>3, <1>5, <1>6, <1>7

\* Every working value is a register value.
LEMMA WorkingValueType ==
    ASSUME NEW d \in Records, d.snapshot # None, NEW l \in Locations,
           NEW n \in 0 .. Len(d.deviations)
    PROVE  WorkingValue(d, l, n) \in Values
<1>1. CASE AtLocation(d, l, n) = {}
  BY <1>1 DEF WorkingValue, Records, Snapshots
<1>2. CASE AtLocation(d, l, n) # {}
  <2>1. d.deviations[Max(AtLocation(d, l, n))] \in Deviations
    BY <1>2, LastDeviation
  <2> QED
    BY <1>2, <2>1 DEF WorkingValue, Deviations
<1> QED
  BY <1>1, <1>2

\* A working value depends on the snapshot and the first n deviations only.
LEMMA WorkingValuePrefix ==
    ASSUME NEW d \in Records, NEW e, NEW l \in Locations,
           NEW n \in 0 .. Len(d.deviations),
           e.snapshot = d.snapshot,
           \A i \in 1 .. n : e.deviations[i] = d.deviations[i]
    PROVE  WorkingValue(e, l, n) = WorkingValue(d, l, n)
<1>1. AtLocation(e, l, n) = AtLocation(d, l, n)
  BY DEF AtLocation
<1>2. CASE AtLocation(d, l, n) = {}
  BY <1>1, <1>2 DEF WorkingValue
<1>3. CASE AtLocation(d, l, n) # {}
  <2>1. Max(AtLocation(d, l, n)) \in 1 .. n
    BY <1>3, LastDeviation
  <2> QED
    BY <1>1, <1>3, <2>1 DEF WorkingValue
<1> QED
  BY <1>2, <1>3

\* The last of n deviations decides the value of its register, and no other.
LEMMA WorkingValueStep ==
    ASSUME NEW d \in Records, NEW l \in Locations,
           NEW n \in 1 .. Len(d.deviations)
    PROVE  WorkingValue(d, l, n) =
             IF d.deviations[n].location = l THEN d.deviations[n].requested
             ELSE WorkingValue(d, l, n - 1)
<1>0. n \in Nat /\ n \in 0 .. Len(d.deviations) /\ Len(d.deviations) \in Nat
  BY DEF Records
<1>1. CASE d.deviations[n].location = l
  <2>1. n \in AtLocation(d, l, n)
    BY <1>0, <1>1 DEF AtLocation
  <2>2. /\ Max(AtLocation(d, l, n)) \in 1 .. n
        /\ \A i \in 1 .. n : d.deviations[i].location = l
              => i <= Max(AtLocation(d, l, n))
    BY <1>0, <2>1, LastDeviation
  <2>3. Max(AtLocation(d, l, n)) = n
    BY <1>0, <1>1, <2>2
  <2> QED
    BY <1>1, <2>1, <2>3 DEF WorkingValue
<1>2. CASE d.deviations[n].location # l
  <2>1. AtLocation(d, l, n) = AtLocation(d, l, n - 1)
    BY <1>0, <1>2 DEF AtLocation
  <2> QED
    BY <1>2, <2>1 DEF WorkingValue
<1> QED
  BY <1>1, <1>2

----------------------------------------------------------------------------
(***************************************************************************)
(* The text.                                                               *)
(***************************************************************************)

\* The sections of a text that was written.
LEMMA WrittenSections ==
    ASSUME NEW d \in Records
    PROVE  LET t == WriteV5(d)
           IN  /\ DOMAIN t.sections = 1 .. 5 /\ Len(t.sections) = 5
               /\ t.sections[1] = Section("SESSION", <<d.phase, d.parking>>)
               /\ t.sections[2] = Section("IDENTITY", d.identity)
               /\ t.sections[3] = Section("OWNERSHIP", d.ownership)
               /\ t.sections[4] = Section("RESTORE_SNAPSHOT", d.snapshot)
               /\ t.sections[5] = Section("DEVIATIONS", d.deviations)
               /\ t.sum = RecordChecksum(d) /\ t.end = TRUE
BY DEF WriteV5

\* A text that was written is a text.
LEMMA WrittenIsText ==
    ASSUME NEW d \in Records PROVE WriteV5(d) \in Texts
<1>1. /\ Section("SESSION", <<d.phase, d.parking>>) \in SectionSet
      /\ Section("IDENTITY", d.identity) \in SectionSet
      /\ Section("OWNERSHIP", d.ownership) \in SectionSet
      /\ Section("RESTORE_SNAPSHOT", d.snapshot) \in SectionSet
      /\ Section("DEVIATIONS", d.deviations) \in SectionSet
  BY DEF Section, SectionSet, Records, Bodies
<1>2. RecordChecksum(d) \in Phases \X BOOLEAN \X Identities \X {None}
           \X (Snapshots \cup {None}) \X Seq(Deviations)
  BY DEF RecordChecksum, Records
<1> QED
  BY <1>1, <1>2 DEF WriteV5, Texts

\* A record is read back from its text.
LEMMA ReadsBack ==
    ASSUME NEW d \in Records PROVE ReadV5(WriteV5(d)) = d
<1>1. PICK t : t = WriteV5(d)
  OBVIOUS
<1>a. /\ t.sections[1] = Section("SESSION", <<d.phase, d.parking>>)
      /\ t.sections[2] = Section("IDENTITY", d.identity)
      /\ t.sections[3] = Section("OWNERSHIP", d.ownership)
      /\ t.sections[4] = Section("RESTORE_SNAPSHOT", d.snapshot)
      /\ t.sections[5] = Section("DEVIATIONS", d.deviations)
  BY <1>1, WrittenSections
<1>2. /\ Body(t, 1) = <<d.phase, d.parking>> /\ Body(t, 2) = d.identity
      /\ Body(t, 3) = d.ownership /\ Body(t, 4) = d.snapshot
      /\ Body(t, 5) = d.deviations
  BY <1>a DEF Body, Section
<1> QED
  BY <1>1, <1>2 DEF ReadV5, Records

\* The parser accepts the text of a valid record, and returns the record.
LEMMA LoadsWhatWasSaved ==
    ASSUME NEW d \in Records, ValidateV5Data(d)
    PROVE  ParseTunerRecoveryJournalV5(WriteV5(d)) = d
<1>1. PICK t : t = WriteV5(d)
  OBVIOUS
<1>a. /\ DOMAIN t.sections = 1 .. 5
      /\ t.sections[1] = Section("SESSION", <<d.phase, d.parking>>)
      /\ t.sections[2] = Section("IDENTITY", d.identity)
      /\ t.sections[3] = Section("OWNERSHIP", d.ownership)
      /\ t.sections[4] = Section("RESTORE_SNAPSHOT", d.snapshot)
      /\ t.sections[5] = Section("DEVIATIONS", d.deviations)
  BY <1>1, WrittenSections
<1>2. [i \in DOMAIN t.sections |-> t.sections[i].tag] = Tags
  BY <1>a DEF Section, Tags
<1>3. CheckSectionChecksum(t)
  BY <1>a DEF Section, CheckSectionChecksum
<1>4. CheckRecordChecksum(t) /\ t.end
  BY <1>1, WrittenSections, ReadsBack DEF CheckRecordChecksum
<1> QED
  BY <1>1, <1>2, <1>3, <1>4, ReadsBack DEF ParseTunerRecoveryJournalV5

----------------------------------------------------------------------------
(***************************************************************************)
(* The steps.                                                              *)
(***************************************************************************)

\* A valid record that is saved is held, if the module fits it.
LEMMA Saves ==
    ASSUME V5Assumption, V5Inv, NEW d \in Records, Serialize(d),
           UNCHANGED <<live, initial>>, pending' \in BOOLEAN,
           d.snapshot = None => live = initial /\ ~pending',
           d.snapshot # None =>
              /\ d.snapshot.values = initial
              /\ pending' => Len(d.deviations) > 0
              /\ \A l \in Locations :
                    live[l] = WorkingValue(d, l, Seen(d, pending'))
    PROVE  V5Inv'
<1>1. written' = d /\ text' = WriteV5(d) /\ ValidateV5Data(d) /\ d # None
  BY DEF Serialize, V5Assumption
<1>2. Held(d, WriteV5(d), live, initial, pending')
  BY <1>1 DEF Held
<1> QED
  BY <1>1, <1>2 DEF V5Inv

\* The Prepared record is saved before anything is changed.
LEMMA CreateStep == ASSUME V5Assumption, V5Inv, CreatePrepared PROVE V5Inv'
<1>1. PICK id \in Identities : Serialize(Prepared(id))
  BY DEF CreatePrepared
<1>2. Prepared(id) \in Records /\ Prepared(id).snapshot = None
  BY DEF Prepared, Records, Phases
<1>3. written = None
  <2>1. SUFFICES ASSUME written # None PROVE FALSE
    OBVIOUS
  <2>2. text \in Texts
    BY <2>1, WrittenIsText DEF V5Inv, Held
  <2> QED
    BY <2>2 DEF CreatePrepared, V5Assumption
<1>4. live = initial /\ ~pending /\ pending' = pending /\ pending \in BOOLEAN
  BY <1>3 DEF V5Inv, CreatePrepared
<1> QED
  BY <1>1, <1>2, <1>4, Saves DEF CreatePrepared

\* The snapshot is taken while every register is as it was found.
LEMMA PromoteStep ==
    ASSUME V5Assumption, V5Inv, PromoteTunerRecoveryJournalV5Snapshot
    PROVE  V5Inv'
<1>1. PICK prepared : prepared = ParseTunerRecoveryJournalV5(text)
  OBVIOUS
<1>2. written # None
  BY DEF PromoteTunerRecoveryJournalV5Snapshot, V5Inv
<1>3. written \in Records /\ prepared = written
  BY <1>1, <1>2, LoadsWhatWasSaved DEF V5Inv, Held
<1>4. /\ IdentityOnlyPrepared(prepared)
      /\ Serialize([prepared EXCEPT !.parking = FALSE, !.deviations = <<>>,
             !.snapshot = [identity |-> prepared.identity, values |-> live]])
      /\ UNCHANGED <<live, initial, pending>>
  BY <1>1 DEF PromoteTunerRecoveryJournalV5Snapshot
<1>5. PICK d : d = [prepared EXCEPT !.parking = FALSE, !.deviations = <<>>,
             !.snapshot = [identity |-> prepared.identity, values |-> live]]
  OBVIOUS
<1>6. live = initial /\ ~pending /\ live \in [Locations -> Values]
  BY <1>2, <1>3, <1>4 DEF IdentityOnlyPrepared, V5Inv, Held
<1>7. PICK snap : snap = [identity |-> prepared.identity, values |-> live]
  OBVIOUS
<1>8. snap \in Snapshots /\ snap # None /\ snap.values = live
  BY <1>3, <1>6, <1>7 DEF Records, Snapshots, V5Assumption
<1>9. d.snapshot = snap /\ d.deviations = <<>> /\ d \in Records
  <2>1. PICK none : none = <<>>
    OBVIOUS
  <2>2. d = [prepared EXCEPT !.parking = FALSE, !.deviations = none,
                             !.snapshot = snap]
    BY <1>5, <1>7, <2>1
  <2>3. none \in Seq(Deviations)
    BY <2>1
  <2> QED
    BY <1>3, <1>8, <2>1, <2>2, <2>3 DEF Records
<1>10. ASSUME NEW l \in Locations
       PROVE  live[l] = WorkingValue(d, l, Seen(d, pending'))
  <2>1. Seen(d, pending') = 0
    BY <1>4, <1>6, <1>9 DEF Seen
  <2>2. AtLocation(d, l, 0) = {}
    BY DEF AtLocation
  <2> QED
    BY <2>1, <2>2, <1>8, <1>9 DEF WorkingValue
<1>11. Serialize(d) /\ pending' = FALSE
  BY <1>4, <1>5, <1>6 DEF V5Inv
<1> QED
  BY <1>4, <1>6, <1>8, <1>9, <1>10, <1>11, Saves

\* The recorded deviation is the one the module has not seen.
LEMMA RecordStep == ASSUME V5Assumption, V5Inv, RecordDeviation PROVE V5Inv'
<1>1. PICK l \in Locations, value \in Values, phase \in Phases :
        Serialize([written EXCEPT !.phase = phase,
              !.deviations = Append(@, Deviation(written, l, value))])
  BY DEF RecordDeviation
<1>2. /\ written # None /\ written.snapshot # None /\ ~pending /\ pending' = TRUE
      /\ UNCHANGED <<live, initial>>
  BY DEF RecordDeviation
<1>3. /\ written \in Records /\ written.snapshot.values = initial
      /\ \A k \in Locations :
            live[k] = WorkingValue(written, k, Len(written.deviations))
  BY <1>2 DEF V5Inv, Held, Seen
<1>4. PICK v : v = Deviation(written, l, value)
  OBVIOUS
<1>5. written.deviations \in Seq(Deviations) /\ Len(written.deviations) \in Nat
  BY <1>3 DEF Records
<1>6. v \in Deviations
  <2>1. WorkingValue(written, l, Len(written.deviations)) \in Values
    BY <1>2, <1>3, <1>5, WorkingValueType
  <2>2. written.snapshot.values[l] \in Values
    BY <1>2, <1>3 DEF V5Inv
  <2> QED
    BY <1>4, <1>5, <2>1, <2>2 DEF Deviation, Deviations
<1>7. PICK devs : devs = Append(written.deviations, v)
  OBVIOUS
<1>8. /\ devs \in Seq(Deviations) /\ Len(devs) = Len(written.deviations) + 1
      /\ \A i \in 1 .. Len(written.deviations) : devs[i] = written.deviations[i]
  BY <1>5, <1>6, <1>7
<1>9. PICK d : d = [written EXCEPT !.phase = phase, !.deviations = devs]
  OBVIOUS
<1>10. d \in Records /\ d.deviations = devs /\ d.snapshot = written.snapshot
  BY <1>3, <1>8, <1>9 DEF Records
<1>11. Serialize(d)
  BY <1>1, <1>4, <1>7, <1>9
<1>12. ASSUME NEW k \in Locations
       PROVE  live[k] = WorkingValue(d, k, Seen(d, pending'))
  <2>1. Seen(d, pending') = Len(written.deviations)
    BY <1>2, <1>5, <1>8, <1>10 DEF Seen
  <2>2. Len(written.deviations) \in 0 .. Len(written.deviations)
    BY <1>5
  <2>3. WorkingValue(d, k, Len(written.deviations))
           = WorkingValue(written, k, Len(written.deviations))
    BY <2>2, <1>3, <1>8, <1>10, WorkingValuePrefix
  <2> QED
    BY <1>3, <2>1, <2>3
<1>13. Len(d.deviations) > 0
  BY <1>5, <1>8, <1>10
<1> QED
  BY <1>2, <1>3, <1>10, <1>11, <1>12, <1>13, Saves

\* The register takes the value of the deviation recorded last.
LEMMA WriteStep == ASSUME V5Assumption, V5Inv, WriteRegister PROVE V5Inv'
<1>1. /\ pending /\ written # None /\ pending' = FALSE
      /\ live' = [live EXCEPT ![Last(written.deviations).location] =
                                Last(written.deviations).requested]
      /\ UNCHANGED <<text, written, initial>>
  BY DEF WriteRegister
<1>2. Held(written, text, live, initial, pending) /\ written.snapshot # None
  BY <1>1 DEF V5Inv, Held
<1>3. PICK n : n = Len(written.deviations)
  OBVIOUS
<1>4. /\ written \in Records /\ n > 0 /\ written.deviations \in Seq(Deviations)
      /\ n \in Nat
  BY <1>1, <1>2, <1>3 DEF Held, Records
<1>5. n \in 1 .. Len(written.deviations) /\ n \in 1 .. n
  BY <1>3, <1>4
<1>6. PICK v : v = written.deviations[n]
  OBVIOUS
<1>7. v \in Deviations /\ Last(written.deviations) = v
  BY <1>3, <1>4, <1>5, <1>6 DEF Last
<1>8. v.location \in Locations /\ v.requested \in Values
  BY <1>7 DEF Deviations
<1>9. live' \in [Locations -> Values]
  BY <1>1, <1>7, <1>8 DEF V5Inv
<1>10. ASSUME NEW l \in Locations
       PROVE  live'[l] = WorkingValue(written, l, Seen(written, FALSE))
  <2>1. live[l] = WorkingValue(written, l, n - 1)
    BY <1>1, <1>2, <1>3 DEF Held, Seen
  <2>2. WorkingValue(written, l, n) =
          IF v.location = l THEN v.requested ELSE WorkingValue(written, l, n - 1)
    BY <1>4, <1>5, <1>6, WorkingValueStep
  <2>3. Seen(written, FALSE) = n
    BY <1>3 DEF Seen
  <2>4. live'[l] = IF v.location = l THEN v.requested ELSE live[l]
    BY <1>1, <1>7, <1>8 DEF V5Inv
  <2> QED
    BY <2>1, <2>2, <2>3, <2>4
<1>11. Held(written, text, live', initial, FALSE)
  BY <1>2, <1>10 DEF Held
<1> QED
  BY <1>1, <1>9, <1>11 DEF V5Inv

----------------------------------------------------------------------------
(***************************************************************************)
(* The damage.                                                             *)
(***************************************************************************)

\* A text that is accepted and has the checksum of record d is the text of d.
LEMMA AcceptedIsWritten ==
    ASSUME NEW d \in Records, NEW t \in Texts,
           DOMAIN t.sections = 1 .. 5, Body(t, 1) \in Phases \X BOOLEAN,
           t.sum = RecordChecksum(d), ParseTunerRecoveryJournalV5(t) # None
    PROVE  t = WriteV5(d)
<1>1. /\ [i \in DOMAIN t.sections |-> t.sections[i].tag] = Tags
      /\ CheckSectionChecksum(t) /\ CheckRecordChecksum(t) /\ t.end
  BY DEF ParseTunerRecoveryJournalV5
<1>2. RecordChecksum(ReadV5(t)) = RecordChecksum(d)
  BY <1>1 DEF CheckRecordChecksum
<1>3. /\ Body(t, 1)[1] = d.phase /\ Body(t, 1)[2] = d.parking
      /\ Body(t, 2) = d.identity /\ Body(t, 3) = d.ownership
      /\ Body(t, 4) = d.snapshot /\ Body(t, 5) = d.deviations
  BY <1>2 DEF RecordChecksum, ReadV5
<1>4. Body(t, 1) = <<d.phase, d.parking>>
  BY <1>3
<1>5. ASSUME NEW i \in 1 .. 5
      PROVE  /\ t.sections[i] \in SectionSet /\ t.sections[i].tag = Tags[i]
             /\ t.sections[i].body = Body(t, i) /\ t.sections[i].sum = Body(t, i)
  <2>1. t.sections[i] \in SectionSet
    BY DEF Texts
  <2>2. [k \in 1 .. 5 |-> t.sections[k].tag][i] = Tags[i]
    BY <1>1
  <2>3. t.sections[i].body = t.sections[i].sum
    BY <1>1 DEF CheckSectionChecksum
  <2> QED
    BY <2>1, <2>2, <2>3 DEF Body
<1>6. ASSUME NEW i \in 1 .. 5
      PROVE  t.sections[i] = Section(Tags[i], Body(t, i))
  BY <1>5 DEF SectionSet, Section
<1>7. /\ t.sections[1] = Section("SESSION", <<d.phase, d.parking>>)
      /\ t.sections[2] = Section("IDENTITY", d.identity)
      /\ t.sections[3] = Section("OWNERSHIP", d.ownership)
      /\ t.sections[4] = Section("RESTORE_SNAPSHOT", d.snapshot)
      /\ t.sections[5] = Section("DEVIATIONS", d.deviations)
  BY <1>3, <1>4, <1>6 DEF Tags
<1>8. PICK secs : secs = WriteV5(d).sections
  OBVIOUS
<1>9. /\ t.sections \in Seq(SectionSet) /\ secs \in Seq(SectionSet)
      /\ DOMAIN secs = 1 .. 5 /\ t.end = TRUE
  BY <1>1, <1>8, WrittenSections, WrittenIsText DEF Texts
<1>10. \A i \in 1 .. 5 : t.sections[i] = secs[i]
  <2>1. /\ secs[1] = t.sections[1] /\ secs[2] = t.sections[2]
        /\ secs[3] = t.sections[3] /\ secs[4] = t.sections[4]
        /\ secs[5] = t.sections[5]
    BY <1>7, <1>8, WrittenSections
  <2> QED
    BY <2>1
<1>11. t.sections = secs
  BY <1>9, <1>10
<1>12. WriteV5(d) = [sections |-> secs, sum |-> RecordChecksum(d), end |-> TRUE]
  BY <1>8 DEF WriteV5
<1> QED
  BY <1>9, <1>11, <1>12 DEF Texts

\* What an earlier save may have held is a record.
LEMMA EarlierIsRecord ==
    ASSUME NEW d \in Records, NEW e \in EarlierRecords(d)
    PROVE  e \in Records
<1>1. CASE e \in {[d EXCEPT !.deviations = SubSeq(@, 1, n)] :
                      n \in 0 .. Len(d.deviations)}
  <2>1. PICK n \in 0 .. Len(d.deviations) :
           e = [d EXCEPT !.deviations = SubSeq(@, 1, n)]
    BY <1>1
  <2>2. d.deviations \in Seq(Deviations)
    BY DEF Records
  <2>3. PICK q : q = SubSeq(d.deviations, 1, n)
    OBVIOUS
  <2>4. q \in Seq(Deviations)
    BY <2>2, <2>3
  <2>5. e = [d EXCEPT !.deviations = q]
    BY <2>1, <2>3
  <2> QED
    BY <2>4, <2>5 DEF Records
<1>2. CASE e \in {[d EXCEPT !.phase = p] : p \in Phases}
  <2>1. PICK p \in Phases : e = [d EXCEPT !.phase = p]
    BY <1>2
  <2> QED
    BY <2>1 DEF Records
<1>3. CASE e \in {Prepared(id) : id \in Identities}
  <2>1. PICK id \in Identities : e = Prepared(id)
    BY <1>3
  <2> QED
    BY <2>1 DEF Prepared, Records, Phases
<1> QED
  BY <1>1, <1>2, <1>3 DEF EarlierRecords

\* A section of record d that is one of record e, whole or in its values,
\* makes a text that is not accepted, unless it is the same.
LEMMA ReplacedIsRefused ==
    ASSUME NEW d \in Records, NEW e \in Records, NEW i \in 1 .. 5,
           NEW t, t # WriteV5(d),
           LET s == WriteV5(e).sections[i]
           IN \/ t = [WriteV5(d) EXCEPT !.sections[i] = s]
              \/ t = [WriteV5(d) EXCEPT !.sections[i].body = s.body]
    PROVE  t \in Texts /\ ParseTunerRecoveryJournalV5(t) = None
<1>1. PICK w : w = WriteV5(d)
  OBVIOUS
<1>2. /\ w \in Texts /\ w.sections \in Seq(SectionSet) /\ DOMAIN w.sections = 1 .. 5
      /\ w.sum = RecordChecksum(d) /\ Len(w.sections) = 5
  BY <1>1, WrittenSections, WrittenIsText DEF Texts
<1>3. PICK s : s = WriteV5(e).sections[i]
  OBVIOUS
<1>4. s \in SectionSet
  <2>1. WriteV5(e) \in Texts /\ DOMAIN WriteV5(e).sections = 1 .. 5
    BY WrittenSections, WrittenIsText
  <2> QED
    BY <1>3, <2>1 DEF Texts
<1>5. PICK u : /\ u = s \/ u = [w.sections[i] EXCEPT !.body = s.body]
               /\ t = [w EXCEPT !.sections[i] = u]
  BY <1>1, <1>3
<1>6. u \in SectionSet /\ u.body = s.body
  <2>1. PICK o : o = w.sections[i] /\ o \in SectionSet
    BY <1>2
  <2>2. CASE u = [o EXCEPT !.body = s.body]
    BY <1>4, <2>1, <2>2 DEF SectionSet
  <2> QED
    BY <1>4, <1>5, <2>1, <2>2
<1>7. PICK secs : secs = [w.sections EXCEPT ![i] = u]
  OBVIOUS
<1>8. secs \in Seq(SectionSet) /\ DOMAIN secs = 1 .. 5
  <2>1. i \in 1 .. Len(w.sections)
    BY <1>2
  <2> QED
    BY <1>2, <1>6, <1>7, <2>1, ExceptSeq
<1>9. /\ t \in Texts /\ t.sections = secs /\ t.sum = RecordChecksum(d)
  BY <1>2, <1>5, <1>7, <1>8 DEF Texts
<1>10. Body(t, 1) \in Phases \X BOOLEAN
  <2>1. CASE i = 1
    <3>1. s = Section("SESSION", <<e.phase, e.parking>>)
      BY <1>3, <2>1, WrittenSections
    <3>2. t.sections[1] = u
      BY <1>2, <1>7, <1>9, <2>1
    <3> QED
      BY <1>6, <3>1, <3>2 DEF Body, Section, Records
  <2>2. CASE i # 1
    <3>1. t.sections[1] = w.sections[1]
      BY <1>2, <1>7, <1>9, <2>2
    <3>2. w.sections[1] = Section("SESSION", <<d.phase, d.parking>>)
      BY <1>1, WrittenSections
    <3> QED
      BY <3>1, <3>2 DEF Body, Section, Records
  <2> QED
    BY <2>1, <2>2
<1> QED
  BY <1>8, <1>9, <1>10, AcceptedIsWritten

\* A text without one of its sections, or without its end, is not accepted.
LEMMA TruncatedIsRefused ==
    ASSUME NEW d \in Records, NEW t,
           \/ \E i \in 1 .. 5 :
                t = [WriteV5(d) EXCEPT !.sections = RemoveAt(@, i)]
           \/ t = [WriteV5(d) EXCEPT !.end = FALSE]
    PROVE  t \in Texts /\ ParseTunerRecoveryJournalV5(t) = None
<1>1. PICK w : w = WriteV5(d)
  OBVIOUS
<1>2. w \in Texts /\ w.sections \in Seq(SectionSet) /\ Len(w.sections) = 5
  BY <1>1, WrittenSections, WrittenIsText DEF Texts
<1>3. ASSUME NEW i \in 1 .. 5, t = [w EXCEPT !.sections = RemoveAt(@, i)]
      PROVE  t \in Texts /\ ParseTunerRecoveryJournalV5(t) = None
  <2>a. PICK a : a = SubSeq(w.sections, 1, i - 1)
    OBVIOUS
  <2>b. PICK b : b = SubSeq(w.sections, i + 1, Len(w.sections))
    OBVIOUS
  <2>1. a \in Seq(SectionSet) /\ Len(a) = i - 1
    <3>1. 1 \in Int /\ i - 1 \in Int
      OBVIOUS
    <3>2. \A k \in 1 .. i - 1 : w.sections[k] \in SectionSet
      BY <1>2
    <3>3. /\ a \in Seq(SectionSet)
          /\ Len(a) = IF 1 <= i - 1 THEN i - 1 - 1 + 1 ELSE 0
      BY <2>a, <3>1, <3>2, SubSeqProperties
    <3> QED
      BY <3>3
  <2>2. b \in Seq(SectionSet) /\ Len(b) = 5 - i
    BY <1>2, <2>b
  <2>c. PICK secs : secs = a \o b
    OBVIOUS
  <2>3. secs \in Seq(SectionSet) /\ Len(secs) = 4
    BY <2>1, <2>2, <2>c
  <2>4. t = [w EXCEPT !.sections = secs]
    BY <1>3, <2>a, <2>b, <2>c DEF RemoveAt
  <2>5. t \in Texts /\ t.sections = secs
    BY <1>2, <2>3, <2>4 DEF Texts
  <2>6. [k \in DOMAIN t.sections |-> t.sections[k].tag] # Tags
    <3>1. DOMAIN secs = 1 .. 4 /\ 5 \notin 1 .. 4
      BY <2>3
    <3>2. DOMAIN [k \in DOMAIN secs |-> secs[k].tag] = 1 .. 4
      BY <3>1
    <3>3. DOMAIN Tags = 1 .. 5
      BY DEF Tags
    <3> QED
      BY <2>5, <3>1, <3>2, <3>3
  <2> QED
    BY <2>5, <2>6 DEF ParseTunerRecoveryJournalV5
<1>4. ASSUME t = [w EXCEPT !.end = FALSE]
      PROVE  t \in Texts /\ ParseTunerRecoveryJournalV5(t) = None
  <2>1. t \in Texts /\ t.end = FALSE
    BY <1>2, <1>4 DEF Texts
  <2> QED
    BY <2>1 DEF ParseTunerRecoveryJournalV5
<1> QED
  BY <1>1, <1>3, <1>4

\* Whatever the damage, the text stays refused.
LEMMA DamageStep == ASSUME V5Assumption, V5Inv, Damage PROVE V5Inv'
<1>1. written \in Records /\ text = WriteV5(written)
  BY DEF Damage, V5Inv, Held
<1>2. /\ written' = None /\ UNCHANGED <<live, initial, pending>>
      /\ text' # WriteV5(written)
  BY <1>1 DEF Damage
<1>3. DOMAIN text.sections = 1 .. 5
  BY <1>1, WrittenSections
<1>4. text' \in Texts /\ ParseTunerRecoveryJournalV5(text') = None
  <2>1. CASE \/ \E i \in DOMAIN text.sections :
                   text' = [text EXCEPT !.sections = RemoveAt(@, i)]
             \/ text' = [text EXCEPT !.end = FALSE]
    BY <1>1, <1>3, <2>1, TruncatedIsRefused
  <2>2. CASE \E i \in DOMAIN text.sections, e \in EarlierRecords(written) :
               LET s == WriteV5(e).sections[i]
               IN \/ text' = [text EXCEPT !.sections[i] = s]
                  \/ text' = [text EXCEPT !.sections[i].body = s.body]
    <3>1. PICK i \in 1 .. 5, e \in EarlierRecords(written) :
             LET s == WriteV5(e).sections[i]
             IN \/ text' = [text EXCEPT !.sections[i] = s]
                \/ text' = [text EXCEPT !.sections[i].body = s.body]
      BY <1>3, <2>2
    <3>2. e \in Records
      BY <1>1, <3>1, EarlierIsRecord
    <3> QED
      BY <1>1, <1>2, <3>1, <3>2, ReplacedIsRefused
  <2> QED
    BY <2>1, <2>2 DEF Damage
<1>5. text' # None
  BY <1>4 DEF V5Assumption
<1> QED
  BY <1>2, <1>4, <1>5 DEF V5Inv, ParseTunerRecoveryJournalV5

----------------------------------------------------------------------------
\* V5Inv holds initially.
LEMMA V5Start == ASSUME Init PROVE V5Inv
BY DEF Init, V5Inv

\* V5Inv is preserved by every step.
LEMMA V5Step == ASSUME V5Assumption, V5Inv, [Next]_vars PROVE V5Inv'
<1>1. CASE UNCHANGED vars
  BY <1>1 DEF vars, V5Inv
<1>2. CASE Done
  BY <1>1, <1>2 DEF Done
<1> QED
  BY <1>1, <1>2, CreateStep, PromoteStep, RecordStep, WriteStep, DamageStep
     DEF Next

\* The invariant makes every register restorable.
LEMMA HeldIsRestorable == ASSUME V5Inv PROVE AlwaysRestorable
<1>1. SUFFICES ASSUME written # None, written.snapshot # None,
                      NEW l \in Locations
               PROVE  LET devs == AtLocation(written, l, Len(written.deviations))
                      IN IF devs = {} THEN live[l] = initial[l]
                         ELSE LET v == written.deviations[Max(devs)]
                                  action == ClassifyTunerRecoveryV5LiveValue(v, live[l])
                              IN /\ v.original = initial[l]
                                 /\ action # "BlockAndRetain"
                                 /\ live[l] # initial[l] => action = "RestoreOriginal"
  BY DEF AlwaysRestorable
<1>2. PICK n : n = Len(written.deviations)
  OBVIOUS
<1>3. /\ written \in Records /\ n \in Nat /\ written.snapshot.values = initial
      /\ DeviationChain(written) /\ (pending => n > 0)
      /\ live[l] = WorkingValue(written, l, IF pending THEN n - 1 ELSE n)
      /\ DOMAIN written.deviations = 1 .. n
  BY <1>1, <1>2 DEF V5Inv, Held, Records, ValidateV5Data, Seen
<1>4. CASE AtLocation(written, l, n) = {}
  <2>1. AtLocation(written, l, IF pending THEN n - 1 ELSE n) = {}
    BY <1>3, <1>4 DEF AtLocation
  <2>2. live[l] = initial[l]
    BY <1>3, <2>1 DEF WorkingValue
  <2> QED
    BY <1>2, <1>4, <2>2
<1>5. CASE AtLocation(written, l, n) # {}
  <2>1. PICK k : k = Max(AtLocation(written, l, n))
    OBVIOUS
  <2>2. PICK v : v = written.deviations[k]
    OBVIOUS
  <2>3. n \in 0 .. Len(written.deviations)
    BY <1>2, <1>3
  <2>4. /\ k \in 1 .. n /\ v \in Deviations /\ v.location = l
        /\ \A i \in 1 .. n : written.deviations[i].location = l => i <= k
    BY <1>3, <1>5, <2>1, <2>2, <2>3, LastDeviation
  <2>5. /\ v.original = initial[l] /\ v.previous = WorkingValue(written, l, k - 1)
    BY <1>3, <2>2, <2>4 DEF DeviationChain
  <2>6. v.requested = WorkingValue(written, l, n)
    BY <1>5, <2>1, <2>2 DEF WorkingValue
  <2>7. live[l] \in {v.previous, v.requested}
    <3>1. CASE ~pending
      BY <1>3, <2>6, <3>1
    <3>2. CASE pending /\ k = n
      BY <1>3, <2>5, <3>2
    <3>3. CASE pending /\ k # n
      <4>1. n \in 1 .. Len(written.deviations)
        BY <1>2, <1>3, <3>3
      <4>2. written.deviations[n].location # l
        BY <1>3, <2>4, <3>3
      <4>3. WorkingValue(written, l, n) = WorkingValue(written, l, n - 1)
        BY <1>3, <4>1, <4>2, WorkingValueStep
      <4> QED
        BY <1>3, <2>6, <3>3, <4>3
    <3> QED
      BY <3>1, <3>2, <3>3
  <2>8. /\ ClassifyTunerRecoveryV5LiveValue(v, live[l]) # "BlockAndRetain"
        /\ live[l] # initial[l] =>
              ClassifyTunerRecoveryV5LiveValue(v, live[l]) = "RestoreOriginal"
    BY <2>5, <2>7 DEF ClassifyTunerRecoveryV5LiveValue
  <2> QED
    BY <1>2, <1>5, <2>1, <2>2, <2>5, <2>8
<1> QED
  BY <1>4, <1>5

(***************************************************************************)
(* The record saved last is the one loaded, a damaged text is refused, and *)
(* every changed register can be restored to the value the session found,  *)
(* at every moment (ParseTunerRecoveryJournalV5,                           *)
(* ClassifyTunerRecoveryV5LiveValue).                                      *)
(***************************************************************************)
THEOREM V5IsRestorable ==
    ASSUME V5Assumption
    PROVE  Spec => [](/\ V5LoadReturnsWhatWasSaved /\ V5DamageIsRefused
                      /\ AlwaysRestorable)
<1>1. V5Inv => /\ V5LoadReturnsWhatWasSaved /\ V5DamageIsRefused
               /\ AlwaysRestorable
  BY HeldIsRestorable, LoadsWhatWasSaved
     DEF V5Inv, Held, V5LoadReturnsWhatWasSaved, V5DamageIsRefused
<1>2. Init => V5Inv
  BY V5Start
<1>3. V5Inv /\ [Next]_vars => V5Inv'
  BY V5Step
<1> QED
  BY <1>1, <1>2, <1>3, PTL DEF Spec
=============================================================================

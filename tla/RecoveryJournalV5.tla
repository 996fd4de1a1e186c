------------------------- MODULE RecoveryJournalV5 -------------------------
(***************************************************************************)
(* The version 5 journal of a tuning session (RecoveryJournalV5.cpp): what *)
(* a valid record is, its text with one checksum per section and one over  *)
(* all, the promotion of the Prepared record to one with a snapshot, and   *)
(* the decision what recovery may do about a live register value.          *)
(*                                                                         *)
(* The Prepared record and its promotion are written by                    *)
(* PrepareTuningSessionOperation.  Deviations are validated, serialised,   *)
(* parsed and classified, but no operation records them yet; here they     *)
(* come in the order RecoveryJournal.h describes: the journal first, then  *)
(* the register.  Checksums are modelled by the values they hash.          *)
(***************************************************************************)
EXTENDS Naturals, Sequences, FiniteSets, FiniteSetsExt, SequencesExt

CONSTANTS
    Locations,      \* registers of the snapshot: a scope, a quad, an offset
    Values,         \* register values
    Identities,     \* identities of controller and target
    TunerRecoveryV5MaximumDeviationCount,
    None

VARIABLES
    text,      \* the journal file, or None
    written,   \* the record whose text it holds; None if none or damaged
    live,      \* the registers of the module
    initial,   \* their values when the session began
    pending    \* the deviation saved last is not yet written to the module

vars == <<text, written, live, initial, pending>>

Phases == {"Preparing", "Goal"}

\* The records, and the texts with sections that some record may have.
Snapshots == [identity : Identities, values : [Locations -> Values]]
Deviations == [ordinal : Nat, location : Locations, original : Values,
               previous : Values, requested : Values]
Records ==
    [phase : Phases, parking : BOOLEAN, identity : Identities,
     ownership : {None}, snapshot : Snapshots \cup {None},
     deviations : Seq(Deviations)]
Bodies == (Phases \X BOOLEAN) \cup Identities \cup Snapshots
             \cup Seq(Deviations) \cup {None}
SectionSet ==
    [tag : {"SESSION", "IDENTITY", "OWNERSHIP", "RESTORE_SNAPSHOT", "DEVIATIONS"},
     body : Bodies, sum : Bodies]
Texts ==
    [sections : Seq(SectionSet),
     sum : Phases \X BOOLEAN \X Identities \X {None}
           \X (Snapshots \cup {None}) \X Seq(Deviations),
     end : BOOLEAN]

V5Assumption ==
    /\ TunerRecoveryV5MaximumDeviationCount \in Nat
    /\ None \notin Snapshots \cup Records \cup Texts

----------------------------------------------------------------------------
\* The value of l after the first n deviations, and the original value.
AtLocation(d, l, n) == {i \in 1 .. n : d.deviations[i].location = l}
WorkingValue(d, l, n) ==
    IF AtLocation(d, l, n) = {} THEN d.snapshot.values[l]
    ELSE d.deviations[Max(AtLocation(d, l, n))].requested

ValidateSnapshot(d) == d.snapshot.identity = d.identity

DeviationChain(d) ==
    \A i \in DOMAIN d.deviations :
        LET v == d.deviations[i]
        IN /\ v.ordinal = i - 1
           /\ v.location \in Locations
           /\ v.original = d.snapshot.values[v.location]
           /\ v.previous = WorkingValue(d, v.location, i - 1)
           /\ v.requested # v.previous

ValidateV5Data(d) ==
    IF d.snapshot = None
      THEN d.phase = "Preparing" /\ d.deviations = <<>>
      ELSE /\ ValidateSnapshot(d)
           /\ Len(d.deviations) <= TunerRecoveryV5MaximumDeviationCount
           /\ DeviationChain(d)

----------------------------------------------------------------------------
Section(tag, body) == [tag |-> tag, body |-> body, sum |-> body]

\* RecordChecksum covers the checksums of the six sections.
RecordChecksum(d) ==
    <<d.phase, d.parking, d.identity, d.ownership, d.snapshot, d.deviations>>

WriteV5(d) ==
    [sections |-> <<Section("SESSION", <<d.phase, d.parking>>),
                    Section("IDENTITY", d.identity),
                    Section("OWNERSHIP", d.ownership),
                    Section("RESTORE_SNAPSHOT", d.snapshot),
                    Section("DEVIATIONS", d.deviations)>>,
     sum |-> RecordChecksum(d), end |-> TRUE]

Tags == <<"SESSION", "IDENTITY", "OWNERSHIP", "RESTORE_SNAPSHOT",
          "DEVIATIONS">>
Body(t, i) == t.sections[i].body

CheckSectionChecksum(t) ==
    \A i \in DOMAIN t.sections : t.sections[i].body = t.sections[i].sum

ReadV5(t) ==
    [phase |-> Body(t, 1)[1], parking |-> Body(t, 1)[2],
     identity |-> Body(t, 2), ownership |-> Body(t, 3),
     snapshot |-> Body(t, 4), deviations |-> Body(t, 5)]

CheckRecordChecksum(t) == t.sum = RecordChecksum(ReadV5(t))

ParseTunerRecoveryJournalV5(t) ==
    IF /\ [i \in DOMAIN t.sections |-> t.sections[i].tag] = Tags
       /\ CheckSectionChecksum(t)
       /\ CheckRecordChecksum(t)
       /\ t.end
       /\ ValidateV5Data(ReadV5(t))
    THEN ReadV5(t) ELSE None

\* The three pieces of evidence, in the order they are compared.
ClassifyTunerRecoveryV5LiveValue(v, value) ==
    CASE value = v.original -> "NoWriteAlreadyOriginal"
      [] value # v.original /\ value \in {v.previous, v.requested} ->
             "RestoreOriginal"
      [] OTHER -> "BlockAndRetain"

----------------------------------------------------------------------------
Prepared(id) ==
    [phase |-> "Preparing", parking |-> TRUE, identity |-> id,
     ownership |-> None, snapshot |-> None, deviations |-> <<>>]

Init ==
    /\ text = None /\ written = None /\ pending = FALSE
    /\ live \in [Locations -> Values]
    /\ initial = live

Serialize(d) ==
    /\ ValidateV5Data(d)
    /\ text' = WriteV5(d)
    /\ written' = d

\* CreateTunerRecoveryJournalExclusive with the identity-only record.
CreatePrepared ==
    /\ text = None
    /\ \E id \in Identities : Serialize(Prepared(id))
    /\ UNCHANGED <<live, initial, pending>>

\* Mutant: any trusted record of the same target may be promoted.
AnyRecord(d) == d.phase = "Preparing"

IdentityOnlyPrepared(d) ==
    /\ d.phase = "Preparing" /\ d.parking
    /\ d.ownership = None /\ d.snapshot = None /\ d.deviations = <<>>

\* A snapshot captured now replaces the Prepared record it belongs to.
PromoteTunerRecoveryJournalV5Snapshot ==
    /\ text # None
    /\ LET prepared == ParseTunerRecoveryJournalV5(text)
       IN /\ prepared # None
          /\ IdentityOnlyPrepared(prepared)
          /\ \E id \in Identities :
                /\ id = prepared.identity
                /\ Serialize([prepared EXCEPT !.parking = FALSE,
                       !.deviations = <<>>,
                       !.snapshot = [identity |-> id, values |-> live]])
    /\ UNCHANGED <<live, initial, pending>>

Deviation(d, l, value) ==
    [ordinal |-> Len(d.deviations), location |-> l,
     original |-> d.snapshot.values[l],
     previous |-> WorkingValue(d, l, Len(d.deviations)),
     requested |-> value]

\* The journal learns of a change before the module does.
RecordDeviation ==
    /\ written # None /\ written.snapshot # None /\ ~pending
    /\ \E l \in Locations, value \in Values, phase \in Phases :
          Serialize([written EXCEPT !.phase = phase,
              !.deviations = Append(@, Deviation(written, l, value))])
    /\ pending' = TRUE
    /\ UNCHANGED <<live, initial>>

WriteRegister ==
    /\ pending /\ written # None /\ written.deviations # <<>>
    /\ live' = [live EXCEPT ![Last(written.deviations).location] =
                                Last(written.deviations).requested]
    /\ pending' = FALSE
    /\ UNCHANGED <<text, written, initial>>

\* Records that earlier saves of the file may have held.
EarlierRecords(d) ==
    {[d EXCEPT !.deviations = SubSeq(@, 1, n)] : n \in 0 .. Len(d.deviations)}
    \cup {[d EXCEPT !.phase = p] : p \in Phases}
    \cup {Prepared(id) : id \in Identities}

\* A section is lost, is one of an earlier save, or has its values; or the
\* end of the file is missing.
Damage ==
    /\ written # None
    /\ \/ \E i \in DOMAIN text.sections :
             text' = [text EXCEPT !.sections = RemoveAt(@, i)]
       \/ \E i \in DOMAIN text.sections, e \in EarlierRecords(written) :
             LET s == WriteV5(e).sections[i]
             IN \/ text' = [text EXCEPT !.sections[i] = s]
                \/ text' = [text EXCEPT !.sections[i].body = s.body]
       \/ text' = [text EXCEPT !.end = FALSE]
    /\ text' # text
    /\ written' = None
    /\ UNCHANGED <<live, initial, pending>>

\* The file is damaged or full; nothing more happens to it.
Done ==
    /\ text # None
    /\ written # None =>
          Len(written.deviations) = TunerRecoveryV5MaximumDeviationCount
    /\ UNCHANGED vars

Next ==
    \/ CreatePrepared \/ PromoteTunerRecoveryJournalV5Snapshot
    \/ RecordDeviation \/ WriteRegister \/ Damage \/ Done

Spec == Init /\ [][Next]_vars

----------------------------------------------------------------------------
(***************************************************************************)
(* The record saved last is the record loaded (WriteV5,                    *)
(* ParseTunerRecoveryJournalV5, ValidateV5Data).                           *)
(***************************************************************************)
V5LoadReturnsWhatWasSaved ==
    written # None => ParseTunerRecoveryJournalV5(text) = written

(***************************************************************************)
(* A damaged record is refused, also when every section is one that was    *)
(* saved with a correct checksum of its own, at different times.           *)
(***************************************************************************)
V5DamageIsRefused ==
    text # None /\ written = None => ParseTunerRecoveryJournalV5(text) = None

(***************************************************************************)
(* Whenever the session stops, the journal classifies the value of every   *)
(* changed register as restorable and its original is the value the        *)
(* session found (ClassifyTunerRecoveryV5LiveValue).                       *)
(***************************************************************************)
AlwaysRestorable ==
    written # None /\ written.snapshot # None =>
        \A l \in Locations :
            LET devs == AtLocation(written, l, Len(written.deviations))
            IN IF devs = {} THEN live[l] = initial[l]
               ELSE LET v == written.deviations[Max(devs)]
                        action == ClassifyTunerRecoveryV5LiveValue(v, live[l])
                    IN /\ v.original = initial[l]
                       /\ action # "BlockAndRetain"
                       /\ live[l] # initial[l] => action = "RestoreOriginal"
=============================================================================

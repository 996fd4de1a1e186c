--------------------------- MODULE RecoveryRecord ---------------------------
(***************************************************************************)
(* The text of the recovery journal, versions 1 to 4 (RecoveryJournal.cpp):*)
(* WriteRecord, ParseTunerRecoveryJournal, the checksum and the validation *)
(* of a record.  A record lives in memory, is saved, loaded by a later     *)
(* process, has its restorations armed and cleared, and is saved again.    *)
(* The file may be one a release of version 1 to 3 wrote, and may be       *)
(* damaged.                                                                *)
(*                                                                         *)
(* A text is the sequence of its lines, and a line its tag and the tuple   *)
(* of its values.  The checksum is modelled as the tuple of the values     *)
(* hashed: two records with the same hash are not distinguished.           *)
(***************************************************************************)
EXTENDS Naturals, Sequences, FiniteSets, SequencesExt

CONSTANTS
    Modules,        \* base addresses of isolated modules
    Target,         \* base address of the MDPP
    Values,         \* register values
    Sources,        \* values of the source bits of a configuration
    Damaged,        \* a token nobody wrote
    None

RecordAssumption == Target \notin Modules /\ Damaged \notin Values \cup Sources

VARIABLES
    record,   \* the record in memory, or None
    text,     \* the journal file, or None
    written,  \* the record whose text the file holds, or None if damaged
    refused   \* the last load failed

vars == <<record, text, written, refused>>

TunerRecoveryJournalFormatVersion == 4
Versions == 1 .. TunerRecoveryJournalFormatVersion
Phases == {"Prepared", "Active"}
Quads == {0, 7, 8}

\* A configuration register: the source bits and the others.
Configurations == [bits : Sources, other : Values]
Blank == CHOOSE v \in Values : TRUE
BlankConfiguration == [bits |-> CHOOSE b \in Sources : TRUE, other |-> Blank]

\* The fields the operations set; the others are written and read alike.
NewRecord(v, phase, isolated) ==
    [version |-> v, phase |-> phase, isolated |-> isolated,
     source |-> FALSE, sourceQuad |-> 0, original |-> BlankConfiguration,
     available |-> FALSE, applied |-> BlankConfiguration,
     preview |-> FALSE, previewQuad |-> 0, previewValue |-> Blank]

----------------------------------------------------------------------------
ValidateRecord(r) ==
    /\ r.version \in Versions
    /\ r.phase \in Phases
    /\ r.version = 1 => r.isolated = <<>>
    /\ Len(r.isolated) <= 15
    /\ Target \notin ToSet(r.isolated)
    /\ IsInjective(r.isolated)
    /\ r.preview => r.previewQuad <= 7
    /\ r.source => r.sourceQuad <= 7
    /\ r.version < 4 => ~r.available
    /\ r.version >= 4 /\ r.source => r.available
    /\ r.available => /\ r.applied # r.original
                      /\ r.applied.other = r.original.other
    /\ ~r.source => ~r.available

\* Mutant: the field version 4 added is not hashed.
OldRecordChecksum(r) ==
    <<r.version, r.phase>>
    \o (IF r.version >= 2 THEN <<r.isolated>> ELSE <<>>)
    \o (IF r.version >= 3 THEN <<r.source, r.sourceQuad, r.original>> ELSE <<>>)
    \o <<r.preview, r.previewQuad, r.previewValue>>

RecordChecksum(r) ==
    <<r.version, r.phase>>
    \o (IF r.version >= 2 THEN <<r.isolated>> ELSE <<>>)
    \o (IF r.version >= 3 THEN <<r.source, r.sourceQuad, r.original>> ELSE <<>>)
    \o (IF r.version >= 4 THEN <<r.applied>> ELSE <<>>)
    \o <<r.preview, r.previewQuad, r.previewValue>>

Line(tag, values) == [tag |-> tag, values |-> values]

WriteRecord(r) ==
    <<Line("MAGIC", <<r.version>>)>>
    \o (IF r.version >= 2 THEN <<Line("ISOLATED", r.isolated)>> ELSE <<>>)
    \o (IF r.version >= 3
          THEN <<Line("SOURCE", <<r.source, r.sourceQuad, r.original>>
                    \o IF r.version >= 4 THEN <<r.applied>> ELSE <<>>)>>
          ELSE <<>>)
    \o <<Line("STATE", <<r.phase, r.preview, r.previewQuad, r.previewValue>>),
         Line("CHECKSUM", <<RecordChecksum(r)>>),
         Line("END", <<>>)>>

\* The lines a reader of version v expects, in order.
ExpectedTags(v) ==
    <<"MAGIC">>
    \o (IF v >= 2 THEN <<"ISOLATED">> ELSE <<>>)
    \o (IF v >= 3 THEN <<"SOURCE">> ELSE <<>>)
    \o <<"STATE", "CHECKSUM", "END">>

\* Every token is there, is of its kind, and nothing follows END.
Readable(t) ==
    /\ t # <<>> /\ t[1].tag = "MAGIC" /\ t[1].values[1] \in Versions
    /\ [i \in 1 .. Len(t) |-> t[i].tag] = ExpectedTags(t[1].values[1])
    /\ \A i \in 1 .. Len(t) :
          /\ Damaged \notin ToSet(t[i].values)
          /\ t[i].tag = "SOURCE" =>
                Len(t[i].values) = IF t[1].values[1] >= 4 THEN 4 ELSE 3

ValuesOf(t, tag) == SelectSeq(t, LAMBDA l : l.tag = tag)[1].values

AppliedAvailable(v, source) == v >= 4 /\ source

\* The record a readable text describes.  The availability of the applied
\* configuration is not written: it follows from the version and the source.
ReadRecord(t) ==
    LET v == t[1].values[1]
        state == ValuesOf(t, "STATE")
        base == [NewRecord(v, state[1], <<>>) EXCEPT
                    !.preview = state[2], !.previewQuad = state[3],
                    !.previewValue = state[4]]
        isolated == IF v >= 2 THEN [base EXCEPT !.isolated = ValuesOf(t, "ISOLATED")]
                              ELSE base
        source == ValuesOf(t, "SOURCE")
    IN IF v < 3 THEN isolated
       ELSE [isolated EXCEPT !.source = source[1], !.sourceQuad = source[2],
                             !.original = source[3],
                             !.available = AppliedAvailable(v, source[1]),
                             !.applied = IF v >= 4 THEN source[4] ELSE @]

Accepted(t, r) ==
    /\ ValidateRecord(r)
    /\ ValuesOf(t, "CHECKSUM")[1] = RecordChecksum(r)

ParseTunerRecoveryJournal(t) ==
    IF Readable(t) /\ Accepted(t, ReadRecord(t)) THEN ReadRecord(t) ELSE None

----------------------------------------------------------------------------
Isolations == {<<>>} \cup {<<a>> : a \in Modules} \cup (Modules \X Modules)

\* What a release of version v < 4 could have left behind.
LegacyRecords ==
    {r \in UNION {
        {[NewRecord(v, "Active", iso) EXCEPT
             !.source = v >= 3 /\ source, !.previewValue = val,
             !.original = IF v >= 3 /\ source THEN c ELSE @, !.preview = preview] :
            v \in 1 .. 3, iso \in Isolations, source \in BOOLEAN,
            preview \in BOOLEAN, val \in Values, c \in Configurations}} :
     ValidateRecord(r)}

Init ==
    /\ record = None /\ refused = FALSE
    /\ written \in LegacyRecords \cup {None}
    /\ text = IF written = None THEN None ELSE WriteRecord(written)

\* SerializeTunerRecoveryJournal and the installation of the text; the
\* record in memory changes only with the file.
Save(r) ==
    /\ ValidateRecord(r)
    /\ text' = WriteRecord(r) /\ written' = r /\ record' = r
    /\ UNCHANGED refused

Prepare == \E isolated \in Isolations :
    record = None /\ text = None
    /\ Save(NewRecord(TunerRecoveryJournalFormatVersion, "Prepared", isolated))

Activate ==
    /\ record # None /\ record.phase = "Prepared"
    /\ Save([record EXCEPT !.phase = "Active"])

SourceEntry(r, active, quad, original, applied) ==
    [r EXCEPT !.source = active, !.available = active,
              !.sourceQuad = IF active THEN quad ELSE 0,
              !.original = IF active THEN original ELSE BlankConfiguration,
              !.applied = IF active THEN applied ELSE BlankConfiguration]

\* Only a session of this release arms a source; recovery clears one only
\* when the applied configuration is known.
SaveSourceRecoveryState ==
    /\ record # None
    /\ \/ /\ record.version = TunerRecoveryJournalFormatVersion
          /\ \E quad \in Quads, original, applied \in Configurations :
                Save(SourceEntry(record, TRUE, quad, original, applied))
       \/ /\ record.available
          /\ Save(SourceEntry(record, FALSE, 0, BlankConfiguration,
                              BlankConfiguration))

PreviewEntry(r, active, quad, value) ==
    [r EXCEPT !.preview = active, !.previewQuad = IF active THEN quad ELSE 0,
              !.previewValue = IF active THEN value ELSE Blank]

SavePreviewRecoveryState ==
    /\ record # None /\ (record.source => record.available)
    /\ \/ /\ record.version = TunerRecoveryJournalFormatVersion
          /\ \E quad \in Quads, value \in Values :
                Save(PreviewEntry(record, TRUE, quad, value))
       \/ /\ record.preview
          /\ Save(PreviewEntry(record, FALSE, 0, Blank))

Load ==
    /\ record = None /\ text # None
    /\ record' = ParseTunerRecoveryJournal(text)
    /\ refused' = (record' = None)
    /\ UNCHANGED <<text, written>>

\* The process ends, or dies.
Exit ==
    /\ record # None
    /\ record' = None
    /\ UNCHANGED <<text, written, refused>>

\* Records whose saves a file may have seen before.
EarlierRecords ==
    LegacyRecords
    \cup {NewRecord(4, "Prepared", <<>>)}
    \cup {SourceEntry(NewRecord(4, "Active", <<>>), TRUE, 0, original, applied) :
             original, applied \in Configurations}

\* A line is lost, loses a token, or is one that another save had written.
OtherLines(l) ==
    {[l EXCEPT !.values = [@ EXCEPT ![i] = Damaged]] : i \in DOMAIN l.values}
    \cup UNION {{m \in ToSet(WriteRecord(r)) : m.tag = l.tag /\ m # l} :
                  r \in EarlierRecords}

Damage ==
    /\ written # None /\ record = None
    /\ \E i \in 1 .. Len(text) :
          \/ text' = RemoveAt(text, i)
          \/ \E l \in OtherLines(text[i]) : text' = [text EXCEPT ![i] = l]
    /\ written' = None
    /\ UNCHANGED <<record, refused>>

Next ==
    \/ Prepare \/ Activate \/ SaveSourceRecoveryState
    \/ SavePreviewRecoveryState \/ Load \/ Exit \/ Damage

Spec == Init /\ [][Next]_vars

----------------------------------------------------------------------------
(***************************************************************************)
(* Whatever was saved last, by this release or by an older one, is what    *)
(* the next process loads: no restoration duty is lost or invented on the  *)
(* way through the text (WriteRecord, ParseTunerRecoveryJournal).          *)
(***************************************************************************)
LoadReturnsWhatWasSaved ==
    written # None => ParseTunerRecoveryJournal(text) = written

(***************************************************************************)
(* A damaged journal is refused, also when the damage is a line of another *)
(* save, which is well formed by itself (the checksum and ExpectToken).    *)
(***************************************************************************)
DamageIsRefused ==
    text # None /\ written = None => ParseTunerRecoveryJournal(text) = None
=============================================================================

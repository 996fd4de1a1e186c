--------------------------- MODULE MvmeWorkspace ---------------------------
(***************************************************************************)
(* ParseMvmeWorkspace and FindEnabledMdpp32ScpTarget                       *)
(* (core/MvmeWorkspace.cpp): which module of an MVME workspace is the one  *)
(* the user tunes.  A workspace grows here event by event and module by    *)
(* module; what a field holds is one of a few cases.                       *)
(***************************************************************************)
EXTENDS Naturals, Sequences, FiniteSets

CONSTANTS MaxEvents, MaxModules, \* bounds on events and on all modules
          Versions,              \* values of the schema version field
          None

VARIABLES version, events

Enabled == {"yes", "no", "unreadable"}

\* ParseModuleAddress: not a number, a number outside A32 or with low bits
\* set is no address.
AddressFields == {"target", "elsewhere", "unreadable"}

\* type and ModuleMeta.typeName
TypeFields == {"mdpp32_scp", "another", "missing", "contradictory"}

Modules == [isObject : {TRUE}, enabled : Enabled,
            baseAddress : AddressFields, type : TypeFields]
           \cup {[isObject |-> FALSE, enabled |-> "unreadable",
                  baseAddress |-> "unreadable", type |-> "missing"]}

\* An event without an array of modules has no enabled field that counts.
EventFields == Enabled \cup {"no_modules"}

Places == {p \in (1 .. MaxEvents) \X (1 .. MaxModules) :
              p[1] \in DOMAIN events /\ p[2] \in DOMAIN events[p[1]].modules}
ModuleAt(p) == events[p[1]].modules[p[2]]
Before(p, q) == p[1] < q[1] \/ (p[1] = q[1] /\ p[2] < q[2])

Init == version \in Versions /\ events = <<>>

AddEvent(enabled) ==
    /\ Len(events) < MaxEvents
    /\ events' = Append(events, [enabled |-> enabled, modules |-> <<>>])
    /\ UNCHANGED version

AddModule(module) ==
    LET last == Len(events)
    IN  /\ last > 0
        /\ Cardinality(Places) < MaxModules
        /\ events[last].enabled # "no_modules"
        /\ events' = [events EXCEPT ![last].modules = Append(@, module)]
        /\ UNCHANGED version

Next == \/ \E enabled \in EventFields : AddEvent(enabled)
        \/ \E module \in Modules : AddModule(module)

Spec == Init /\ [][Next]_<<version, events>>

-----------------------------------------------------------------------------
\* ParseMvmeWorkspace: versions 3 and 4, modules in every event.
Parsed ==
    /\ version \in {3, 4}
    /\ \A e \in DOMAIN events : events[e].enabled # "no_modules"

Failed(status) == [status |-> status, target |-> None]

\* The scan: an unreadable field of anything it meets ends it; disabled
\* events and modules are passed over before their other fields are read.
Trouble(p) ==
    LET m == ModuleAt(p)
    IN  CASE ~m.isObject \/ m.enabled = "unreadable" -> "MalformedWorkspace"
          [] m.isObject /\ m.enabled = "yes" /\ m.baseAddress = "unreadable" ->
                "InvalidModuleAddress"
          [] OTHER -> "none"

Scanned(p) == events[p[1]].enabled = "yes"
Troubles ==
    {[place |-> p, status |-> Trouble(p)] :
        p \in {q \in Places : Scanned(q) /\ Trouble(q) # "none"}}
    \cup {[place |-> <<e, 0>>, status |-> "MalformedWorkspace"] :
            e \in {f \in DOMAIN events : events[f].enabled = "unreadable"}}
FirstTrouble ==
    CHOOSE t \in Troubles : \A u \in Troubles : ~Before(u.place, t.place)

MatchingModules ==
    {p \in Places : /\ Scanned(p) /\ ModuleAt(p).isObject
                    /\ ModuleAt(p).enabled = "yes"
                    /\ ModuleAt(p).baseAddress = "target"}

ValidateTargetType(p) ==
    CASE ModuleAt(p).type \in {"missing", "contradictory"} ->
            Failed("AmbiguousModuleType")
      [] ModuleAt(p).type = "another" -> Failed("WrongModuleType")
      [] OTHER -> [status |-> "Found", target |-> p]

FindEnabledMdpp32ScpTarget ==
    IF ~Parsed THEN Failed("NotParsed")
    ELSE IF Troubles # {} THEN Failed(FirstTrouble.status)
    ELSE IF MatchingModules = {} THEN Failed("NotFound")
    ELSE IF Cardinality(MatchingModules) = 1
    THEN ValidateTargetType(CHOOSE p \in MatchingModules : TRUE)
    ELSE IF \E p \in MatchingModules : ValidateTargetType(p).status # "Found"
    THEN Failed("AmbiguousModuleType")
    ELSE Failed("DuplicateTarget")

-----------------------------------------------------------------------------
\* The module that is found is the only one MVME would run at the address:
\* no other module that is, or might be, enabled has it or has an address
\* that cannot be read, and its type is not in doubt.
FoundIsTheOnlyOne ==
    \A p \in Places : FindEnabledMdpp32ScpTarget.target = p =>
        /\ version \in {3, 4}
        /\ ModuleAt(p).type = "mdpp32_scp"
        /\ ModuleAt(p).baseAddress = "target"
        /\ \A q \in Places \ {p} :
             \/ events[q[1]].enabled = "no"
             \/ ModuleAt(q).enabled = "no"
             \/ ModuleAt(q).baseAddress = "elsewhere"

\* A workspace in which MVME runs exactly one well-formed SCP module at the
\* address, and everything that is enabled is readable, is never refused.
TheOnlyOneIsFound ==
    \A p \in Places :
        (/\ version \in {3, 4}
         /\ \A e \in DOMAIN events : events[e].enabled \in {"yes", "no"}
         /\ events[p[1]].enabled = "yes"
         /\ \A q \in Places : ModuleAt(q).isObject /\ ModuleAt(q).enabled # "unreadable"
         /\ ModuleAt(p).enabled = "yes"
         /\ ModuleAt(p).baseAddress = "target" /\ ModuleAt(p).type = "mdpp32_scp"
         /\ \A q \in Places \ {p} : ModuleAt(q).enabled = "no"
                                    \/ ModuleAt(q).baseAddress = "elsewhere")
        => FindEnabledMdpp32ScpTarget.target = p
=============================================================================

---------------------------- MODULE MCFrontEnds ----------------------------
(***************************************************************************)
(* The two front ends of the tuner, each with a tuner of its own: the      *)
(* command line and the guided stages; and the threads that meet at the    *)
(* queue their commands go into.  part names what runs, and the others     *)
(* rest.                                                                   *)
(***************************************************************************)
EXTENDS Naturals, Sequences

CONSTANTS
    Tampering, Streaming, MaxTunes, Requested, Given, MaxWaiting,
    MaxCommands

VARIABLES
    part,
    snap, newer, queue, busy, watchdog, session, disk,
    cli, interrupted,
    joining, ticks, reviewed, confirmed,
    tasks, running, open, own, link, stopping, dog, fe, left, fate

tuner == <<snap, newer, queue, busy, watchdog, session, disk>>
commandLine == <<cli, interrupted>>
stages == <<joining, ticks, reviewed, confirmed>>
threads == <<tasks, running, open, own, link, stopping, dog, fe, left, fate>>
vars == <<part, tuner, commandLine, stages, threads>>

Cli == INSTANCE CliApp
Guided == INSTANCE GuidedWorkflow
Threads == INSTANCE CommandWorker

ASSUME FrontEndInstances ==
    Cli!CliAssumption /\ Guided!MaxWaitingAssumption /\ Threads!BoundAssumption

Init ==
    /\ Threads!Init
    /\ \/ /\ part = "cli" /\ Cli!Init
          /\ joining = 0 /\ ticks = 0 /\ reviewed = 0 /\ confirmed = 0
       \/ /\ part \in {"guided", "threads"} /\ Guided!Init
          /\ cli = 0 /\ interrupted = 0
    /\ part # "threads" => own = "Other"

CliSteps == part = "cli" /\ Cli!Next /\ UNCHANGED <<part, stages, threads>>
GuidedSteps ==
    part = "guided" /\ Guided!Next /\ UNCHANGED <<part, commandLine, threads>>
ThreadSteps ==
    part = "threads" /\ Threads!Next
        /\ UNCHANGED <<part, tuner, commandLine, stages>>
Next == CliSteps \/ GuidedSteps \/ ThreadSteps

Spec == Init /\ [][Next]_vars

----------------------------------------------------------------------------
\* Unless one of its waits timed out, the command line returns only when the
\* tuner has dealt with everything it submitted and holds no session; an
\* acquisition reported as a success was stopped with verified cleanup; and
\* an acquisition starts only where its journal has a path: whatever the
\* interrupts, the polls in between and the stage that failed (CliApp.cpp).
CliLeavesTunerClean ==
    part = "cli" =>
        Cli!QuietExit /\ Cli!CleanBeforeRelease /\ Cli!StartHasJournalPath

\* What a stage enables is carried out and not refused, and the action the
\* rail names is one the stage enables (DrawStagePanel, MakeDecision,
\* OwnershipService::Submit).
StagesOfferWhatWorks ==
    part = "guided" => Guided!EnabledIsAccepted /\ Guided!NamedActionIsOffered

\* No operation of an acquisition begins while a recovery journal is known,
\* also when the button was pressed before the journal was found, and nothing
\* is written over the journal of a run that is not FIDGET's any more
\* (the guards of OwnershipService's operations).
NoWriteOverJournal == part = "guided" => Guided!NoWriteOverJournal

\* No thread object is overwritten or destroyed while joinable, and no command
\* or poll uses a closed transport, unless the front end submitted a command it
\* had drawn while an Open was pending, or destroyed the service before an Open
\* was finished; and no poll outlives the watchdog that asked for it: through
\* any sequence of commands, detaches and failures, none of them waited for
\* (StartWatchdog, StopWatchdog, ~OwnershipService).
ThreadsAreJoined == Threads!OnlyLateCallsKill /\ Threads!OnePollPerWatchdog
=============================================================================

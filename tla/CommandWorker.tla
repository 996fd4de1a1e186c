--------------------------- MODULE CommandWorker ---------------------------
(***************************************************************************)
(* CommandWorker.cpp and the threads of OwnershipService that meet at its  *)
(* queue: the front end, which submits commands and finally destroys the   *)
(* service, the worker, which runs one task at a time, and the watchdog    *)
(* thread, which posts a poll and waits for its result.                    *)
(*                                                                         *)
(* What a task does is reduced to what the threads share: the published    *)
(* ownership, transport_, watchdogStopRequested_ and the thread object     *)
(* watchdog_.  OpenSession publishes the open session first and starts the *)
(* watchdog afterwards, so it is two steps.                                *)
(***************************************************************************)
EXTENDS Naturals, Sequences

CONSTANT MaxCommands   \* bound on the commands of one run

BoundAssumption == MaxCommands \in Nat

VARIABLES
    tasks,     \* tasks_
    running,   \* the step of a task the worker is at, "none", or "exited"
    open,      \* acceptingTasks_; stopRequested_ is its negation
    own,       \* ownership of the published snapshot: "Recovery" whenever a
               \* recovery record keeps normal commands from running, "Lost"
               \* after a detach, "Other" for the remaining closed states
    link,      \* transport_ is not null
    stopping,  \* watchdogStopRequested_
    dog,       \* watchdog_: "none" when it is not joinable, otherwise where
               \* its thread is
    fe,        \* the front end: pc, the command it is submitting, the ownership
               \* it last saw, whether an Open was pending when it looked, and
               \* (a history) whether it then submitted a command, or the
               \* destructor joined the watchdog before an Open was finished
    left,      \* commands the front end may still submit
    fate       \* "ok" until std::terminate or a null dereference

vars == <<tasks, running, open, own, link, stopping, dog, fe, left, fate>>

Commands == {"Check", "Open", "Release", "Recover", "Gated"}

Init ==
    /\ tasks = <<>> /\ running = "none" /\ open = TRUE
    /\ own \in {"Other", "Recovery"} /\ link = FALSE
    /\ stopping = TRUE /\ dog = "none"
    /\ fe = [pc |-> "ready", cmd |-> "Check", seen |-> "Other",
             early |-> FALSE, late |-> FALSE]
    /\ left = MaxCommands
    /\ fate = "ok"

At(pc) == fate = "ok" /\ fe.pc = pc
Go(pc) == fe' = [fe EXCEPT !.pc = pc]

Queued(task) == \E i \in DOMAIN tasks : tasks[i] = task
OpenPending == Queued("Open") \/ running \in {"Open", "Opening"}

----------------------------------------------------------------------------
(***************************************************************************)
(* The front end.  It looks at the snapshot (a frame of the window, a poll *)
(* of the command line) and submits a command that this snapshot offers,   *)
(* while the worker goes on; it waits for nothing that it submitted.       *)
(* Submit stops and joins the watchdog before it posts a command that will *)
(* close or replace the session; for Check and Open it decides so from the *)
(* snapshot it reads itself.  Gated stands for the commands that are only  *)
(* posted.                                                                 *)
(***************************************************************************)
Draw ==
    /\ At("ready") \/ At("drawn")
    /\ left > 0
    /\ fe' = [fe EXCEPT !.pc = "drawn", !.seen = own, !.early = OpenPending]
    /\ UNCHANGED <<tasks, running, open, own, link, stopping, dog, left, fate>>

Offered(seen) ==
    CASE seen = "SessionOpen" -> {"Release", "Gated", "Recover"}
      [] seen = "Idle"        -> {"Check", "Open"}
      [] seen = "Lost"        -> {"Check", "Release"}
      [] seen = "Recovery"    -> {"Check", "Release", "Recover"}
      [] seen = "Other"       -> {"Check"}
      [] seen = "Checking"    -> {}

StopsWatchdog(c) ==
    CASE c \in {"Release", "Recover"} -> TRUE
      [] c = "Check"                  -> own # "SessionOpen"
      [] c = "Open"                   -> own = "Idle"
      [] c = "Gated"                  -> FALSE

Submit ==
    /\ At("drawn")
    /\ left' = left - 1
    /\ \E c \in Offered(fe.seen) :
          fe' = [fe EXCEPT !.pc = IF StopsWatchdog(c) THEN "request" ELSE "post",
                           !.cmd = c,
                           !.late = @ \/ fe.early]
    /\ UNCHANGED <<tasks, running, open, own, link, stopping, dog, fate>>

\* RequestWatchdogStop, the first half of StopWatchdog.
RequestStop(from, to) ==
    /\ At(from)
    /\ stopping' = TRUE
    /\ Go(to)
    /\ UNCHANGED <<tasks, running, open, own, link, dog, left, fate>>

\* joinable() and join(), the second half.
Join(from, to) ==
    /\ At(from)
    /\ dog \in {"none", "finished"}
    /\ dog' = "none"
    /\ fe' = [fe EXCEPT !.pc = to,
                        !.late = @ \/ /\ from = "dtor_join"
                                      /\ OpenPending \/ running = "Start"]
    /\ UNCHANGED <<tasks, running, open, own, link, stopping, left, fate>>

PostCommand ==
    /\ At("post")
    /\ tasks' = Append(tasks, fe.cmd)
    /\ Go("ready")
    /\ UNCHANGED <<running, open, own, link, stopping, dog, left, fate>>

----------------------------------------------------------------------------
\* ~OwnershipService: the watchdog, a last task, the worker, the members.
Quit ==
    /\ At("ready") \/ At("drawn")
    /\ Go("dtor_request")
    /\ UNCHANGED <<tasks, running, open, own, link, stopping, dog, left, fate>>

PostClose ==
    /\ At("dtor_close")
    /\ tasks' = Append(tasks, "Close")
    /\ Go("dtor_wait")
    /\ UNCHANGED <<running, open, own, link, stopping, dog, left, fate>>

AwaitClose ==
    /\ At("dtor_wait")
    /\ running # "Close" /\ ~Queued("Close")
    /\ Go("dtor_stop")
    /\ UNCHANGED <<tasks, running, open, own, link, stopping, dog, left, fate>>

StopAndJoin ==
    /\ At("dtor_stop")
    /\ open' = FALSE
    /\ Go("dtor_worker")
    /\ UNCHANGED <<tasks, running, own, link, stopping, dog, left, fate>>

JoinWorker ==
    /\ At("dtor_worker")
    /\ running = "exited"
    /\ Go("dtor_members")
    /\ UNCHANGED <<tasks, running, open, own, link, stopping, dog, left, fate>>

\* Destroying a joinable std::thread ends the process.
DestroyMembers ==
    /\ At("dtor_members")
    /\ IF dog = "none" THEN Go("gone") /\ UNCHANGED fate
                       ELSE fate' = "terminate" /\ UNCHANGED fe
    /\ UNCHANGED <<tasks, running, open, own, link, stopping, dog, left>>

FrontEnd ==
    \/ Draw \/ Submit \/ RequestStop("request", "join") \/ Join("join", "post")
    \/ PostCommand \/ Quit \/ RequestStop("dtor_request", "dtor_join")
    \/ Join("dtor_join", "dtor_close") \/ PostClose \/ AwaitClose
    \/ StopAndJoin \/ JoinWorker \/ DestroyMembers

----------------------------------------------------------------------------
(***************************************************************************)
(* The worker.  It leaves its loop only when the queue is empty.           *)
(***************************************************************************)
Run ==
    /\ fate = "ok" /\ running = "none"
    /\ \/ /\ tasks # <<>>
          /\ running' = Head(tasks) /\ tasks' = Tail(tasks)
       \/ /\ tasks = <<>> /\ ~open
          /\ running' = "exited" /\ UNCHANGED tasks
    /\ UNCHANGED <<open, own, link, stopping, dog, fe, left, fate>>

Executing(task) == fate = "ok" /\ running = task
Return == running' = "none"
Unchanged == UNCHANGED <<tasks, open, fe, left>>

\* A session that is open is kept, unless a recovery record is pending.
Refused == Return /\ own' \in IF own = "SessionOpen" THEN {own, "Recovery"} ELSE {own}

CheckStatus ==
    /\ Executing("Check")
    /\ IF own \in {"SessionOpen", "Recovery"}
         THEN Refused
         ELSE running' = "Checking" /\ own' = "Checking"
    /\ UNCHANGED <<link, stopping, dog, fate>> /\ Unchanged

\* ProbeController of a check, which keeps no session.
FinishCheck ==
    /\ Executing("Checking") /\ Return
    /\ own' \in {"Idle", "Other"} /\ link' = FALSE
    /\ UNCHANGED <<stopping, dog, fate>> /\ Unchanged

OpenSession ==
    /\ Executing("Open")
    /\ IF own # "Idle" THEN Refused
                       ELSE running' = "Opening" /\ own' = "Checking"
    /\ UNCHANGED <<link, stopping, dog, fate>> /\ Unchanged

\* ProbeController of an Open publishes the session and keeps its transport.
FinishOpen ==
    /\ Executing("Opening")
    /\ \/ Return /\ own' = "Other" /\ link' = FALSE
       \/ running' = "Start" /\ own' = "SessionOpen" /\ link' = TRUE
    /\ UNCHANGED <<stopping, dog, fate>> /\ Unchanged

\* Assigning to a joinable std::thread ends the process; starting a thread
\* may fail.
StartWatchdog ==
    /\ Executing("Start") /\ Return
    /\ stopping' = FALSE
    /\ \/ /\ IF dog = "none" THEN dog' = "waiting" /\ UNCHANGED fate
                              ELSE fate' = "terminate" /\ UNCHANGED dog
          /\ UNCHANGED <<own, link>>
       \/ own' = "Other" /\ link' = FALSE /\ UNCHANGED <<dog, fate>>
    /\ Unchanged

\* The session stays when its acquisition cannot be stopped; stopping it may
\* request the stop of the watchdog.  A retained record is shown as before.
ReleaseSession ==
    /\ Executing("Release") /\ Return
    /\ \/ own \in {"SessionOpen", "Recovery"} /\ UNCHANGED <<own, link, stopping>>
       \/ /\ own \in {"SessionOpen", "Recovery"}
          /\ own' \in {"Other", "Recovery"} /\ link' = FALSE
          /\ stopping' \in {stopping, TRUE}
       \/ /\ own \notin {"SessionOpen", "Recovery"}
          /\ own' = "Other" /\ link' = FALSE /\ UNCHANGED stopping
    /\ UNCHANGED <<dog, fate>> /\ Unchanged

\* RecoverDiagnosticOrphan, confirmed or not, works with a transport of its
\* own, and only if there is a record.
RecoverDiagnosticOrphan ==
    /\ Executing("Recover") /\ Return
    /\ \/ own # "Recovery" /\ UNCHANGED <<own, link>>
       \/ /\ own \in {"SessionOpen", "Recovery"}
          /\ own' \in {"Other", "Recovery"} /\ link' = FALSE
    /\ UNCHANGED <<stopping, dog, fate>> /\ Unchanged

\* The session is lost: a detach closes the transport, an acquisition that
\* needs recovery keeps it; both request the stop of the watchdog.
Lose ==
    /\ \/ own' \in {"Lost", "Recovery"} /\ link' = FALSE
       \/ own' = "Recovery" /\ UNCHANGED link
    /\ stopping' = TRUE
Keep == UNCHANGED <<own, link, stopping>>

\* A read through transport_ that is null.
Dereference(Rest) ==
    IF link THEN Rest /\ UNCHANGED fate
            ELSE fate' = "null" /\ Keep

\* A command that passes the pre-write gate, or loses the session.
GatedCommand ==
    /\ Executing("Gated") /\ Return
    /\ IF own = "SessionOpen" THEN Dereference(Lose \/ Keep)
                              ELSE Keep /\ UNCHANGED fate
    /\ UNCHANGED dog /\ Unchanged

\* Mutant: a poll does not look whether it has been stopped or the session
\* has ended since it was posted.
PollStopsNever == FALSE

PollStops == stopping \/ own # "SessionOpen"

PollWatchdog ==
    /\ Executing("Poll") /\ Return
    /\ IF PollStops THEN stopping' = TRUE /\ UNCHANGED <<own, link, fate>>
                    ELSE Dereference(Lose \/ Keep)
    /\ UNCHANGED dog /\ Unchanged

Close ==
    /\ Executing("Close") /\ Return
    /\ link' = FALSE
    /\ \/ /\ own = "SessionOpen"
          /\ own' \in {"Lost", "Recovery"} /\ stopping' = TRUE
       \/ UNCHANGED <<own, stopping>>
    /\ UNCHANGED <<dog, fate>> /\ Unchanged

Worker ==
    \/ Run \/ CheckStatus \/ FinishCheck \/ OpenSession \/ FinishOpen
    \/ StartWatchdog \/ ReleaseSession \/ RecoverDiagnosticOrphan
    \/ GatedCommand \/ PollWatchdog \/ Close

----------------------------------------------------------------------------
\* WatchdogLoop: wait for the interval or the stop request, post, wait for
\* the poll.
WatchdogWakes ==
    /\ fate = "ok" /\ dog = "waiting" /\ stopping
    /\ dog' = "finished"
    /\ UNCHANGED <<tasks, running, open, own, link, stopping, fe, left, fate>>

\* Post is rejected once the worker no longer accepts tasks.
WatchdogPosts ==
    /\ fate = "ok" /\ dog = "waiting" /\ ~stopping
    /\ IF open
         THEN tasks' = Append(tasks, "Poll") /\ dog' = "polling"
              /\ UNCHANGED stopping
         ELSE stopping' = TRUE /\ UNCHANGED <<tasks, dog>>
    /\ UNCHANGED <<running, open, own, link, fe, left, fate>>

WatchdogResumes ==
    /\ fate = "ok" /\ dog = "polling"
    /\ running # "Poll" /\ ~Queued("Poll")
    /\ dog' = "waiting"
    /\ UNCHANGED <<tasks, running, open, own, link, stopping, fe, left, fate>>

Watchdog == WatchdogWakes \/ WatchdogPosts \/ WatchdogResumes

\* The process has ended.
Ended == (fe.pc = "gone" \/ fate # "ok") /\ UNCHANGED vars

Next == FrontEnd \/ Worker \/ Watchdog \/ Ended

(***************************************************************************)
(* Every thread keeps running.  The front end is free to do nothing        *)
(* between two commands, but finishes a call it has begun.                 *)
(***************************************************************************)
Between == fe.pc \in {"ready", "drawn"}
Spec == Init /\ [][Next]_vars
LiveSpec ==
    /\ Spec
    /\ WF_vars(FrontEnd /\ ~Between)
    /\ WF_vars(Worker)
    /\ WF_vars(Watchdog)

----------------------------------------------------------------------------
(***************************************************************************)
(* No thread object is overwritten or destroyed while joinable, and no     *)
(* poll or command reads through a transport that has been closed, through *)
(* any sequence of commands, detaches and failures, although the front end *)
(* waits for none of them: unless it submitted a command from a snapshot   *)
(* taken while an Open was pending, or the destructor joined the watchdog  *)
(* before an Open was finished (StartWatchdog, StopWatchdog,               *)
(* ~OwnershipService).  Both really end the process.                       *)
(***************************************************************************)
NothingDies == fate = "ok"
OnlyLateCallsKill == NothingDies \/ fe.late

(***************************************************************************)
(* At most one poll is ever queued or running, and only while its watchdog *)
(* waits for it: no poll outlives the thread that asked for it.            *)
(***************************************************************************)
PollWaits(i) == i \in DOMAIN tasks /\ tasks[i] = "Poll"
OnePollPerWatchdog ==
    /\ \A i, j \in DOMAIN tasks : PollWaits(i) /\ PollWaits(j) => i = j
    /\ running = "Poll" => ~Queued("Poll")
    /\ running = "Poll" \/ Queued("Poll") => dog = "polling"

\* A call of Submit, or the destructor, has not returned yet.
Calling == fate = "ok" /\ ~Between /\ fe.pc # "gone"

\* The call joins a watchdog whose stop request StartWatchdog has cleared.
StopLost ==
    fate = "ok" /\ fe.pc \in {"join", "dtor_join"} /\ dog # "none" /\ ~stopping

(***************************************************************************)
(* "Press Enter ... release is reported": the Submit of a release returns  *)
(* (OwnershipService::Submit, StopWatchdog).                               *)
(***************************************************************************)
Releasing == fate = "ok" /\ fe.cmd = "Release" /\ fe.pc \in {"request", "join"}
ReleaseCompletes == Releasing ~> ~Releasing
=============================================================================

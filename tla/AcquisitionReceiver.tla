------------------------ MODULE AcquisitionReceiver ------------------------
(***************************************************************************)
(* AcquisitionReceiver (hardware/AcquisitionReceiver.cpp) between the data *)
(* socket and the snapshot the front end sees.  Its thread receives,       *)
(* decodes and publishes by posting tasks to the command worker's queue;   *)
(* the worker starts and stops it, and after a change of the waveform      *)
(* source or a parameter preview clears the histories of the channel's     *)
(* quad.  A waveform is known by the acquisition it was recorded in, the   *)
(* sample source and the parameter value in force at that moment.          *)
(***************************************************************************)
EXTENDS Naturals, Sequences, SequencesExt, FiniteSets

CONSTANTS
    MaxRuns,       \* acquisitions
    MaxHits,       \* waveforms the module records
    MaxChanges,    \* changes of source or parameter
    MaxPublishes,  \* posts of the receiver thread
    MaxTasks       \* length of the worker's queue that the front end may see

VARIABLES
    module,      \* [on, source, value, hits, changes]: the module
    socket,      \* waveforms that arrived and were not received
    history,     \* the decoder's history of the tuned channel
    thread,      \* [at, stop, fails, copy, posts]: the receiver thread
    stored,      \* snapshot_ of the receiver
    tasks,       \* the worker's queue
    worker,      \* [at, task]: what the worker is doing
    state,       \* acquisition of the service's snapshot
    run,         \* number of the acquisition
    shown        \* diagnosticStream of the service's snapshot

vars == <<module, socket, history, thread, stored, tasks, worker, state, run,
          shown>>

Empty == [waves |-> <<>>, run |-> 0, error |-> FALSE]

Init ==
    /\ module = [on |-> FALSE, source |-> 0, value |-> 0, hits |-> 0,
                 changes |-> 0]
    /\ socket = <<>> /\ history = <<>>
    /\ thread = [at |-> "off", stop |-> FALSE, fails |-> FALSE,
                 copy |-> <<>>, posts |-> 0]
    /\ stored = Empty
    /\ tasks = <<>>
    /\ worker = [at |-> "idle", task |-> "none"]
    /\ state = "NotRun" /\ run = 0
    /\ shown = Empty

-----------------------------------------------------------------------------
\* The module records a waveform; it waits in the socket.
Hit ==
    /\ module.on /\ module.hits < MaxHits
    /\ module' = [module EXCEPT !.hits = @ + 1]
    /\ socket' = Append(socket, [run |-> run, source |-> module.source,
                                 value |-> module.value])
    /\ UNCHANGED <<history, thread, stored, tasks, worker, state, run, shown>>

\* What the decoder does with a waveform (AddWaveform of StreamDecoder; the
\* capacity is left out).
Keep(h, w) ==
    IF h # <<>> /\ Last(h).source # w.source THEN <<w>> ELSE Append(h, w)

\* Run: receive one datagram and decode it.
Receive ==
    /\ thread.at = "receive" /\ ~thread.stop /\ socket # <<>>
    /\ history' = Keep(history, Head(socket))
    /\ socket' = Tail(socket)
    /\ UNCHANGED <<module, thread, stored, tasks, worker, state, run, shown>>

\* Run: a socket error ends the thread after a last Publish.
ReceiveFails ==
    /\ thread.at = "receive" /\ ~thread.stop
    /\ thread' = [thread EXCEPT !.at = "last", !.fails = TRUE]
    /\ UNCHANGED <<module, socket, history, stored, tasks, worker, state, run,
                   shown>>

\* Run: StopAndJoin was called.
SeesStop ==
    /\ thread.at = "receive" /\ thread.stop
    /\ thread' = [thread EXCEPT !.at = "last"]
    /\ UNCHANGED <<module, socket, history, stored, tasks, worker, state, run,
                   shown>>

\* Publish copies the histories under the decoder's lock ...
CopyHistories ==
    /\ \/ thread.at = "receive" /\ ~thread.stop /\ thread.posts < MaxPublishes
          /\ thread' = [thread EXCEPT !.at = "post", !.copy = history]
       \/ thread.at = "last"
          /\ thread' = [thread EXCEPT !.at = "lastPost", !.copy = history]
    /\ UNCHANGED <<module, socket, history, stored, tasks, worker, state, run,
                   shown>>

\* ... and stores and posts them later.
Post ==
    LET stream == [waves |-> thread.copy, run |-> run, error |-> thread.fails]
    IN  /\ thread.at \in {"post", "lastPost"}
        /\ stored' = stream
        /\ tasks' = Append(tasks, [kind |-> "stream", stream |-> stream])
        /\ thread' = [thread EXCEPT !.copy = <<>>, !.posts = @ + 1,
                        !.at = IF @ = "post" THEN "receive" ELSE "off"]
        /\ UNCHANGED <<module, socket, history, worker, state, run, shown>>

-----------------------------------------------------------------------------
\* The front end submits by what the snapshot shows.
Submit(kind) ==
    /\ Len(tasks) < MaxTasks
    /\ \/ kind = "start" /\ state \in {"NotRun", "Stopped"} /\ run < MaxRuns
       \/ kind \in {"stop", "source", "preview"} /\ state = "Running"
    /\ tasks' = Append(tasks, [kind |-> kind, stream |-> Empty])
    /\ UNCHANGED <<module, socket, history, thread, stored, worker, state, run,
                   shown>>

\* The worker takes a task; one that does not fit the state is refused.
Begin(kind, at) ==
    /\ worker.at = "idle" /\ tasks # <<>> /\ Head(tasks).kind = kind
    /\ tasks' = Tail(tasks)
    /\ worker' = [at |-> at, task |-> kind]

\* StartDiagnosticAcquisition: readout on, then the receiver thread with an
\* empty decoder, then the snapshot.
Start ==
    /\ Begin("start", IF state = "Running" THEN "idle" ELSE "launch")
    /\ IF state = "Running" THEN UNCHANGED <<module, socket, run>>
       ELSE /\ module' = [module EXCEPT !.on = TRUE]
            /\ run' = run + 1
            /\ socket' = <<>>
    /\ UNCHANGED <<history, thread, stored, state, shown>>

Launch ==
    /\ worker.at = "launch"
    /\ history' = <<>>
    /\ thread' = [at |-> "receive", stop |-> FALSE, fails |-> FALSE,
                  copy |-> <<>>, posts |-> 0]
    /\ stored' = Empty
    /\ state' = "Running"
    /\ shown' = Empty
    /\ worker' = [worker EXCEPT !.at = "idle"]
    /\ UNCHANGED <<module, socket, tasks, run>>

\* A change of source or parameter: pause, write, resume, clear, show.
Change ==
    /\ \E kind \in {"source", "preview"} :
          Begin(kind, IF state = "Running" /\ module.changes < MaxChanges
                      THEN "write" ELSE "idle")
    /\ module' = [module EXCEPT !.on = @ /\ worker'.at = "idle"]
    /\ UNCHANGED <<socket, history, thread, stored, state, run, shown>>

Write ==
    /\ worker.at = "write"
    /\ module' = IF worker.task = "source"
                 THEN [module EXCEPT !.source = @ + 1, !.changes = @ + 1,
                                     !.on = TRUE]
                 ELSE [module EXCEPT !.value = @ + 1, !.changes = @ + 1,
                                     !.on = TRUE]
    /\ worker' = [worker EXCEPT !.at = "clear"]
    /\ UNCHANGED <<socket, history, thread, stored, tasks, state, run, shown>>

\* ClearWaveformHistoriesForQuad, from the worker's thread.
Clear ==
    /\ worker.at = "clear"
    /\ history' = <<>>
    /\ worker' = [worker EXCEPT !.at = "show"]
    /\ UNCHANGED <<module, socket, thread, stored, tasks, state, run, shown>>

\* CurrentSnapshot of the receiver becomes part of the service's snapshot.
Show ==
    /\ worker.at = "show"
    /\ shown' = stored
    /\ worker' = [worker EXCEPT !.at = "idle"]
    /\ UNCHANGED <<module, socket, history, thread, stored, tasks, state, run>>

\* PublishDiagnosticStream: only a running acquisition shows a stream, and a
\* receiver error stops it.
PublishDiagnosticStream ==
    LET stream == Head(tasks).stream
        fits == state = "Running"
    IN  /\ Begin("stream", IF fits /\ stream.error THEN "join" ELSE "idle")
        /\ shown' = IF fits THEN stream ELSE shown
        /\ UNCHANGED <<module, socket, history, thread, stored, state, run>>

Stop ==
    /\ Begin("stop", IF state = "Running" THEN "join" ELSE "idle")
    /\ UNCHANGED <<module, socket, history, thread, stored, state, run, shown>>

\* StopAndJoin: the flag, then the wait for the thread.
RequestStop ==
    /\ worker.at = "join"
    /\ thread' = [thread EXCEPT !.stop = TRUE]
    /\ state' = "Stopping"
    /\ worker' = [worker EXCEPT !.at = "joining"]
    /\ UNCHANGED <<module, socket, history, stored, tasks, run, shown>>

\* Mutant: the stop does not wait for the thread.
JoinedNever == TRUE

Joined == thread.at = "off"

StopDiagnosticAcquisition ==
    /\ worker.at = "joining" /\ Joined
    /\ module' = [module EXCEPT !.on = FALSE]
    /\ state' = "Stopped"
    /\ worker' = [worker EXCEPT !.at = "idle"]
    /\ UNCHANGED <<socket, history, thread, stored, tasks, run, shown>>

-----------------------------------------------------------------------------
ThreadNext == Receive \/ ReceiveFails \/ SeesStop \/ CopyHistories \/ Post
ThreadEnds == SeesStop \/ (thread.at \notin {"receive"} /\ CopyHistories) \/ Post

WorkerNext ==
    \/ Start \/ Launch \/ Change \/ Write \/ Clear \/ Show
    \/ PublishDiagnosticStream \/ Stop \/ RequestStop
    \/ StopDiagnosticAcquisition

FrontEnd == \E kind \in {"start", "stop", "source", "preview"} : Submit(kind)

Next == Hit \/ ThreadNext \/ WorkerNext \/ FrontEnd

\* Both threads are scheduled; a thread that waits in Receive may wait.
Spec == Init /\ [][Next]_vars /\ WF_vars(ThreadEnds) /\ WF_vars(WorkerNext)

-----------------------------------------------------------------------------
Uniform(waves, Field(_)) ==
    \A i, j \in 1..Len(waves) : Field(waves[i]) = Field(waves[j])

\* Waveforms of two sample sources are never shown together, although old
\* ones may still be received after the histories were cleared.
SourcesDoNotMix == Uniform(shown.waves, LAMBDA w : w.source)

\* A running acquisition shows only its own waveforms: what the receiver of
\* an earlier acquisition posted late is not taken for a result of this one,
\* and its error does not stop this one.
ShownIsCurrent ==
    (state = "Running" /\ shown.run # 0) => shown.run = run

\* A receiver thread has died and its acquisition is not stopped yet.
Failing == state = "Running" /\ thread.fails

\* docs/acceptance-checklist.md: "old and preview waveforms do not mix".
PreviewsDoNotMix == Uniform(shown.waves, LAMBDA w : w.value)
=============================================================================

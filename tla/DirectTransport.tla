-------------------------- MODULE DirectTransport --------------------------
(***************************************************************************)
(* MvlcCommandTransport and MvlcDataReceiver: a UDP socket connected to    *)
(* the controller.  Open closes an earlier socket and tries the addresses  *)
(* the name resolves to until one connects; every system call may fail.    *)
(* The controller answers to the port a request came from, possibly after  *)
(* the socket behind it was closed.  Close and a new Open can give the new *)
(* socket the descriptor number of the old one, never its datagrams.       *)
(***************************************************************************)
EXTENDS Naturals, Sequences, FiniteSets

CONSTANTS
    MaxAddresses, \* addresses the name may resolve to
    MaxOpens, MaxSends

DirectAssumption ==
    MaxAddresses \in Nat /\ MaxOpens \in Nat /\ MaxSends \in Nat

VARIABLES
    isData,      \* the data receiver binds and sets timeouts in Open
    sockets,     \* sockets open in the kernel, by the number of their creation
    held,        \* socketDescriptor_: a socket, or 0
    op,          \* [at, left, candidate]: the Open in progress
    created,     \* sockets created so far
    inbox,       \* datagrams waiting in each socket
    requests,    \* requests the controller has not answered
    sends,       \* requests sent
    received     \* [by, of]: the Open it was received after, and the
                 \* Open the request it answers was sent after

vars == <<isData, sockets, held, op, created, inbox, requests, sends, received>>

Sockets == 1..(MaxOpens * MaxAddresses)
Idle == [at |-> "idle", left |-> 0, candidate |-> 0, opens |-> 0]

Init ==
    /\ isData \in BOOLEAN
    /\ sockets = {} /\ held = 0 /\ op = Idle /\ created = 0
    /\ inbox = [s \in Sockets |-> <<>>]
    /\ requests = {} /\ sends = 0
    /\ received = [by |-> 0, of |-> 0]

\* Closing a socket discards what waits in it.
Drop(set) ==
    /\ sockets' = sockets \ set
    /\ inbox' = [s \in Sockets |-> IF s \in set THEN <<>> ELSE inbox[s]]

\* Close of the transport; also the first thing Open does.
Close ==
    /\ op.at = "idle" /\ held # 0
    /\ Drop({held}) /\ held' = 0
    /\ UNCHANGED <<isData, op, created, requests, sends, received>>

\* Open: close, then look the address up; the lookup may fail.
Open ==
    /\ op.at = "idle" /\ op.opens < MaxOpens
    /\ Drop({held} \ {0}) /\ held' = 0
    /\ \/ op' = [op EXCEPT !.opens = @ + 1]
       \/ \E n \in 1..MaxAddresses :
             op' = [op EXCEPT !.at = "socket", !.left = n, !.opens = @ + 1]
    /\ UNCHANGED <<isData, created, requests, sends, received>>

\* The next address, or the end of the list.
NextAddress ==
    [op EXCEPT !.left = @ - 1, !.candidate = 0,
               !.at = IF op.left = 1 THEN "idle" ELSE "socket"]

Socket ==
    /\ op.at = "socket"
    /\ \/ /\ created' = created + 1
          /\ sockets' = sockets \cup {created + 1}
          /\ op' = [op EXCEPT !.at = IF isData THEN "bind" ELSE "connect",
                              !.candidate = created + 1]
       \/ op' = NextAddress /\ UNCHANGED <<created, sockets>>
    /\ UNCHANGED <<isData, held, inbox, requests, sends, received>>

\* bind, connect: a failing candidate is closed before the next is tried.
CloseCandidate == Drop({op.candidate})

Bind ==
    /\ op.at = "bind"
    /\ \/ op' = [op EXCEPT !.at = "connect"] /\ UNCHANGED <<sockets, inbox>>
       \/ op' = NextAddress /\ CloseCandidate
    /\ UNCHANGED <<isData, held, created, requests, sends, received>>

Connect ==
    /\ op.at = "connect"
    /\ \/ /\ held' = op.candidate
          /\ op' = [op EXCEPT !.at = IF isData THEN "timeouts" ELSE "idle",
                              !.left = 0, !.candidate = 0]
          /\ UNCHANGED <<sockets, inbox>>
       \/ op' = NextAddress /\ CloseCandidate /\ UNCHANGED held
    /\ UNCHANGED <<isData, created, requests, sends, received>>

\* SetDataSocketTimeout: if it fails, the socket is closed again.
SetTimeouts ==
    /\ op.at = "timeouts"
    /\ op' = [op EXCEPT !.at = "idle"]
    /\ \/ UNCHANGED <<sockets, inbox, held>>
       \/ Drop({held}) /\ held' = 0
    /\ UNCHANGED <<isData, created, requests, sends, received>>

Send ==
    /\ op.at = "idle" /\ held # 0 /\ sends < MaxSends
    /\ sends' = sends + 1
    /\ requests' = requests \cup {[n |-> sends + 1, from |-> held, open |-> op.opens]}
    /\ UNCHANGED <<isData, sockets, held, op, created, inbox, received>>

\* The controller answers; the kernel drops what no socket waits for.
Answer ==
    \E r \in requests :
        /\ requests' = requests \ {r}
        /\ inbox' = [inbox EXCEPT ![r.from] =
                        IF r.from \in sockets THEN Append(@, r.open) ELSE @]
        /\ UNCHANGED <<isData, sockets, held, op, created, sends, received>>

\* Receive: a datagram of the socket, or a timeout or error without effect.
Receive ==
    /\ op.at = "idle" /\ held # 0 /\ inbox[held] # <<>>
    /\ inbox' = [inbox EXCEPT ![held] = Tail(@)]
    /\ received' = [by |-> op.opens, of |-> Head(inbox[held])]
    /\ UNCHANGED <<isData, sockets, held, op, created, requests, sends>>

Next ==
    \/ Close \/ Open \/ Socket \/ Bind \/ Connect \/ SetTimeouts
    \/ Send \/ Answer \/ Receive

Spec == Init /\ [][Next]_vars

-----------------------------------------------------------------------------
\* Between two calls the transport owns exactly the socket it holds: no path
\* through Open leaves a candidate open, and none holds a closed one.
NoSocketLeaks ==
    op.at = "idle" => sockets = {held} \ {0}

\* A transport that was opened again returns no answer to a request of the
\* time before: late answers go to a port nobody listens at any more.
AnswersAreOfThisOpen == received.of = received.by
=============================================================================

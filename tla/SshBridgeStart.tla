--------------------------- MODULE SshBridgeStart ---------------------------
(***************************************************************************)
(* MvlcTransportFactory::Create and SshBridgeProcess::StartProgram: three  *)
(* pipes, the descriptors of the child, the spawn and the start of the     *)
(* error reader, with any step failing.  The descriptor table of the       *)
(* process is explicit, because a process that was started with some of    *)
(* its standard streams closed gets pipe ends numbered 0 to 2, the numbers *)
(* the child's own streams need.                                           *)
(***************************************************************************)
EXTENDS Integers, Sequences, SequencesExt, FiniteSetsExt

CONSTANTS
    Free,        \* an unused descriptor number
    Inherited    \* a standard stream inherited from the caller

Pipes == <<"input", "output", "error">>
Fds == 0..9

VARIABLES
    fd,          \* the descriptor table
    std,         \* the table the process was started with
    mine,        \* the PipeDescriptors: [pipe -> [r, w]], -1 when closed
    at,          \* program counter of Create and StartProgram
    next,        \* the pipe OpenPipe works on
    child,       \* none, running, reaped
    childFd      \* the descriptor table of the child

vars == <<fd, std, mine, at, next, child, childFd>>

End(p, e) == <<p, e>>
Ends == {End(Pipes[i], e) : i \in 1..3, e \in {"r", "w"}}

Init ==
    /\ std \in {[n \in Fds |-> IF n \in s THEN Inherited ELSE Free] :
                  s \in SUBSET (0..2)}
    /\ fd = std
    /\ mine = [i \in 1..3 |-> [r |-> -1, w |-> -1]]
    /\ at = "create" /\ next = 1
    /\ child = "none"
    /\ childFd = [n \in Fds |-> Free]

Unchanged == UNCHANGED <<std, next, child, childFd>>

\* The kernel hands out the lowest free number from a lower bound on.
Lowest(table, from) == Min({n \in Fds : n >= from /\ table[n] = Free})

\* CloseDescriptor, for a set of (pipe, end) pairs of mine.
CloseEnds(which) ==
    LET numbers == {mine[x[1]][x[2]] : x \in which}
    IN  /\ fd' = [n \in Fds |-> IF n \in numbers THEN Free ELSE fd[n]]
        /\ mine' = [i \in 1..3 |-> [e \in {"r", "w"} |->
                      IF <<i, e>> \in which THEN -1 ELSE mine[i][e]]]

AllEnds == (1..3) \X {"r", "w"}

\* Which ends the child was given, and which ones the application keeps.
ChildEnds == {<<1, "r">>, <<2, "w">>, <<3, "w">>}
OwnEnds == AllEnds \ ChildEnds

\* Create: a refused endpoint starts nothing, a direct one needs no child.
Create ==
    /\ at = "create"
    /\ at' \in {"refused", "direct", "pipe"}
    /\ UNCHANGED <<fd, mine>> /\ Unchanged

\* OpenPipe: pipe() returns the two lowest numbers, or fails.
OpenPipe ==
    /\ at = "pipe"
    /\ \/ LET r == Lowest(fd, 0)
              w == Lowest([fd EXCEPT ![r] = Inherited], 0)
          IN  /\ fd' = [fd EXCEPT ![r] = End(Pipes[next], "r"),
                                  ![w] = End(Pipes[next], "w")]
              /\ mine' = [mine EXCEPT ![next] = [r |-> r, w |-> w]]
              /\ at' = "prepareRead"
       \/ /\ at' = "fail" /\ UNCHANGED <<fd, mine>>
    /\ Unchanged

\* Mutant: pipe ends may keep the numbers of the standard streams.
NeedsMoveNever(n) == n < 0

\* PreparePipeDescriptor: a number of a standard stream is moved above them.
NeedsMove(n) == n <= 2

PreparePipeDescriptor(e, then) ==
    LET n == mine[next][e]
        moved == Lowest(fd, 3)
    IN  IF NeedsMove(n)
        THEN /\ fd' = [fd EXCEPT ![moved] = fd[n], ![n] = Free]
             /\ mine' = [mine EXCEPT ![next][e] = moved]
             /\ at' = then
        ELSE UNCHANGED <<fd, mine>> /\ at' = then

Prepare ==
    /\ \/ at = "prepareRead" /\ PreparePipeDescriptor("r", "prepareWrite")
          /\ UNCHANGED next
       \/ at = "prepareWrite"
          /\ PreparePipeDescriptor("w", IF next < 3 THEN "pipe" ELSE "actions")
          /\ next' = IF next < 3 THEN next + 1 ELSE next
       \/ /\ at \in {"prepareRead", "prepareWrite"}
          /\ at' = "fail" /\ UNCHANGED <<fd, mine, next>>
    /\ UNCHANGED <<std, child, childFd>>

\* ConfigureChildDescriptors: three dup2, then six closes, on a copy of the
\* table as the actions will find it.
ConfigureChildDescriptors ==
    LET dup(t, x) == [t EXCEPT ![x[2]] = t[x[1]]]
        close(t, n) == [t EXCEPT ![n] = Free]
        duplicated == FoldLeft(dup, fd, <<<<mine[1].r, 0>>, <<mine[2].w, 1>>,
                                          <<mine[3].w, 2>>>>)
    IN  FoldLeft(close, duplicated,
                 <<mine[1].r, mine[1].w, mine[2].r, mine[2].w,
                   mine[3].r, mine[3].w>>)

FileActions ==
    /\ at = "actions"
    /\ at' \in {"spawn", "fail"}
    /\ UNCHANGED <<fd, mine>> /\ Unchanged

\* posix_spawnp; the ends of the child are closed whether it worked or not.
Spawn ==
    /\ at = "spawn"
    /\ CloseEnds(ChildEnds)
    /\ \/ at' = "spawned" /\ child' = "running"
          /\ childFd' = ConfigureChildDescriptors
       \/ at' = "notSpawned" /\ UNCHANGED <<child, childFd>>
    /\ UNCHANGED <<std, next>>

\* The pipes a failing start closes.
ClosedOnFailure == AllEnds

CleanUp ==
    /\ at \in {"fail", "notSpawned"}
    /\ CloseEnds(IF at = "fail" THEN ClosedOnFailure ELSE OwnEnds)
    /\ at' = "failed"
    /\ Unchanged

\* The object and its error reader start, or an exception ends both: the
\* descriptors are closed and the child is killed (or stopped) and reaped.
StartStderrReader ==
    /\ at = "spawned"
    /\ \/ at' = "started" /\ UNCHANGED <<fd, mine, child>>
       \/ /\ at' = "failed" /\ CloseEnds(OwnEnds) /\ child' = "reaped"
    /\ UNCHANGED <<std, next, childFd>>

Finished == at \in {"refused", "direct", "started", "failed"} /\ UNCHANGED vars

Next ==
    \/ Create \/ OpenPipe \/ Prepare \/ FileActions \/ Spawn \/ CleanUp
    \/ StartStderrReader \/ Finished

Spec == Init /\ [][Next]_vars

-----------------------------------------------------------------------------
\* A start that fails at any step leaves the descriptor table as it was and
\* no child behind (SshBridgeProcess.cpp StartProgram).
FailureLeaksNothing ==
    at \in {"refused", "direct", "failed"} => fd = std /\ child # "running"

\* A started child has the right end of each pipe as its three standard
\* streams and holds no other pipe end, so that closing the application's
\* ends is seen as end of file; the application keeps exactly the other
\* three.  This holds whatever standard streams the caller had open.
StartedIsWired ==
    at = "started" =>
        /\ childFd[0] = End("input", "r")
        /\ childFd[1] = End("output", "w")
        /\ childFd[2] = End("error", "w")
        /\ \A n \in Fds : n > 2 => childFd[n] \notin Ends
        /\ {n \in Fds : fd[n] # std[n]} = {mine[x[1]][x[2]] : x \in OwnEnds}
        /\ \A x \in OwnEnds : fd[mine[x[1]][x[2]]] = End(Pipes[x[1]], x[2])
=============================================================================

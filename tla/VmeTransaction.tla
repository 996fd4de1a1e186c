--------------------------- MODULE VmeTransaction ---------------------------
(***************************************************************************)
(* VmeTransaction.cpp, OwnershipService::ReadLocalRegister and the part of *)
(* VmeProtocol.cpp they use: one register access as datagrams to and from  *)
(* the MVLC.  A VME access uploads a stack, waits for the mirror of the    *)
(* upload, triggers the stack and waits for the mirror of the trigger and  *)
(* the output of the stack; a local access is one request and one mirror.  *)
(* References tell the replies of one request from those of another, but   *)
(* every operation numbers its references from the same start.             *)
(*                                                                         *)
(* Requests and replies may be lost and may come after the receiver has    *)
(* given up waiting; on one socket they are not reordered.                 *)
(***************************************************************************)
EXTENDS Naturals, Sequences

CONSTANTS
    Values,
    MvlcTransactionAttemptCount,      \* 3 in the code
    MvlcMaximumResponseDatagrams,     \* 8 in the code
    MaxOperations,     \* bound on operations
    MaxCalls,          \* bound on the accesses of one operation
    NoValue

TransactionAssumption ==
    /\ MvlcTransactionAttemptCount \in Nat \ {0}
    /\ MvlcMaximumResponseDatagrams \in Nat \ {0}
    /\ MaxOperations \in Nat /\ MaxCalls \in Nat
    /\ NoValue \notin Values

VARIABLES
    regs, call, seen, late,   \* as in RegisterAccess
    requests, replies,        \* datagrams under way, oldest first
    stack,                    \* the immediate stack in the MVLC's memory
    tx,                       \* the transaction under way
    session                   \* the operation and the reference counters

net == <<requests, replies, stack>>
vars == <<regs, call, seen, late, requests, replies, stack, tx, session>>

Registers == {"vme", "local"}
Access == INSTANCE RegisterAccess
NoCall == Access!NoCall

NoTx == [pc |-> "idle", super |-> 0, stackRef |-> 0, attempt |-> 0,
         datagrams |-> 0, gotSuper |-> FALSE, gotStack |-> FALSE,
         value |-> NoValue]
NoStack == [ref |-> 0, op |-> NoCall]

Init ==
    /\ Access!AccessInit
    /\ requests = <<>> /\ replies = <<>> /\ stack = NoStack
    /\ tx = NoTx
    /\ session = [stage |-> "idle", operations |-> 0, calls |-> 0,
                  nextRead |-> 0, nextSuper |-> 0, nextStack |-> 0]

Idle == call = NoCall

----------------------------------------------------------------------------
\* Requests.  References of gates and of operations come from disjoint ranges.
GateRef(n) == <<"gate", n>>
OpRef(n) == <<"op", n>>
Upload(ref, stackRef, op) ==
    [kind |-> "upload", ref |-> ref, stackRef |-> stackRef, op |-> op]
Execute(ref) == [kind |-> "execute", ref |-> ref, stackRef |-> 0, op |-> NoCall]
Local(ref, op) == [kind |-> "local", ref |-> ref, stackRef |-> 0, op |-> op]

\* A frame of a reply: a super frame mirrors a request, a stack frame carries
\* the output of a stack.  bad: rejected, no device, bus error.
Frame(type, ref, bad, value) ==
    [type |-> type, ref |-> ref, bad |-> bad, value |-> value]

----------------------------------------------------------------------------
\* The controller (external).  A reply may be lost.
Answer(frames) ==
    \E keep \in SUBSET DOMAIN frames :
        replies' = replies \o
            (IF keep = DOMAIN frames THEN frames
             ELSE IF keep = {} THEN <<>> ELSE <<frames[CHOOSE i \in keep : TRUE]>>)

Perform(op) ==
    /\ regs' = IF op.kind = "write" THEN [regs EXCEPT ![op.reg] = op.value]
                                    ELSE regs
    /\ seen' = IF op.kind = "write" /\ call.reg = op.reg
                 THEN seen \cup {op.value} ELSE seen
Result(op) == IF op.kind = "read" THEN regs[op.reg] ELSE NoValue

Controller ==
    /\ requests # <<>>
    /\ requests' = Tail(requests)
    /\ LET q == Head(requests)
       IN \/ /\ q.kind = "upload"
             /\ \/ stack' = [ref |-> q.stackRef, op |-> q.op]
                   /\ Answer(<<Frame("super", q.ref, FALSE, NoValue)>>)
                \/ stack' = stack
                   /\ Answer(<<Frame("super", q.ref, TRUE, NoValue)>>)
             /\ UNCHANGED <<regs, seen>>
          \/ /\ q.kind = "execute"
             /\ \/ /\ Perform(stack.op)
                   /\ Answer(<<Frame("super", q.ref, FALSE, NoValue),
                               Frame("stack", stack.ref, FALSE, Result(stack.op))>>)
                \/ /\ UNCHANGED <<regs, seen>>
                   /\ Answer(<<Frame("super", q.ref, FALSE, NoValue),
                               Frame("stack", stack.ref, TRUE, NoValue)>>)
             /\ UNCHANGED stack
          \/ /\ q.kind = "local"
             /\ Perform(q.op)
             /\ Answer(<<Frame("super", q.ref, FALSE, Result(q.op))>>)
             /\ UNCHANGED stack
    /\ UNCHANGED <<call, late, tx, session>>

LoseRequest ==
    /\ requests # <<>>
    /\ requests' = Tail(requests)
    /\ UNCHANGED <<regs, call, seen, late, replies, stack, tx, session>>

----------------------------------------------------------------------------
\* The end of a call.
Succeed ==
    /\ call' = NoCall /\ seen' = {} /\ late' = {}
    /\ tx' = NoTx
    /\ session' = IF session.stage = "gate"
                    THEN [session EXCEPT !.stage = "running"] ELSE session
    /\ UNCHANGED <<regs, net>>

Fail(left) ==
    /\ late' = IF call.kind = "write" THEN late \cup {<<call.reg, call.value>>}
                                      ELSE late
    /\ call' = NoCall /\ seen' = {}
    /\ tx' = NoTx
    /\ session' = [session EXCEPT !.stage = "idle"]
    /\ replies' = left
    /\ UNCHANGED <<regs, requests, stack>>

\* RunStackTransaction: every attempt uses new references.
Attempt(n, op) ==
    /\ requests' = Append(requests,
           Upload(OpRef(session.nextSuper), session.nextStack, op))
    /\ tx' = [NoTx EXCEPT !.pc = "upload", !.attempt = n,
                 !.super = OpRef(session.nextSuper),
                 !.stackRef = session.nextStack]
    /\ session' = [session EXCEPT !.nextSuper = @ + 1, !.nextStack = @ + 1,
                      !.calls = IF n = 1 THEN @ + 1 ELSE @]
    /\ UNCHANGED stack

\* left: the replies that remain.
Retry(left) ==
    IF tx.attempt < MvlcTransactionAttemptCount
      THEN /\ Attempt(tx.attempt + 1, call)
           /\ replies' = left
           /\ UNCHANGED <<regs, call, seen, late>>
      ELSE Fail(left)

----------------------------------------------------------------------------
\* Mutant: an operation starts without reading the DAQ mode first.
BeginOperationUngated ==
    /\ Idle /\ session.stage = "idle" /\ session.operations < MaxOperations
    /\ session' = [session EXCEPT !.stage = "running", !.calls = 0,
                      !.operations = @ + 1, !.nextSuper = 0, !.nextStack = 0]
    /\ UNCHANGED <<regs, call, seen, late, net, tx>>

\* An operation begins with the DAQ-mode gate, ReadLocalRegister, and then
\* numbers its references from the start again.
BeginOperation ==
    /\ Idle /\ session.stage = "idle" /\ session.operations < MaxOperations
    /\ call' = [kind |-> "read", reg |-> "local", value |-> NoValue]
    /\ seen' = {regs["local"]}
    /\ session' = [session EXCEPT !.stage = "gate", !.operations = @ + 1,
                      !.calls = 0, !.nextRead = @ + 1,
                      !.nextSuper = 0, !.nextStack = 0]
    /\ requests' = Append(requests, Local(GateRef(session.nextRead), call'))
    /\ tx' = [NoTx EXCEPT !.pc = "local", !.attempt = 1,
                          !.super = GateRef(session.nextRead)]
    /\ UNCHANGED <<regs, late, replies, stack>>

EndOperation ==
    /\ Idle /\ session.stage = "running"
    /\ session' = [session EXCEPT !.stage = "idle"]
    /\ UNCHANGED <<regs, call, seen, late, net, tx>>

Accesses == {[kind |-> "write", reg |-> r, value |-> v] :
                r \in Registers, v \in Values}
            \cup {[kind |-> "read", reg |-> "vme", value |-> NoValue]}

\* ReadVmeD16, WriteVmeD16 and WriteLocalRegisters.
BeginAccess ==
    /\ Idle /\ session.stage = "running" /\ session.calls < MaxCalls
    /\ \E op \in Accesses :
          /\ call' = op
          /\ seen' = {regs[op.reg]}
          /\ IF op.reg = "vme" THEN Attempt(1, op)
             ELSE /\ requests' = Append(requests,
                                    Local(OpRef(session.nextSuper), op))
                  /\ tx' = [NoTx EXCEPT !.pc = "local", !.attempt = 1,
                                        !.super = OpRef(session.nextSuper)]
                  /\ session' = [session EXCEPT !.nextSuper = @ + 1,
                                                !.calls = @ + 1]
                  /\ UNCHANGED stack
    /\ UNCHANGED <<regs, late, replies>>

----------------------------------------------------------------------------
Matches(f, type, ref) == f.type = type /\ f.ref = ref

\* The next datagram, while fewer than eight have been received.
Received == replies # <<>> /\ tx.datagrams < MvlcMaximumResponseDatagrams

\* A datagram that is not for this request.
Skip ==
    /\ tx' = [tx EXCEPT !.datagrams = @ + 1]
    /\ replies' = Tail(replies)
    /\ UNCHANGED <<regs, call, seen, late, requests, stack, session>>

\* UploadStack, with the mirror of the upload at hand.
UploadStack ==
    LET f == Head(replies)
    IN /\ tx.pc = "upload" /\ Received
       /\ \/ ~Matches(f, "super", tx.super) /\ Skip
          \/ /\ Matches(f, "super", tx.super) /\ ~f.bad
             /\ requests' = Append(requests, Execute(OpRef(session.nextSuper)))
             /\ tx' = [tx EXCEPT !.pc = "execute", !.datagrams = 0,
                                 !.super = OpRef(session.nextSuper)]
             /\ session' = [session EXCEPT !.nextSuper = @ + 1]
             /\ replies' = Tail(replies)
             /\ UNCHANGED <<regs, call, seen, late, stack>>
          \/ /\ Matches(f, "super", tx.super) /\ f.bad
             /\ Retry(Tail(replies))

\* ExecuteStack: both the mirror and the output are needed.
ExecuteStack ==
    LET f == Head(replies)
        super == Matches(f, "super", tx.super)
        output == Matches(f, "stack", tx.stackRef)
    IN /\ tx.pc = "execute" /\ Received
       /\ \/ ~super /\ ~output /\ Skip
          \/ /\ (super \/ output) /\ ~f.bad
             /\ tx' = [tx EXCEPT !.gotSuper = @ \/ super,
                                 !.gotStack = @ \/ output,
                                 !.datagrams = @ + 1,
                                 !.value = IF output THEN f.value ELSE @]
             /\ replies' = Tail(replies)
             /\ UNCHANGED <<regs, call, seen, late, requests, stack, session>>

\* Mutant: the mirror of the trigger is taken for success.
SucceedsOnMirror ==
    /\ tx.pc = "execute" /\ tx.gotSuper
    /\ Succeed

StackSucceeds ==
    /\ tx.pc = "execute" /\ tx.gotSuper /\ tx.gotStack
    /\ Succeed

\* ReadLocalRegister and WriteLocalRegisters.
LocalReply ==
    LET f == Head(replies)
    IN /\ tx.pc = "local" /\ Received
       /\ \/ ~Matches(f, "super", tx.super) /\ Skip
          \/ /\ Matches(f, "super", tx.super)
             /\ tx' = [tx EXCEPT !.pc = "replied", !.value = f.value]
             /\ replies' = Tail(replies)
             /\ UNCHANGED <<regs, call, seen, late, requests, stack, session>>

LocalSucceeds == tx.pc = "replied" /\ Succeed

\* The device did not answer or a bus error: not retried.
VmeFailure ==
    /\ tx.pc = "execute" /\ Received
    /\ Matches(Head(replies), "stack", tx.stackRef) /\ Head(replies).bad
    /\ Fail(Tail(replies))

\* 500 ms have passed, or eight datagrams were for others: a VME access is
\* tried again from its upload.
TimeoutVme ==
    /\ tx.pc \in {"upload", "execute"}
    /\ ~(tx.gotSuper /\ tx.gotStack)
    /\ Retry(replies)

\* A local read is sent again with its reference, a local write fails.
TimeoutLocal ==
    /\ tx.pc = "local"
    /\ IF call.kind = "read" /\ tx.attempt < MvlcTransactionAttemptCount
         THEN /\ requests' = Append(requests, Local(tx.super, call))
              /\ tx' = [tx EXCEPT !.attempt = @ + 1, !.datagrams = 0]
              /\ UNCHANGED <<regs, call, seen, late, replies, stack, session>>
         ELSE Fail(replies)

Client ==
    \/ BeginOperation \/ EndOperation \/ BeginAccess
    \/ UploadStack \/ ExecuteStack \/ StackSucceeds
    \/ LocalReply \/ LocalSucceeds
    \/ VmeFailure \/ TimeoutVme \/ TimeoutLocal

Done ==
    /\ Idle /\ requests = <<>> /\ session.stage = "idle"
    /\ session.operations = MaxOperations
    /\ UNCHANGED vars

Next == Client \/ Controller \/ LoseRequest \/ Done

Spec == Init /\ [][Next]_vars

----------------------------------------------------------------------------
(***************************************************************************)
(* A reply that is taken for the answer to an access is the answer to that *)
(* access: its success is never reported from a reply an earlier operation *)
(* left behind under the same reference (RunStackTransaction,              *)
(* ReadLocalRegister).                                                     *)
(***************************************************************************)
AnswersAreFresh ==
    (tx.gotStack \/ tx.pc = "replied") =>
        IF call.kind = "write" THEN regs[call.reg] = call.value
                               ELSE tx.value \in seen

(***************************************************************************)
(* The datagram protocol implements the register access the operations are *)
(* written against.                                                        *)
(***************************************************************************)
IsRegisterAccess == Access!AccessSpec
=============================================================================

-------------------------- MODULE TransportProofs --------------------------
(***************************************************************************)
(* Proofs for the way of a register access between FIDGET and the crate.   *)
(***************************************************************************)
EXTENDS MCTransport, SequenceTheorems, TLAPS

----------------------------------------------------------------------------
(***************************************************************************)
(* MVLC transactions.  The inductive invariant follows the references      *)
(* through the two queues: both are first in, first out, so a reply to the *)
(* current request is a sign that nothing older is under way.              *)
(***************************************************************************)
GateRead == [kind |-> "read", reg |-> "local", value |-> NoValue]
NoAccess == [kind |-> "none", reg |-> "none", value |-> NoValue]
Operations == Transaction!Accesses \cup {GateRead, NoAccess}
References == {"gate", "op"} \X Nat
Requests == [kind : {"upload", "execute", "local"}, ref : References,
             stackRef : Nat, op : Operations]
Frames == [type : {"super", "stack"}, ref : References \cup Nat,
           bad : BOOLEAN, value : Values \cup {NoValue}]
Transactions ==
    [pc : {"idle", "upload", "execute", "local", "replied"},
     super : References \cup {0}, stackRef : Nat, attempt : Nat,
     datagrams : Nat, gotSuper : BOOLEAN, gotStack : BOOLEAN,
     value : Values \cup {NoValue}]
Sessions ==
    [stage : {"idle", "gate", "running"}, operations : Nat, calls : Nat,
     nextRead : Nat, nextSuper : Nat, nextStack : Nat]

\* The type of every variable of the transactions.
TxTypes ==
    /\ regs \in [{"vme", "local"} -> Values]
    /\ call \in Operations
    /\ seen \in SUBSET Values
    /\ late \in SUBSET ({"vme", "local"} \X Values)
    /\ requests \in Seq(Requests) /\ replies \in Seq(Frames)
    /\ stack \in [ref : Nat, op : Operations]
    /\ tx \in Transactions
    /\ session \in Sessions

IsMirror(f) == tx.pc # "idle" /\ f.type = "super" /\ f.ref = tx.super
IsOutput(f) == f.type = "stack" /\ f.ref = tx.stackRef
Triggers == \E i \in 1..Len(requests) : requests[i].kind = "execute"

\* What the transaction under way says of the call and of the session.
TxCalls ==
    /\ call = NoAccess => tx = Transaction!NoTx
    /\ call # NoAccess => tx.pc # "idle" /\ regs[call.reg] \in seen
    /\ session.stage = "idle" => call = NoAccess
    /\ session.stage = "gate" =>
          /\ call = GateRead /\ tx.pc \in {"local", "replied"}
          /\ session.nextRead > 0
          /\ tx.super = <<"gate", session.nextRead - 1>>
    /\ (session.stage = "running" /\ call # NoAccess) =>
          /\ call \in Transaction!Accesses /\ session.nextSuper > 0
          /\ tx.super = <<"op", session.nextSuper - 1>>
    /\ tx.pc \in {"upload", "execute"} =>
          /\ session.stage = "running" /\ call.reg = "vme"
          /\ session.nextStack > 0 /\ tx.stackRef = session.nextStack - 1
    /\ (tx.pc \in {"local", "replied"} /\ session.stage = "running") =>
          call.kind = "write" /\ call.reg = "local"
    /\ tx.gotStack => tx.pc = "execute"

\* References of gates are never used again; those under way while an
\* operation runs are its own.
OwnRequest(q) ==
    /\ q.ref[1] = "gate" =>
          q.ref[2] < session.nextRead /\ q.kind = "local" /\ q.op = GateRead
    /\ (session.stage = "running" /\ q.ref[1] = "op") =>
          q.ref[2] < session.nextSuper
    /\ (session.stage = "running" /\ q.kind = "upload") =>
          q.stackRef < session.nextStack
OwnReply(f) ==
    /\ f.type = "super" => f.ref \in References
    /\ (f.type = "super" /\ f.ref[1] = "gate") => f.ref[2] < session.nextRead
    /\ (session.stage = "running" /\ f.type = "super" /\ f.ref[1] = "op") =>
          f.ref[2] < session.nextSuper
    /\ f.type = "stack" => f.ref \in Nat
    /\ (session.stage = "running" /\ f.type = "stack") =>
          f.ref < session.nextStack
TxReferences ==
    /\ \A i \in 1..Len(requests) : OwnRequest(requests[i])
    /\ \A i \in 1..Len(replies) : OwnReply(replies[i])
    /\ (session.stage = "running" /\ Triggers) => stack.ref < session.nextStack

\* Behind a request of the current gate there are only its repetitions.
GateIsLast ==
    \A i, j \in 1..Len(requests) :
        (i <= j /\ requests[i].ref = tx.super) => requests[j].ref = tx.super

\* The gate: a reply to it is behind everything of earlier operations.
TxGate ==
    session.stage = "gate" =>
        /\ GateIsLast
        /\ \A i, j \in 1..Len(replies) :
              (i <= j /\ IsMirror(replies[i])) => IsMirror(replies[j])
        /\ \A i \in 1..Len(replies) : IsMirror(replies[i]) =>
              /\ replies[i].value \in seen
              /\ \A j \in 1..Len(requests) : requests[j].ref = tx.super
        /\ tx.pc = "replied" =>
              /\ tx.value \in seen
              /\ \A i \in 1..Len(replies) : IsMirror(replies[i])
              /\ \A j \in 1..Len(requests) : requests[j].ref = tx.super

\* The current request of an operation, if it has not reached the controller,
\* is the last one.
CurrentIsLast ==
    /\ \A i \in 1..(Len(requests) - 1) :
          /\ requests[i].ref # tx.super
          /\ (tx.pc = "upload" /\ requests[i].kind = "upload") =>
                requests[i].stackRef < tx.stackRef
    /\ requests[Len(requests)].ref = tx.super
    /\ requests[Len(requests)].op = call
    /\ requests[Len(requests)].kind = tx.pc
    /\ tx.pc = "upload" => requests[Len(requests)].stackRef = tx.stackRef
TxCurrent ==
    session.stage = "running" =>
        /\ (tx.pc \in {"upload", "local"} /\ requests # <<>>) => CurrentIsLast
        /\ (tx.pc = "upload" /\ Triggers) => stack.ref < tx.stackRef
        /\ tx.pc = "execute" =>
              /\ stack = [ref |-> tx.stackRef, op |-> call]
              /\ requests # <<>> =>
                    /\ Len(requests) = 1
                    /\ requests[1].kind = "execute" /\ requests[1].ref = tx.super
        /\ tx.pc = "replied" => requests = <<>>

\* A reply to the current request of an operation.
TxAnswers ==
    session.stage = "running" =>
        /\ \A i \in 1..Len(replies) : IsMirror(replies[i]) =>
              /\ tx.pc \in {"upload", "local"} => requests = <<>>
              /\ (tx.pc = "upload" /\ ~replies[i].bad) =>
                    stack = [ref |-> tx.stackRef, op |-> call]
              /\ tx.pc = "local" => regs["local"] = call.value
        /\ \A i \in 1..Len(replies) : IsOutput(replies[i]) =>
              /\ tx.pc # "upload"
              /\ (tx.pc = "execute" /\ ~replies[i].bad) =>
                    /\ requests = <<>>
                    /\ IF call.kind = "write" THEN regs["vme"] = call.value
                                              ELSE replies[i].value \in seen
        /\ tx.gotStack =>
              /\ requests = <<>>
              /\ IF call.kind = "write" THEN regs["vme"] = call.value
                                        ELSE tx.value \in seen
        /\ tx.pc = "replied" => regs["local"] = call.value

\* Every write that may still happen is the one under way or one whose call
\* has failed since the last success.
Expected(o) == o.kind = "write" => (o = call \/ <<o.reg, o.value>> \in late)
TxExpected ==
    /\ \A i \in 1..Len(requests) :
          requests[i].kind # "execute" => Expected(requests[i].op)
    /\ Triggers => Expected(stack.op)
    /\ (session.stage = "running" /\ call = NoAccess) =>
          \A i \in 1..Len(requests) : requests[i].ref[1] = "gate"

TxInv == /\ TxTypes /\ TxCalls /\ TxReferences /\ TxGate /\ TxCurrent
         /\ TxAnswers /\ TxExpected

----------------------------------------------------------------------------
\* The instances satisfy what the proofs assume of the constants.
LEMMA InstanceAssumption == Transaction!TransactionAssumption
BY TransportInstances

\* A queue without its oldest element.
LEMMA QueueTail ==
    ASSUME NEW S, NEW q \in Seq(S), q # <<>>
    PROVE  /\ Len(q) \in Nat /\ Len(q) > 0
           /\ Head(q) = q[1] /\ q[1] \in S
           /\ Tail(q) \in Seq(S) /\ Len(Tail(q)) = Len(q) - 1
           /\ \A i \in 1..(Len(q) - 1) : Tail(q)[i] = q[i + 1]
OBVIOUS

\* A queue with a new element.
LEMMA QueueAppend ==
    ASSUME NEW S, NEW q \in Seq(S), NEW e \in S
    PROVE  /\ Len(q) \in Nat
           /\ Append(q, e) \in Seq(S) /\ Len(Append(q, e)) = Len(q) + 1
           /\ Append(q, e) # <<>>
           /\ \A i \in 1..Len(q) : Append(q, e)[i] = q[i]
           /\ Append(q, e)[Len(q) + 1] = e
OBVIOUS

\* The replies after an answer: those before, and some of its frames.
Answered(frames) ==
    /\ replies' \in Seq(Frames) /\ Len(replies') >= Len(replies)
    /\ \A i \in 1..Len(replies) : replies'[i] = replies[i]
    /\ \A i \in 1..Len(replies') : i > Len(replies) =>
          \E k \in 1..Len(frames) : replies'[i] = frames[k]

\* An answer loses all, some or none of its frames.
LEMMA AnswerAppends ==
    ASSUME replies \in Seq(Frames), NEW frames \in Seq(Frames),
           Transaction!Answer(frames)
    PROVE  Answered(frames)
<1>1. PICK keep \in SUBSET DOMAIN frames :
        replies' = replies \o
            (IF keep = DOMAIN frames THEN frames
             ELSE IF keep = {} THEN <<>> ELSE <<frames[CHOOSE i \in keep : TRUE]>>)
  BY DEF Transaction!Answer
<1> DEFINE new == IF keep = DOMAIN frames THEN frames
             ELSE IF keep = {} THEN <<>> ELSE <<frames[CHOOSE i \in keep : TRUE]>>
<1>2. /\ new \in Seq(Frames)
      /\ \A i \in 1..Len(new) : \E k \in 1..Len(frames) : new[i] = frames[k]
  <2>1. CASE keep = DOMAIN frames
    BY <2>1
  <2>2. CASE keep # DOMAIN frames /\ keep = {}
    BY <2>2
  <2>3. CASE keep # DOMAIN frames /\ keep # {}
    <3>1. PICK k : k = CHOOSE i \in keep : TRUE
      OBVIOUS
    <3>2. k \in keep
      BY <3>1, <2>3
    <3>3. k \in 1..Len(frames) /\ frames[k] \in Frames /\ new = <<frames[k]>>
      BY <3>1, <3>2, <2>3
    <3>4. ASSUME NEW f \in Frames
          PROVE  <<f>> \in Seq(Frames) /\ Len(<<f>>) = 1 /\ <<f>>[1] = f
      OBVIOUS
    <3>5. Len(new) = 1 /\ new[1] = frames[k] /\ new \in Seq(Frames)
      BY <3>3, <3>4
    <3> HIDE DEF new
    <3> QED
      BY <3>3, <3>5
  <2> QED
    BY <2>1, <2>2, <2>3
<1>3. replies' = replies \o new
  BY <1>1
<1> HIDE DEF new
<1>4. /\ replies' \in Seq(Frames) /\ Len(replies') = Len(replies) + Len(new)
      /\ Len(replies) \in Nat /\ Len(new) \in Nat
      /\ \A i \in 1..Len(replies) + Len(new) : replies'[i] =
            IF i <= Len(replies) THEN replies[i] ELSE new[i - Len(replies)]
  BY <1>2, <1>3
<1>5. ASSUME NEW i \in 1..Len(replies'), i > Len(replies)
      PROVE  \E k \in 1..Len(frames) : replies'[i] = frames[k]
  <2>1. i - Len(replies) \in 1..Len(new) /\ replies'[i] = new[i - Len(replies)]
    BY <1>4, <1>5
  <2> QED
    BY <2>1, <1>2
<1>6. \A i \in 1..Len(replies) : replies'[i] = replies[i]
  BY <1>4
<1> QED
  BY <1>4, <1>5, <1>6 DEF Answered

\* What is left of the requests when the oldest is gone.
Taken ==
    /\ Len(requests) \in Nat /\ Len(requests) > 0 /\ 1 \in 1..Len(requests)
    /\ requests[1] \in Requests /\ Head(requests) = requests[1]
    /\ requests' \in Seq(Requests) /\ Len(requests') = Len(requests) - 1
    /\ \A i \in 1..(Len(requests) - 1) : requests'[i] = requests[i + 1]

\* The oldest request leaves the queue.
LEMMA TakesOldest ==
    ASSUME TxInv, requests # <<>>, requests' = Tail(requests)
    PROVE  Taken
BY QueueTail DEF TxInv, TxTypes, Taken

\* What holds of all requests holds of those left.
LEMMA TakenKeeps ==
    ASSUME TxInv, Taken, UNCHANGED <<call, late, tx, session>>
    PROVE  /\ Triggers' => Triggers
           /\ OwnRequest(requests[1]) /\ requests[1].ref \in References
           /\ requests[1].kind # "local" => requests[1].ref[1] = "op"
           /\ requests[1].kind # "execute" => Expected(requests[1].op)
           /\ \A i \in 1..Len(requests') : OwnRequest(requests[i])'
           /\ session.stage = "gate" => GateIsLast'
           /\ session.stage = "gate" =>
                 \A i \in 1..Len(requests') : requests[1].ref = tx.super =>
                     requests'[i].ref = tx.super
           /\ (session.stage = "running" /\ tx.pc \in {"upload", "local"}
                 /\ requests' # <<>>) =>
                 /\ CurrentIsLast' /\ requests[1].ref # tx.super
                 /\ (tx.pc = "upload" /\ requests[1].kind = "upload") =>
                       requests[1].stackRef < tx.stackRef
           /\ (session.stage = "running" /\ tx.pc \in {"upload", "local"}
                 /\ requests' = <<>>) =>
                 /\ requests[1].ref = tx.super /\ requests[1].op = call
                 /\ requests[1].kind = tx.pc
                 /\ tx.pc = "upload" => requests[1].stackRef = tx.stackRef
           /\ \A i \in 1..Len(requests') :
                 requests'[i].kind # "execute" => Expected(requests[i].op)'
           /\ (session.stage = "running" /\ call = NoAccess) =>
                 /\ requests[1].ref[1] = "gate"
                 /\ \A i \in 1..Len(requests') : requests'[i].ref[1] = "gate"
<1> USE DEF TxInv, Taken
<1>1. ASSUME NEW i \in 1..Len(requests')
      PROVE  /\ i + 1 \in 1..Len(requests) /\ requests'[i] = requests[i + 1]
             /\ i \in Nat /\ Len(requests) > 1
  OBVIOUS
<1>2. Triggers' => Triggers
  BY <1>1 DEF Triggers
<1>3. OwnRequest(requests[1]) /\ requests[1].ref \in References
  BY DEF TxReferences, Requests
<1>4. requests[1].kind # "local" => requests[1].ref[1] = "op"
  BY <1>3 DEF OwnRequest, References
<1>5. requests[1].kind # "execute" => Expected(requests[1].op)
  BY DEF TxExpected
<1>6. ASSUME NEW i \in 1..Len(requests')
      PROVE  OwnRequest(requests[i])'
  BY <1>1 DEF TxReferences, OwnRequest
<1>7. ASSUME session.stage = "gate"
      PROVE  GateIsLast'
  <2>1. ASSUME NEW i \in 1..Len(requests'), NEW j \in 1..Len(requests'), i <= j,
               requests'[i].ref = tx.super
        PROVE  requests'[j].ref = tx.super
    <3>1. /\ i + 1 \in 1..Len(requests) /\ requests'[i] = requests[i + 1]
          /\ j + 1 \in 1..Len(requests) /\ requests'[j] = requests[j + 1]
          /\ i + 1 <= j + 1
      BY <1>1, <2>1
    <3> QED
      BY <3>1, <2>1, <1>7 DEF TxGate, GateIsLast
  <2> QED
    BY <2>1 DEF GateIsLast
<1>8. ASSUME session.stage = "gate", requests[1].ref = tx.super,
             NEW i \in 1..Len(requests')
      PROVE  requests'[i].ref = tx.super
  BY <1>8, <1>1 DEF TxGate, GateIsLast
<1>9. ASSUME session.stage = "running", tx.pc \in {"upload", "local"}
      PROVE  CurrentIsLast
  BY <1>9 DEF TxCurrent
<1>10. ASSUME session.stage = "running", tx.pc \in {"upload", "local"},
              requests' # <<>>
       PROVE  /\ CurrentIsLast' /\ requests[1].ref # tx.super
              /\ (tx.pc = "upload" /\ requests[1].kind = "upload") =>
                    requests[1].stackRef < tx.stackRef
  <2>1. /\ Len(requests') \in 1..Len(requests') /\ 1 \in 1..(Len(requests) - 1)
        /\ requests'[Len(requests')] = requests[Len(requests)]
    BY <1>10
  <2>2. ASSUME NEW i \in 1..(Len(requests') - 1)
        PROVE  requests'[i] = requests[i + 1] /\ i + 1 \in 1..(Len(requests) - 1)
    OBVIOUS
  <2> QED
    BY <1>9, <1>10, <2>1, <2>2 DEF CurrentIsLast
<1>11. ASSUME session.stage = "running", tx.pc \in {"upload", "local"},
              requests' = <<>>
       PROVE  /\ requests[1].ref = tx.super /\ requests[1].op = call
              /\ requests[1].kind = tx.pc
              /\ tx.pc = "upload" => requests[1].stackRef = tx.stackRef
  <2>1. Len(requests) = 1
    BY <1>11
  <2> QED
    BY <2>1, <1>9, <1>11 DEF CurrentIsLast
<1>12. ASSUME NEW i \in 1..Len(requests')
       PROVE  requests'[i].kind # "execute" => Expected(requests[i].op)'
  BY <1>1 DEF TxExpected, Expected
<1>13. ASSUME session.stage = "running", call = NoAccess
       PROVE  /\ requests[1].ref[1] = "gate"
              /\ \A i \in 1..Len(requests') : requests'[i].ref[1] = "gate"
  BY <1>13, <1>1 DEF TxExpected
<1> QED
  BY <1>2, <1>3, <1>4, <1>5, <1>6, <1>7, <1>8, <1>10, <1>11, <1>12, <1>13

\* A request is lost.
LEMMA TxLoseRequest ==
    ASSUME TxInv, Transaction!LoseRequest
    PROVE  TxInv'
<1> USE DEF TxInv
<1>1. /\ requests # <<>> /\ Taken
      /\ UNCHANGED <<regs, call, seen, late, replies, stack, tx, session>>
  BY TakesOldest DEF Transaction!LoseRequest
<1>2. TxTypes'
  BY <1>1 DEF TxTypes, Taken
<1>3. TxCalls'
  BY <1>1 DEF TxCalls
<1>4. TxReferences'
  BY <1>1, TakenKeeps DEF TxReferences, OwnReply
<1>5. TxGate'
  BY <1>1, TakenKeeps DEF TxGate, IsMirror, Taken
<1>6. TxCurrent'
  BY <1>1, TakenKeeps DEF TxCurrent, Taken
<1>7. TxAnswers'
  BY <1>1 DEF TxAnswers, IsMirror, IsOutput, Taken
<1>8. TxExpected'
  BY <1>1, TakenKeeps DEF TxExpected, Expected
<1> QED
  BY <1>2, <1>3, <1>4, <1>5, <1>6, <1>7, <1>8

\* The controller takes an upload.
LEMMA TxUploaded ==
    ASSUME TxInv, Taken, requests[1].kind = "upload", NEW bad \in BOOLEAN,
           stack' = IF bad THEN stack ELSE [ref |-> requests[1].stackRef,
                                            op |-> requests[1].op],
           Answered(<<Transaction!Frame("super", requests[1].ref, bad, NoValue)>>),
           UNCHANGED <<regs, seen, call, late, tx, session>>
    PROVE  TxInv'
<1> USE DEF TxInv
<1>1. /\ replies' \in Seq(Frames) /\ Len(replies') >= Len(replies)
      /\ Len(replies) \in Nat /\ Len(replies') \in Nat
      /\ \A i \in 1..Len(replies) : replies'[i] = replies[i]
      /\ \A i \in 1..Len(replies') : i > Len(replies) =>
            replies'[i] = [type |-> "super", ref |-> requests[1].ref,
                           bad |-> bad, value |-> NoValue]
  BY DEF Answered, Transaction!Frame, TxTypes
<1>2. requests[1].ref[1] = "op" /\ OwnRequest(requests[1])
      /\ requests[1].ref \in References /\ Expected(requests[1].op)
  BY TakenKeeps
<1>3. requests # <<>> /\ 1 \in 1..Len(requests)
  BY DEF Taken
<1>4. TxTypes'
  BY <1>1 DEF TxTypes, Requests, Taken
<1>5. TxCalls'
  BY DEF TxCalls
<1>8. ASSUME NEW i \in 1..Len(replies'), i > Len(replies)
      PROVE  /\ replies'[i].type = "super" /\ replies'[i].ref = requests[1].ref
             /\ replies'[i].bad = bad
  BY <1>8, <1>1
<1>9. ASSUME NEW i \in 1..Len(replies'), ~(i > Len(replies))
      PROVE  i \in 1..Len(replies) /\ replies'[i] = replies[i]
  BY <1>9, <1>1
<1>10. TxReferences'
  <2>1. ASSUME NEW i \in 1..Len(replies')
        PROVE  OwnReply(replies[i])'
    <3>1. CASE i > Len(replies)
      BY <3>1, <1>8, <1>2 DEF OwnReply, OwnRequest
    <3>2. CASE ~(i > Len(replies))
      BY <3>2, <1>9 DEF TxReferences, OwnReply
    <3> QED
      BY <3>1, <3>2
  <2>2. (session.stage = "running" /\ Triggers') => stack'.ref < session.nextStack
    BY <1>2, TakenKeeps DEF TxReferences, OwnRequest
  <2> QED
    BY <2>1, <2>2, TakenKeeps DEF TxReferences
<1>11. TxGate'
  <2>1. SUFFICES ASSUME session.stage = "gate"
                 PROVE  TxGate'
    BY DEF TxGate
  <2>2. tx.super[1] = "gate" /\ tx.pc # "idle"
    BY <2>1 DEF TxCalls
  <2>3. requests[1].ref # tx.super
    BY <2>2, <1>2
  <2>4. \A i \in 1..Len(replies) : ~IsMirror(replies[i])
    BY <2>1, <2>3, <1>3 DEF TxGate
  <2>5. \A i \in 1..Len(replies') : ~IsMirror(replies[i])'
    BY <2>3, <2>4, <1>8, <1>9 DEF IsMirror
  <2>6. tx.pc # "replied"
    BY <2>1, <2>3, <1>3 DEF TxGate
  <2> QED
    BY <2>1, <2>5, <2>6, TakenKeeps DEF TxGate
<1>12. TxCurrent'
  <2>1. SUFFICES ASSUME session.stage = "running"
                 PROVE  TxCurrent'
    BY DEF TxCurrent
  <2>2. tx.pc \notin {"execute", "replied"}
    BY <2>1, <1>3 DEF TxCurrent
  <2>3. ASSUME tx.pc = "upload", Triggers'
        PROVE  stack'.ref < tx.stackRef
    <3>1. requests' # <<>>
      BY <2>3 DEF Triggers
    <3> QED
      BY <2>1, <2>3, <3>1, TakenKeeps DEF TxCurrent
  <2> QED
    BY <2>1, <2>2, <2>3, TakenKeeps DEF TxCurrent
<1>13. TxAnswers'
  <2>1. SUFFICES ASSUME session.stage = "running"
                 PROVE  TxAnswers'
    BY DEF TxAnswers
  <2>3. tx.pc \notin {"execute", "replied"} /\ ~tx.gotStack
    BY <2>1, <1>3 DEF TxCurrent, TxAnswers
  <2>4. ASSUME NEW i \in 1..Len(replies'), IsMirror(replies[i])',
               tx.pc \in {"upload", "local"}
        PROVE  requests' = <<>> /\ tx.pc = "upload" /\ requests[1].op = call
               /\ requests[1].stackRef = tx.stackRef /\ replies'[i].bad = bad
    <3>1. i > Len(replies)
      BY <2>1, <1>3, <2>4, <1>9 DEF TxAnswers, IsMirror
    <3>2. requests[1].ref = tx.super /\ replies'[i].bad = bad
      BY <3>1, <2>4, <1>8 DEF IsMirror
    <3> QED
      BY <3>2, <2>1, <2>4, TakenKeeps
  <2>5. ASSUME NEW i \in 1..Len(replies'), IsOutput(replies[i])'
        PROVE  tx.pc # "upload"
    BY <2>1, <2>5, <1>8, <1>9 DEF TxAnswers, IsOutput
  <2> QED
    BY <2>3, <2>4, <2>5 DEF TxAnswers
<1>14. TxExpected'
  <2>1. Triggers' => Expected(stack.op)'
    BY <1>2, TakenKeeps DEF TxExpected, Expected
  <2> QED
    BY <2>1, TakenKeeps DEF TxExpected
<1> QED
  BY <1>4, <1>5, <1>10, <1>11, <1>12, <1>13, <1>14

\* What performing an access does to the registers.
LEMMA Performs ==
    ASSUME TxInv, NEW o \in Operations, Transaction!Perform(o)
    PROVE  /\ regs' \in [{"vme", "local"} -> Values] /\ seen' \in SUBSET Values
           /\ seen \subseteq seen'
           /\ call # NoAccess => regs'[call.reg] \in seen'
           /\ Transaction!Result(o) \in Values \cup {NoValue}
           /\ o.kind = "read" => Transaction!Result(o) = regs[o.reg]
           /\ o.kind = "write" => regs'[o.reg] = o.value
           /\ o.kind # "write" => UNCHANGED <<regs, seen>>
<1>1. CASE o.kind = "write"
  <2>1. o.reg \in {"vme", "local"} /\ o.value \in Values
    BY <1>1 DEF Operations, Transaction!Accesses, Transaction!Registers,
           GateRead, NoAccess
  <2>2. call # NoAccess => call.reg \in {"vme", "local"}
    BY DEF TxInv, TxTypes, Operations, Transaction!Accesses,
           Transaction!Registers, GateRead
  <2> QED
    BY <1>1, <2>1, <2>2 DEF TxInv, TxTypes, TxCalls, Transaction!Perform,
           Transaction!Result
<1>2. CASE o.kind # "write"
  <2>1. o.kind = "read" => o.reg \in {"vme", "local"}
    BY DEF Operations, Transaction!Accesses, Transaction!Registers,
           GateRead, NoAccess
  <2> QED
    BY <1>2, <2>1 DEF TxInv, TxTypes, TxCalls, Transaction!Perform,
           Transaction!Result
<1> QED
  BY <1>1, <1>2

\* The controller runs the stack it has in its memory.
LEMMA TxExecuted ==
    ASSUME TxInv, Taken, requests[1].kind = "execute", NEW bad \in BOOLEAN,
           NEW v, v = IF bad THEN NoValue ELSE Transaction!Result(stack.op),
           IF bad THEN UNCHANGED <<regs, seen>> ELSE Transaction!Perform(stack.op),
           Answered(<<Transaction!Frame("super", requests[1].ref, FALSE, NoValue),
                      Transaction!Frame("stack", stack.ref, bad, v)>>),
           UNCHANGED <<stack, call, late, tx, session>>
    PROVE  TxInv'
<1> USE DEF TxInv
<1>1. /\ replies' \in Seq(Frames) /\ Len(replies') >= Len(replies)
      /\ Len(replies) \in Nat /\ Len(replies') \in Nat
      /\ \A i \in 1..Len(replies) : replies'[i] = replies[i]
      /\ \A i \in 1..Len(replies') : i > Len(replies) =>
            \/ replies'[i] = [type |-> "super", ref |-> requests[1].ref,
                              bad |-> FALSE, value |-> NoValue]
            \/ replies'[i] = [type |-> "stack", ref |-> stack.ref,
                              bad |-> bad, value |-> v]
  <2>1. ASSUME NEW x, NEW y
        PROVE  \A k \in 1..Len(<<x, y>>) : <<x, y>>[k] = x \/ <<x, y>>[k] = y
    OBVIOUS
  <2>2. Len(replies) \in Nat /\ Len(replies') \in Nat
    BY DEF Answered, TxTypes
  <2> DEFINE a == Transaction!Frame("super", requests[1].ref, FALSE, NoValue)
             b == Transaction!Frame("stack", stack.ref, bad, v)
  <2>3. \A i \in 1..Len(replies') : i > Len(replies) =>
           \E k \in 1..Len(<<a, b>>) : replies'[i] = <<a, b>>[k]
    BY DEF Answered
  <2>4. \A k \in 1..Len(<<a, b>>) : <<a, b>>[k] = a \/ <<a, b>>[k] = b
    <3> HIDE DEF a, b
    <3> QED
      BY <2>1
  <2>5. \A i \in 1..Len(replies') : i > Len(replies) =>
           replies'[i] = a \/ replies'[i] = b
    <3> HIDE DEF a, b
    <3> QED
      BY <2>3, <2>4
  <2>6. /\ a = [type |-> "super", ref |-> requests[1].ref, bad |-> FALSE,
                value |-> NoValue]
        /\ b = [type |-> "stack", ref |-> stack.ref, bad |-> bad, value |-> v]
    BY DEF Transaction!Frame
  <2> HIDE DEF a, b
  <2> QED
    BY <2>2, <2>5, <2>6 DEF Answered
<1>2. requests[1].ref[1] = "op" /\ OwnRequest(requests[1])
      /\ requests[1].ref \in References
  BY TakenKeeps
<1>3. requests # <<>> /\ 1 \in 1..Len(requests) /\ Triggers
  BY DEF Taken, Triggers
<1>4. /\ regs' \in [{"vme", "local"} -> Values] /\ seen' \in SUBSET Values
      /\ seen \subseteq seen'
      /\ call # NoAccess => regs'[call.reg] \in seen'
      /\ (~bad /\ stack.op.kind = "read") => v = regs[stack.op.reg]
      /\ (~bad /\ stack.op.kind = "write") => regs'[stack.op.reg] = stack.op.value
  <2>1. CASE bad
    BY <2>1 DEF TxTypes, TxCalls
  <2>2. CASE ~bad
    BY <2>2, Performs DEF TxTypes
  <2> QED
    BY <2>1, <2>2
<1>5. TxTypes'
  BY <1>1, <1>4 DEF TxTypes, Taken
<1>6. TxCalls'
  BY <1>4 DEF TxCalls
<1>7. ASSUME NEW i \in 1..Len(replies'), i > Len(replies)
      PROVE  \/ replies'[i].type = "super" /\ replies'[i].ref = requests[1].ref
             \/ /\ replies'[i].type = "stack" /\ replies'[i].ref = stack.ref
                /\ replies'[i].bad = bad /\ replies'[i].value = v
  BY <1>7, <1>1
<1>8. ASSUME NEW i \in 1..Len(replies'), ~(i > Len(replies))
      PROVE  i \in 1..Len(replies) /\ replies'[i] = replies[i]
  BY <1>8, <1>1
<1>9. TxReferences'
  <2>1. stack.ref \in Nat
    BY DEF TxTypes
  <2>2. ASSUME NEW i \in 1..Len(replies')
        PROVE  OwnReply(replies[i])'
    <3>1. CASE i > Len(replies)
      BY <3>1, <1>7, <1>2, <1>3, <2>1 DEF OwnReply, OwnRequest, TxReferences
    <3>2. CASE ~(i > Len(replies))
      BY <3>2, <1>8 DEF TxReferences, OwnReply
    <3> QED
      BY <3>1, <3>2
  <2> QED
    BY <2>2, <1>3, TakenKeeps DEF TxReferences
<1>10. TxGate'
  <2>1. SUFFICES ASSUME session.stage = "gate"
                 PROVE  TxGate'
    BY DEF TxGate
  <2>2. tx.super[1] = "gate" /\ tx.pc # "idle"
    BY <2>1 DEF TxCalls
  <2>3. requests[1].ref # tx.super
    BY <2>2, <1>2
  <2>4. \A i \in 1..Len(replies) : ~IsMirror(replies[i])
    BY <2>1, <2>3, <1>3 DEF TxGate
  <2>5. \A i \in 1..Len(replies') : ~IsMirror(replies[i])'
    BY <2>3, <2>4, <1>7, <1>8 DEF IsMirror
  <2>6. tx.pc # "replied"
    BY <2>1, <2>3, <1>3 DEF TxGate
  <2> QED
    BY <2>1, <2>5, <2>6, TakenKeeps DEF TxGate
<1>11. TxCurrent'
  BY <1>3, TakenKeeps DEF TxCurrent, Taken
<1>12. TxAnswers'
  <2>1. SUFFICES ASSUME session.stage = "running"
                 PROVE  TxAnswers'
    BY DEF TxAnswers
  <2>2. tx.pc # "replied" /\ ~tx.gotStack
    BY <2>1, <1>3 DEF TxCurrent, TxAnswers
  <2>3. ASSUME NEW i \in 1..Len(replies'), IsMirror(replies[i])'
        PROVE  tx.pc \notin {"upload", "local"}
    <3>1. SUFFICES ASSUME tx.pc \in {"upload", "local"}
                   PROVE  FALSE
      OBVIOUS
    <3>2. i > Len(replies)
      BY <2>1, <1>3, <2>3, <3>1, <1>8 DEF TxAnswers, IsMirror
    <3>3. requests[1].ref = tx.super
      BY <3>2, <2>3, <1>7 DEF IsMirror
    <3> QED
      BY <3>3, <2>1, <3>1, TakenKeeps
  <2>4. ASSUME NEW i \in 1..Len(replies'), IsOutput(replies[i])'
        PROVE  tx.pc # "upload"
    <3>1. CASE i > Len(replies)
      <4>1. tx.pc = "upload" => stack.ref < tx.stackRef
        BY <2>1, <1>3 DEF TxCurrent
      <4>2. stack.ref = tx.stackRef /\ stack.ref \in Nat
        BY <3>1, <2>4, <1>7 DEF IsOutput, TxTypes
      <4> QED
        BY <4>1, <4>2
    <3>2. CASE ~(i > Len(replies))
      BY <3>2, <1>8, <2>1, <2>4 DEF TxAnswers, IsOutput
    <3> QED
      BY <3>1, <3>2
  <2>5. ASSUME NEW i \in 1..Len(replies'), IsOutput(replies[i])',
               tx.pc = "execute", ~replies'[i].bad
        PROVE  /\ requests' = <<>>
               /\ IF call.kind = "write" THEN regs'["vme"] = call.value
                                         ELSE replies'[i].value \in seen'
    <3>1. i > Len(replies)
      BY <2>1, <2>5, <1>3, <1>8 DEF TxAnswers, IsOutput
    <3>2. ~bad /\ replies'[i].value = v
      BY <3>1, <2>5, <1>7 DEF IsOutput
    <3>3. stack.op = call /\ requests' = <<>>
      BY <2>1, <2>5 DEF TxCurrent, Taken
    <3>4. call.reg = "vme" /\ call # NoAccess
      BY <2>5 DEF TxCalls, NoAccess
    <3>5. call.kind \in {"read", "write"}
      BY <2>1, <3>4 DEF TxCalls, Transaction!Accesses
    <3> QED
      BY <1>4, <3>2, <3>3, <3>4, <3>5 DEF TxCalls
  <2> QED
    BY <2>2, <2>3, <2>4, <2>5 DEF TxAnswers
<1>13. TxExpected'
  BY <1>3, TakenKeeps DEF TxExpected, Expected
<1> QED
  BY <1>5, <1>6, <1>9, <1>10, <1>11, <1>12, <1>13

\* The controller answers a local access.
LEMMA TxAccessed ==
    ASSUME TxInv, Taken, requests[1].kind = "local",
           NEW v, v = Transaction!Result(requests[1].op),
           Transaction!Perform(requests[1].op),
           Answered(<<Transaction!Frame("super", requests[1].ref, FALSE, v)>>),
           UNCHANGED <<stack, call, late, tx, session>>
    PROVE  TxInv'
<1> USE DEF TxInv
<1>1. /\ replies' \in Seq(Frames) /\ Len(replies') >= Len(replies)
      /\ Len(replies) \in Nat /\ Len(replies') \in Nat
      /\ \A i \in 1..Len(replies) : replies'[i] = replies[i]
      /\ \A i \in 1..Len(replies') : i > Len(replies) =>
            replies'[i] = [type |-> "super", ref |-> requests[1].ref,
                           bad |-> FALSE, value |-> v]
  <2>1. ASSUME NEW x
        PROVE  \A k \in 1..Len(<<x>>) : <<x>>[k] = x
    OBVIOUS
  <2>2. Len(replies) \in Nat /\ Len(replies') \in Nat
    BY DEF Answered, TxTypes
  <2> QED
    BY <2>1, <2>2 DEF Answered, Transaction!Frame
<1>2. OwnRequest(requests[1]) /\ requests[1].ref \in References
  BY TakenKeeps
<1>3. requests # <<>> /\ 1 \in 1..Len(requests)
  BY DEF Taken
<1>4. /\ regs' \in [{"vme", "local"} -> Values] /\ seen' \in SUBSET Values
      /\ seen \subseteq seen'
      /\ call # NoAccess => regs'[call.reg] \in seen'
      /\ requests[1].op.kind = "read" => v = regs[requests[1].op.reg]
      /\ requests[1].op.kind = "write" =>
            regs'[requests[1].op.reg] = requests[1].op.value
  <2>1. requests[1].op \in Operations
    BY DEF Taken, Requests
  <2> QED
    BY <2>1, Performs
<1>5. TxTypes'
  BY <1>1, <1>4 DEF TxTypes, Taken
<1>6. TxCalls'
  BY <1>4 DEF TxCalls
<1>7. ASSUME NEW i \in 1..Len(replies'), i > Len(replies)
      PROVE  /\ replies'[i].type = "super" /\ replies'[i].ref = requests[1].ref
             /\ replies'[i].value = v
  BY <1>7, <1>1
<1>8. ASSUME NEW i \in 1..Len(replies'), ~(i > Len(replies))
      PROVE  i \in 1..Len(replies) /\ replies'[i] = replies[i]
  BY <1>8, <1>1
<1>9. TxReferences'
  <2>1. ASSUME NEW i \in 1..Len(replies')
        PROVE  OwnReply(replies[i])'
    <3>1. CASE i > Len(replies)
      BY <3>1, <1>7, <1>2 DEF OwnReply, OwnRequest
    <3>2. CASE ~(i > Len(replies))
      BY <3>2, <1>8 DEF TxReferences, OwnReply
    <3> QED
      BY <3>1, <3>2
  <2> QED
    BY <2>1, TakenKeeps DEF TxReferences
<1>10. TxGate'
  <2>1. SUFFICES ASSUME session.stage = "gate"
                 PROVE  TxGate'
    BY DEF TxGate
  <2>2. tx.super[1] = "gate" /\ tx.pc # "idle" /\ call = GateRead
        /\ call # NoAccess
    BY <2>1 DEF TxCalls, GateRead, NoAccess
  <2>3. CASE requests[1].ref # tx.super
    <3>1. \A i \in 1..Len(replies) : ~IsMirror(replies[i])
      BY <2>1, <2>3, <1>3 DEF TxGate
    <3>2. \A i \in 1..Len(replies') : ~IsMirror(replies[i])'
      BY <2>3, <3>1, <1>7, <1>8 DEF IsMirror
    <3>3. tx.pc # "replied"
      BY <2>1, <2>3, <1>3 DEF TxGate
    <3> QED
      BY <2>1, <3>2, <3>3, TakenKeeps DEF TxGate
  <2>4. CASE requests[1].ref = tx.super
    <3>1. requests[1].op = GateRead
      BY <2>2, <2>4, <1>2 DEF OwnRequest
    <3>2. v \in seen /\ v \in seen'
      BY <3>1, <2>2, <1>4 DEF TxCalls, GateRead
    <3>3. \A j \in 1..Len(requests') : requests'[j].ref = tx.super
      BY <2>1, <2>4, TakenKeeps
    <3>4. ASSUME NEW i \in 1..Len(replies'), NEW j \in 1..Len(replies'),
                 i <= j, IsMirror(replies[i])'
          PROVE  IsMirror(replies[j])'
      <4>1. CASE j > Len(replies)
        BY <4>1, <1>7, <2>2, <2>4 DEF IsMirror
      <4>2. CASE ~(j > Len(replies))
        <5>1. i \in 1..Len(replies) /\ j \in 1..Len(replies)
              /\ replies'[i] = replies[i] /\ replies'[j] = replies[j]
          BY <4>2, <3>4, <1>8, <1>1
        <5> QED
          BY <5>1, <3>4, <2>1 DEF TxGate, IsMirror
      <4> QED
        BY <4>1, <4>2
    <3>5. ASSUME NEW i \in 1..Len(replies'), IsMirror(replies[i])'
          PROVE  replies'[i].value \in seen'
      <4>1. CASE i > Len(replies)
        BY <4>1, <1>7, <3>2
      <4>2. CASE ~(i > Len(replies))
        BY <4>2, <1>8, <3>5, <2>1, <1>4 DEF TxGate, IsMirror
      <4> QED
        BY <4>1, <4>2
    <3>6. ASSUME tx.pc = "replied", NEW i \in 1..Len(replies')
          PROVE  IsMirror(replies[i])'
      <4>1. CASE i > Len(replies)
        BY <4>1, <1>7, <2>2, <2>4 DEF IsMirror
      <4>2. CASE ~(i > Len(replies))
        BY <4>2, <1>8, <3>6, <2>1 DEF TxGate, IsMirror
      <4> QED
        BY <4>1, <4>2
    <3>7. tx.pc = "replied" => tx.value \in seen'
      BY <2>1, <1>4 DEF TxGate
    <3> QED
      BY <2>1, <3>3, <3>4, <3>5, <3>6, <3>7, TakenKeeps DEF TxGate
  <2> QED
    BY <2>3, <2>4
<1>11. TxCurrent'
  BY <1>3, TakenKeeps DEF TxCurrent, Taken
<1>12. TxAnswers'
  <2>1. SUFFICES ASSUME session.stage = "running"
                 PROVE  TxAnswers'
    BY DEF TxAnswers
  <2>2. tx.pc \notin {"execute", "replied"} /\ ~tx.gotStack
    BY <2>1, <1>3 DEF TxCurrent, TxAnswers
  <2>3. ASSUME NEW i \in 1..Len(replies'), IsMirror(replies[i])',
               tx.pc \in {"upload", "local"}
        PROVE  requests' = <<>> /\ tx.pc = "local" /\ requests[1].op = call
    <3>1. i > Len(replies)
      BY <2>1, <1>3, <2>3, <1>8 DEF TxAnswers, IsMirror
    <3>2. requests[1].ref = tx.super
      BY <3>1, <2>3, <1>7 DEF IsMirror
    <3> QED
      BY <3>2, <2>1, <2>3, TakenKeeps
  <2>4. ASSUME NEW i \in 1..Len(replies'), IsOutput(replies[i])'
        PROVE  tx.pc # "upload"
    BY <2>1, <2>4, <1>7, <1>8 DEF TxAnswers, IsOutput
  <2>5. (tx.pc = "local" /\ requests[1].op = call) => regs'["local"] = call.value
    BY <2>1, <1>4 DEF TxCalls
  <2> QED
    BY <2>2, <2>3, <2>4, <2>5 DEF TxAnswers
<1>13. TxExpected'
  BY TakenKeeps DEF TxExpected, Expected
<1> QED
  BY <1>5, <1>6, <1>9, <1>10, <1>11, <1>12, <1>13

\* The controller takes the oldest request.
LEMMA TxController ==
    ASSUME TxInv, Transaction!Controller
    PROVE  TxInv'
<1>1. /\ requests # <<>> /\ Taken /\ Head(requests) = requests[1]
      /\ UNCHANGED <<call, late, tx, session>>
  BY TakesOldest DEF Transaction!Controller, Taken
<1>2. /\ requests[1].ref \in References /\ stack.ref \in Nat
      /\ requests[1].op \in Operations /\ stack.op \in Operations
      /\ replies \in Seq(Frames)
  BY <1>1 DEF Taken, Requests, TxInv, TxTypes
<1>3. ASSUME NEW f \in Frames, NEW g \in Frames
      PROVE  <<f>> \in Seq(Frames) /\ <<f, g>> \in Seq(Frames)
  OBVIOUS
<1>4. CASE requests[1].kind = "upload"
  <2>1. PICK bad \in BOOLEAN :
           /\ stack' = IF bad THEN stack ELSE [ref |-> requests[1].stackRef,
                                               op |-> requests[1].op]
           /\ Transaction!Answer(<<Transaction!Frame("super", requests[1].ref,
                                                     bad, NoValue)>>)
           /\ UNCHANGED <<regs, seen>>
    BY <1>1, <1>4 DEF Transaction!Controller
  <2>2. Transaction!Frame("super", requests[1].ref, bad, NoValue) \in Frames
    BY <1>2 DEF Transaction!Frame, Frames
  <2>3. Answered(<<Transaction!Frame("super", requests[1].ref, bad, NoValue)>>)
    BY <1>2, <1>3, <2>1, <2>2, AnswerAppends
  <2> QED
    BY <1>1, <1>4, <2>1, <2>3, TxUploaded
<1>5. CASE requests[1].kind = "execute"
  <2>1. PICK bad \in BOOLEAN :
           /\ IF bad THEN UNCHANGED <<regs, seen>>
                     ELSE Transaction!Perform(stack.op)
           /\ Transaction!Answer(
                 <<Transaction!Frame("super", requests[1].ref, FALSE, NoValue),
                   Transaction!Frame("stack", stack.ref, bad,
                       IF bad THEN NoValue ELSE Transaction!Result(stack.op))>>)
           /\ UNCHANGED stack
    BY <1>1, <1>5 DEF Transaction!Controller
  <2>2. PICK v : v = IF bad THEN NoValue ELSE Transaction!Result(stack.op)
    OBVIOUS
  <2>3. v \in Values \cup {NoValue}
    BY <1>2, <2>1, <2>2, Performs
  <2>4. /\ Transaction!Frame("super", requests[1].ref, FALSE, NoValue) \in Frames
        /\ Transaction!Frame("stack", stack.ref, bad, v) \in Frames
    BY <1>2, <2>3 DEF Transaction!Frame, Frames
  <2>5. Answered(<<Transaction!Frame("super", requests[1].ref, FALSE, NoValue),
                   Transaction!Frame("stack", stack.ref, bad, v)>>)
    BY <1>2, <1>3, <2>1, <2>2, <2>4, AnswerAppends
  <2> QED
    BY <1>1, <1>5, <2>1, <2>2, <2>5, TxExecuted
<1>6. CASE requests[1].kind = "local"
  <2>1. /\ Transaction!Perform(requests[1].op)
        /\ Transaction!Answer(<<Transaction!Frame("super", requests[1].ref, FALSE,
                                    Transaction!Result(requests[1].op))>>)
        /\ UNCHANGED stack
    BY <1>1, <1>6 DEF Transaction!Controller
  <2>2. Transaction!Result(requests[1].op) \in Values \cup {NoValue}
    BY <1>2, <2>1, Performs
  <2>3. Transaction!Frame("super", requests[1].ref, FALSE,
                          Transaction!Result(requests[1].op)) \in Frames
    BY <1>2, <2>2 DEF Transaction!Frame, Frames
  <2>4. Answered(<<Transaction!Frame("super", requests[1].ref, FALSE,
                                     Transaction!Result(requests[1].op))>>)
    BY <1>2, <1>3, <2>1, <2>3, AnswerAppends
  <2> QED
    BY <1>1, <1>6, <2>1, <2>4, TxAccessed
<1> QED
  BY <1>1, <1>4, <1>5, <1>6 DEF Transaction!Controller

\* The replies that remain are some of those before.
Fewer(left) ==
    /\ left \in Seq(Frames)
    /\ \A i \in 1..Len(left) : \E j \in 1..Len(replies) : left[i] = replies[j]

\* The client takes the oldest reply, or none.
LEMMA TakesReply ==
    ASSUME replies \in Seq(Frames)
    PROVE  /\ Fewer(replies)
           /\ replies # <<>> =>
                 /\ Fewer(Tail(replies)) /\ Len(replies) \in Nat
                 /\ 1 \in 1..Len(replies) /\ Head(replies) = replies[1]
                 /\ Len(Tail(replies)) = Len(replies) - 1
                 /\ \A i \in 1..Len(Tail(replies)) :
                       Tail(replies)[i] = replies[i + 1] /\ i + 1 \in 1..Len(replies)
BY QueueTail DEF Fewer

\* A datagram for another request is skipped.
LEMMA TxSkip ==
    ASSUME TxInv, replies # <<>>, tx.pc # "idle", Transaction!Skip
    PROVE  TxInv'
<1> USE DEF TxInv
<1>1. /\ tx \in Transactions /\ tx' = [tx EXCEPT !.datagrams = @ + 1]
      /\ replies' = Tail(replies)
      /\ UNCHANGED <<regs, call, seen, late, requests, stack, session>>
  BY DEF Transaction!Skip, TxTypes
<1>2. /\ tx' \in Transactions
      /\ tx'.pc = tx.pc /\ tx'.super = tx.super /\ tx'.stackRef = tx.stackRef
      /\ tx'.gotStack = tx.gotStack /\ tx'.value = tx.value
  BY <1>1 DEF Transactions
<1>3. /\ replies' \in Seq(Frames)
      /\ \A i \in 1..Len(replies') :
            replies'[i] = replies[i + 1] /\ i + 1 \in 1..Len(replies) /\ i \in Nat
  BY <1>1, TakesReply DEF TxTypes, Fewer
<1>4. ASSUME NEW i \in 1..Len(replies')
      PROVE  /\ IsMirror(replies[i])' => IsMirror(replies[i + 1])
             /\ IsMirror(replies[i + 1]) => IsMirror(replies[i])'
             /\ IsOutput(replies[i])' => IsOutput(replies[i + 1])
  BY <1>2, <1>3 DEF IsMirror, IsOutput
<1>5. TxTypes'
  BY <1>1, <1>2, <1>3 DEF TxTypes
<1>6. TxCalls'
  BY <1>1, <1>2 DEF TxCalls, Transaction!NoTx
<1>7. TxReferences'
  <2>1. \A i \in 1..Len(requests') : OwnRequest(requests[i])'
    BY <1>1 DEF TxReferences, OwnRequest
  <2>2. \A i \in 1..Len(replies') : OwnReply(replies[i])'
    BY <1>1, <1>3 DEF TxReferences, OwnReply
  <2> QED
    BY <1>1, <2>1, <2>2 DEF TxReferences, Triggers
<1>8. TxGate'
  <2>1. SUFFICES ASSUME session.stage = "gate"
                 PROVE  TxGate'
    BY <1>1 DEF TxGate
  <2>2. GateIsLast'
    BY <1>1, <1>2, <2>1 DEF TxGate, GateIsLast
  <2>3. ASSUME NEW i \in 1..Len(replies'), NEW j \in 1..Len(replies'),
               i <= j, IsMirror(replies[i])'
        PROVE  IsMirror(replies[j])'
    <3>1. i + 1 \in 1..Len(replies) /\ j + 1 \in 1..Len(replies) /\ i + 1 <= j + 1
      BY <1>3, <2>3
    <3> QED
      BY <3>1, <2>1, <2>3, <1>4 DEF TxGate
  <2>4. ASSUME NEW i \in 1..Len(replies'), IsMirror(replies[i])'
        PROVE  /\ replies'[i].value \in seen'
               /\ \A j \in 1..Len(requests') : requests'[j].ref = tx'.super
    BY <2>1, <2>4, <1>1, <1>2, <1>3, <1>4 DEF TxGate
  <2>5. tx'.pc = "replied" =>
              /\ tx'.value \in seen'
              /\ \A i \in 1..Len(replies') : IsMirror(replies[i])'
              /\ \A j \in 1..Len(requests') : requests'[j].ref = tx'.super
    BY <2>1, <1>1, <1>2, <1>3, <1>4 DEF TxGate
  <2> QED
    BY <2>2, <2>3, <2>4, <2>5 DEF TxGate
<1>9. TxCurrent'
  BY <1>1, <1>2 DEF TxCurrent, CurrentIsLast, Triggers
<1>10. TxAnswers'
  BY <1>1, <1>2, <1>3, <1>4 DEF TxAnswers
<1>11. TxExpected'
  BY <1>1 DEF TxExpected, Expected, Triggers
<1> QED
  BY <1>5, <1>6, <1>7, <1>8, <1>9, <1>10, <1>11

\* The counters of a session.
LEMMA SessionCounts ==
    ASSUME NEW r \in Sessions, NEW a \in Nat, NEW b \in Nat, NEW c \in Nat
    PROVE  [r EXCEPT !.nextSuper = a, !.nextStack = b, !.calls = c] \in Sessions
BY DEF Sessions

\* The counters of a session whose access is a local one.
LEMMA SessionAdvances ==
    ASSUME NEW r \in Sessions, NEW a \in Nat, NEW b \in Nat
    PROVE  [r EXCEPT !.nextSuper = a, !.calls = b] \in Sessions
BY DEF Sessions

\* A transaction whose request is sent again.
LEMMA TransactionRepeats ==
    ASSUME NEW t \in Transactions, NEW a \in Nat
    PROVE  [t EXCEPT !.attempt = a, !.datagrams = 0] \in Transactions
BY DEF Transactions

\* What a transaction has received.
LEMMA TransactionAdvances ==
    ASSUME NEW t \in Transactions, NEW s \in BOOLEAN, NEW g \in BOOLEAN,
           NEW d \in Nat, NEW v \in Values \cup {NoValue}
    PROVE  [t EXCEPT !.gotSuper = s, !.gotStack = g, !.datagrams = d, !.value = v]
              \in Transactions
BY DEF Transactions

\* The counters of a session whose operation begins.
LEMMA SessionOpens ==
    ASSUME NEW r \in Sessions, NEW a \in Nat, NEW b \in Nat
    PROVE  [r EXCEPT !.stage = "gate", !.operations = a, !.calls = 0,
                     !.nextRead = b, !.nextSuper = 0, !.nextStack = 0] \in Sessions
BY DEF Sessions

\* A new attempt: its references are new and its upload is the last request.
LEMMA TxAttempt ==
    ASSUME TxInv, session.stage = "running",
           NEW o \in Transaction!Accesses, o.reg = "vme", NEW n \in Nat,
           Transaction!Attempt(n, o), call \in {o, NoAccess}, call' = o,
           Fewer(replies'), regs["vme"] \in seen', seen' \in SUBSET Values,
           UNCHANGED <<regs, late>>
    PROVE  TxInv'
<1> USE DEF TxInv
<1> DEFINE q == Transaction!Upload(Transaction!OpRef(session.nextSuper),
                                   session.nextStack, o)
<1>1. /\ session \in Sessions /\ requests \in Seq(Requests) /\ o \in Operations
      /\ session.nextSuper \in Nat /\ session.nextStack \in Nat
  BY DEF TxTypes, Sessions, Operations
<1>2. /\ q \in Requests /\ q.kind = "upload" /\ q.op = o
      /\ q.ref = <<"op", session.nextSuper>> /\ q.stackRef = session.nextStack
      /\ q.ref[1] = "op" /\ q.ref[2] = session.nextSuper
  BY <1>1 DEF Transaction!Upload, Transaction!OpRef, Requests, References
<1>3. /\ requests' = Append(requests, q) /\ UNCHANGED stack
      /\ tx' = [Transaction!NoTx EXCEPT !.pc = "upload", !.attempt = n,
                 !.super = Transaction!OpRef(session.nextSuper),
                 !.stackRef = session.nextStack]
      /\ session' = [session EXCEPT !.nextSuper = @ + 1, !.nextStack = @ + 1,
                      !.calls = IF n = 1 THEN @ + 1 ELSE @]
  BY DEF Transaction!Attempt
<1>4. /\ tx' \in Transactions /\ tx'.pc = "upload" /\ ~tx'.gotStack
      /\ tx'.super = <<"op", session.nextSuper>>
      /\ tx'.stackRef = session.nextStack
  BY <1>1, <1>3 DEF Transactions, Transaction!NoTx, Transaction!OpRef, References
<1>5. /\ session' \in Sessions /\ session'.stage = "running"
      /\ session'.nextRead = session.nextRead
      /\ session'.nextSuper = session.nextSuper + 1
      /\ session'.nextStack = session.nextStack + 1
  <2>1. PICK c : c = IF n = 1 THEN session.calls + 1 ELSE session.calls
    OBVIOUS
  <2>2. c \in Nat
    BY <2>1, <1>1 DEF Sessions
  <2>3. session' = [session EXCEPT !.nextSuper = session.nextSuper + 1,
                      !.nextStack = session.nextStack + 1, !.calls = c]
    BY <1>1, <1>3, <2>1 DEF Sessions
  <2> QED
    <3>1. /\ session'.stage = session.stage /\ session'.nextRead = session.nextRead
          /\ session'.nextSuper = session.nextSuper + 1
          /\ session'.nextStack = session.nextStack + 1
      BY <1>1, <2>3 DEF Sessions
    <3>2. session' \in Sessions
      <4>1. session.nextSuper + 1 \in Nat /\ session.nextStack + 1 \in Nat
        BY <1>1
      <4>2. [session EXCEPT !.nextSuper = session.nextSuper + 1,
                !.nextStack = session.nextStack + 1, !.calls = c] \in Sessions
        BY <1>1, <2>2, <4>1, SessionCounts, Zenon
      <4> QED
        BY <2>3, <4>2, Zenon
    <3> QED
      BY <3>1, <3>2
<1> HIDE DEF q
<1>6. /\ Len(requests) \in Nat /\ requests' \in Seq(Requests)
      /\ Len(requests') = Len(requests) + 1
      /\ \A i \in 1..Len(requests) : requests'[i] = requests[i]
      /\ requests'[Len(requests) + 1] = q
  BY <1>1, <1>2, <1>3, QueueAppend
<1>7. ASSUME NEW i \in 1..Len(requests)
      PROVE  /\ requests[i] \in Requests /\ OwnRequest(requests[i])
             /\ requests[i].ref # tx'.super
             /\ requests[i].kind = "upload" => requests[i].stackRef < session.nextStack
  <2>1. requests[i] \in Requests /\ OwnRequest(requests[i])
    BY <1>1, <1>7 DEF TxReferences
  <2>2. requests[i].ref[1] \in {"gate", "op"} /\ requests[i].ref[2] \in Nat
    BY <2>1 DEF Requests, References
  <2> QED
    BY <2>1, <2>2, <1>1, <1>4 DEF OwnRequest
<1>8. ASSUME NEW i \in 1..Len(replies')
      PROVE  /\ OwnReply(replies[i])' /\ ~IsMirror(replies[i])'
             /\ ~IsOutput(replies[i])'
  <2>1. PICK j \in 1..Len(replies) : replies'[i] = replies[j]
    BY DEF Fewer
  <2>2. OwnReply(replies[j])
    BY DEF TxReferences
  <2>3. OwnReply(replies[i])'
    BY <2>1, <2>2, <1>1, <1>5, SMTT(40) DEF OwnReply, References
  <2>4. ~IsMirror(replies[i])'
    BY <2>1, <2>2, <1>1, <1>4 DEF OwnReply, IsMirror
  <2>5. ~IsOutput(replies[i])'
    BY <2>1, <2>2, <1>1, <1>4 DEF OwnReply, IsOutput
  <2> QED
    BY <2>3, <2>4, <2>5
<1>9. Triggers' => Triggers
  BY <1>2, <1>6 DEF Triggers
<1>10. TxTypes'
  BY <1>1, <1>3, <1>4, <1>5, <1>6 DEF TxTypes, Fewer
<1>11. TxCalls'
  <2>1. o # NoAccess
    BY DEF NoAccess
  <2> QED
    BY <2>1, <1>1, <1>4, <1>5 DEF TxCalls
<1>12. TxReferences'
  <2>1. ASSUME NEW i \in 1..Len(requests')
        PROVE  OwnRequest(requests[i])'
    <3>1. CASE i \in 1..Len(requests)
      <4>1. requests[i].ref[2] \in Nat /\ requests[i].stackRef \in Nat
        BY <3>1, <1>7 DEF Requests, References
      <4> QED
        <5>1. requests'[i] = requests[i] /\ OwnRequest(requests[i])
          BY <3>1, <1>6, <1>7
        <5> QED
          BY <5>1, <4>1, <1>1, <1>5, SMTT(40) DEF OwnRequest
    <3>2. CASE i = Len(requests) + 1
      BY <3>2, <1>1, <1>2, <1>5, <1>6 DEF OwnRequest
    <3> QED
      BY <3>1, <3>2, <1>6
  <2>2. Triggers' => stack'.ref < session'.nextStack
    BY <1>1, <1>3, <1>5, <1>9 DEF TxReferences, TxTypes
  <2> QED
    BY <2>1, <2>2, <1>8 DEF TxReferences
<1>13. TxGate'
  BY <1>5 DEF TxGate
<1>14. TxCurrent'
  <2>1. CurrentIsLast'
    BY <1>2, <1>4, <1>6, <1>7 DEF CurrentIsLast
  <2>2. Triggers' => stack'.ref < tx'.stackRef
    BY <1>3, <1>4, <1>9 DEF TxReferences
  <2> QED
    BY <2>1, <2>2, <1>4 DEF TxCurrent
<1>15. TxAnswers'
  BY <1>4, <1>8 DEF TxAnswers
<1>16. TxExpected'
  <2>1. ASSUME NEW p, Expected(p)
        PROVE  Expected(p)'
    BY <2>1 DEF Expected, NoAccess
  <2>2. ASSUME NEW i \in 1..Len(requests'), requests'[i].kind # "execute"
        PROVE  Expected(requests[i].op)'
    <3>1. CASE i \in 1..Len(requests)
      BY <3>1, <2>1, <2>2, <1>6 DEF TxExpected, Expected
    <3>2. CASE i = Len(requests) + 1
      BY <3>2, <1>2, <1>6 DEF Expected
    <3> QED
      BY <3>1, <3>2, <1>6
  <2>3. Triggers' => Expected(stack.op)'
    BY <2>1, <1>3, <1>9 DEF TxExpected, Expected
  <2>4. call' # NoAccess
    BY DEF NoAccess
  <2> QED
    BY <2>2, <2>3, <2>4 DEF TxExpected
<1> QED
  BY <1>10, <1>11, <1>12, <1>13, <1>14, <1>15, <1>16

\* A call fails; its write may still happen.
LEMMA TxFail ==
    ASSUME TxInv, call # NoAccess, NEW left, Fewer(left), Transaction!Fail(left)
    PROVE  TxInv'
<1> USE DEF TxInv
<1>1. /\ late' = IF call.kind = "write" THEN late \cup {<<call.reg, call.value>>}
                                          ELSE late
      /\ call' = NoAccess /\ seen' = {} /\ tx' = Transaction!NoTx
      /\ session \in Sessions /\ session' = [session EXCEPT !.stage = "idle"]
      /\ replies' = left /\ UNCHANGED <<regs, requests, stack>>
  BY DEF Transaction!Fail, Transaction!NoCall, Transaction!Access!NoCall,
         NoAccess, TxTypes
<1>2. /\ session' \in Sessions /\ session'.stage = "idle"
      /\ session'.nextRead = session.nextRead
  BY <1>1 DEF Sessions
<1>3. tx' \in Transactions /\ tx'.pc = "idle" /\ ~tx'.gotStack
  BY <1>1 DEF Transactions, Transaction!NoTx
<1>4. call.kind = "write" => call.reg \in {"vme", "local"} /\ call.value \in Values
  BY DEF TxTypes, Operations, Transaction!Accesses, Transaction!Registers,
         GateRead, NoAccess
<1>5. TxTypes'
  <2>1. late' \in SUBSET ({"vme", "local"} \X Values)
    BY <1>1, <1>4 DEF TxTypes
  <2>2. call' \in Operations
    BY <1>1 DEF Operations
  <2> QED
    BY <2>1, <2>2, <1>1, <1>2, <1>3 DEF TxTypes, Fewer
<1>6. TxCalls'
  BY <1>1, <1>2, <1>3 DEF TxCalls
<1>7. TxReferences'
  <2>1. \A i \in 1..Len(requests') : OwnRequest(requests[i])'
    BY <1>1, <1>2 DEF TxReferences, OwnRequest
  <2>2. ASSUME NEW i \in 1..Len(replies')
        PROVE  OwnReply(replies[i])'
    <3>1. PICK j \in 1..Len(replies) : replies'[i] = replies[j]
      BY <1>1 DEF Fewer
    <3> QED
      BY <3>1, <1>2 DEF TxReferences, OwnReply
  <2> QED
    BY <2>1, <2>2, <1>2 DEF TxReferences
<1>8. TxGate' /\ TxCurrent' /\ TxAnswers'
  BY <1>2 DEF TxGate, TxCurrent, TxAnswers
<1>9. TxExpected'
  <2>1. ASSUME NEW p, Expected(p)
        PROVE  Expected(p)'
    BY <2>1, <1>1 DEF Expected
  <2>2. ASSUME NEW i \in 1..Len(requests'), requests'[i].kind # "execute"
        PROVE  Expected(requests[i].op)'
    BY <2>1, <2>2, <1>1 DEF TxExpected, Expected
  <2>3. Triggers' => Expected(stack.op)'
    BY <2>1, <1>1 DEF TxExpected, Triggers, Expected
  <2> QED
    BY <2>2, <2>3, <1>2 DEF TxExpected
<1> QED
  BY <1>5, <1>6, <1>7, <1>8, <1>9

\* A call succeeds: nothing that can write is under way.
LEMMA TxSucceed ==
    ASSUME TxInv, Transaction!Succeed,
           \/ session.stage = "running" /\ requests = <<>>
           \/ session.stage = "gate" /\ tx.pc = "replied"
    PROVE  TxInv'
<1> USE DEF TxInv
<1>1. /\ call' = NoAccess /\ seen' = {} /\ late' = {} /\ tx' = Transaction!NoTx
      /\ session \in Sessions
      /\ session' = IF session.stage = "gate"
                    THEN [session EXCEPT !.stage = "running"] ELSE session
      /\ UNCHANGED <<regs, requests, replies, stack>>
  BY DEF Transaction!Succeed, Transaction!NoCall, Transaction!Access!NoCall,
         NoAccess, TxTypes, Transaction!net
<1>2. /\ session' \in Sessions /\ session'.stage = "running"
      /\ session'.nextRead = session.nextRead
      /\ session'.nextSuper = session.nextSuper
      /\ session'.nextStack = session.nextStack
  BY <1>1 DEF Sessions
<1>3. tx' \in Transactions /\ tx'.pc = "idle" /\ ~tx'.gotStack
  BY <1>1 DEF Transactions, Transaction!NoTx
<1>4. ASSUME NEW i \in 1..Len(requests)
      PROVE  /\ OwnRequest(requests[i]) /\ requests[i].ref[1] = "gate"
             /\ requests[i].kind = "local" /\ requests[i].op = GateRead
  <2>1. session.stage = "gate" /\ tx.pc = "replied"
    BY <1>4 DEF TxTypes
  <2>2. requests[i].ref = tx.super /\ tx.super[1] = "gate"
    BY <2>1 DEF TxGate, TxCalls
  <2> QED
    BY <2>2 DEF TxReferences, OwnRequest
<1>5. ASSUME NEW i \in 1..Len(replies)
      PROVE  OwnReply(replies[i])'
  <2>1. OwnReply(replies[i])
    BY DEF TxReferences
  <2>2. CASE session.stage = "running"
    BY <2>1, <2>2, <1>1, <1>2 DEF OwnReply
  <2>3. CASE session.stage = "gate" /\ tx.pc = "replied"
    <3>1. replies[i].type = "super" /\ replies[i].ref[1] = "gate"
      BY <2>3 DEF TxGate, TxCalls, IsMirror
    <3> QED
      BY <2>1, <3>1, <1>1, <1>2 DEF OwnReply
  <2> QED
    BY <2>2, <2>3
<1>6. ~Triggers'
  BY <1>1, <1>4 DEF Triggers
<1>7. TxTypes'
  BY <1>1, <1>2, <1>3 DEF TxTypes, Operations
<1>8. TxCalls'
  BY <1>1, <1>2, <1>3 DEF TxCalls
<1>9. TxReferences'
  <2>1. \A i \in 1..Len(requests') : OwnRequest(requests[i])'
    BY <1>1, <1>2, <1>4 DEF OwnRequest
  <2> QED
    BY <2>1, <1>1, <1>5, <1>6 DEF TxReferences
<1>10. TxGate' /\ TxCurrent' /\ TxAnswers'
  BY <1>2, <1>3 DEF TxGate, TxCurrent, TxAnswers, IsMirror, IsOutput
<1>11. TxExpected'
  BY <1>1, <1>4, <1>6 DEF TxExpected, Expected, GateRead
<1> QED
  BY <1>7, <1>8, <1>9, <1>10, <1>11

\* An operation begins with its gate.
LEMMA TxBeginOperation ==
    ASSUME TxInv, Transaction!BeginOperation
    PROVE  TxInv'
<1> USE DEF TxInv
<1> DEFINE q == Transaction!Local(Transaction!GateRef(session.nextRead), GateRead)
<1>1. /\ call = NoAccess /\ session.stage = "idle" /\ call' = GateRead
      /\ seen' = {regs["local"]} /\ requests' = Append(requests, q)
      /\ tx' = [Transaction!NoTx EXCEPT !.pc = "local", !.attempt = 1,
                          !.super = Transaction!GateRef(session.nextRead)]
      /\ session' = [session EXCEPT !.stage = "gate", !.operations = @ + 1,
                      !.calls = 0, !.nextRead = @ + 1,
                      !.nextSuper = 0, !.nextStack = 0]
      /\ UNCHANGED <<regs, late, replies, stack>>
  BY DEF Transaction!BeginOperation, Transaction!Idle, Transaction!NoCall,
         Transaction!Access!NoCall, NoAccess, GateRead
<1>2. /\ session \in Sessions /\ session.nextRead \in Nat
      /\ requests \in Seq(Requests) /\ GateRead \in Operations
      /\ regs["local"] \in Values
  BY DEF TxTypes, Sessions, Operations
<1>3. /\ q \in Requests /\ q.kind = "local" /\ q.op = GateRead
      /\ q.ref = <<"gate", session.nextRead>>
      /\ q.ref[1] = "gate" /\ q.ref[2] = session.nextRead
  BY <1>2 DEF Transaction!Local, Transaction!GateRef, Requests, References,
         Operations, Transaction!NoCall, Transaction!Access!NoCall
<1>4. /\ tx' \in Transactions /\ tx'.pc = "local" /\ ~tx'.gotStack
      /\ tx'.super = <<"gate", session.nextRead>>
  BY <1>1, <1>2 DEF Transactions, Transaction!NoTx, Transaction!GateRef, References
<1>5. /\ session' \in Sessions /\ session'.stage = "gate"
      /\ session'.nextRead = session.nextRead + 1
  <2>1. session.operations + 1 \in Nat /\ session.nextRead + 1 \in Nat
    BY <1>2 DEF Sessions
  <2>2. session' = [session EXCEPT !.stage = "gate",
                      !.operations = session.operations + 1,
                      !.calls = 0, !.nextRead = session.nextRead + 1,
                      !.nextSuper = 0, !.nextStack = 0]
    BY <1>1, <1>2 DEF Sessions
  <2>3. session' \in Sessions
    BY <1>2, <2>1, <2>2, SessionOpens, Zenon
  <2>4. session'.stage = "gate" /\ session'.nextRead = session.nextRead + 1
    BY <1>2, <2>2 DEF Sessions
  <2> QED
    BY <2>3, <2>4
<1> HIDE DEF q
<1>6. /\ Len(requests) \in Nat /\ requests' \in Seq(Requests)
      /\ Len(requests') = Len(requests) + 1
      /\ \A i \in 1..Len(requests) : requests'[i] = requests[i]
      /\ requests'[Len(requests) + 1] = q
  BY <1>1, <1>2, <1>3, QueueAppend
<1>7. ASSUME NEW i \in 1..Len(requests)
      PROVE  /\ requests[i] \in Requests /\ OwnRequest(requests[i])
             /\ requests[i].ref # tx'.super /\ requests[i].ref[2] \in Nat
  <2>1. requests[i] \in Requests /\ OwnRequest(requests[i])
    BY <1>2, <1>7 DEF TxReferences
  <2>2. requests[i].ref[1] \in {"gate", "op"} /\ requests[i].ref[2] \in Nat
    BY <2>1 DEF Requests, References
  <2> QED
    BY <2>1, <2>2, <1>2, <1>4 DEF OwnRequest
<1>8. ASSUME NEW i \in 1..Len(replies)
      PROVE  OwnReply(replies[i])' /\ ~IsMirror(replies[i])'
  <2>1. OwnReply(replies[i])
    BY DEF TxReferences
  <2>2. OwnReply(replies[i])'
    BY <2>1, <1>1, <1>2, <1>5 DEF OwnReply, References
  <2>3. ~IsMirror(replies[i])'
    BY <2>1, <1>1, <1>2, <1>4 DEF OwnReply, IsMirror
  <2> QED
    BY <2>2, <2>3
<1>9. Triggers' => Triggers
  BY <1>3, <1>6 DEF Triggers
<1>10. TxTypes'
  BY <1>1, <1>2, <1>4, <1>5, <1>6 DEF TxTypes
<1>11. TxCalls'
  BY <1>1, <1>2, <1>4, <1>5 DEF TxCalls, GateRead, NoAccess
<1>12. TxReferences'
  <2>1. ASSUME NEW i \in 1..Len(requests')
        PROVE  OwnRequest(requests[i])'
    <3>1. CASE i \in 1..Len(requests)
      <4>1. /\ requests'[i] = requests[i] /\ OwnRequest(requests[i])
            /\ requests[i].ref[2] \in Nat
        BY <3>1, <1>6, <1>7
      <4> QED
        BY <4>1, <1>2, <1>5 DEF OwnRequest
    <3>2. CASE i = Len(requests) + 1
      BY <3>2, <1>2, <1>3, <1>5, <1>6 DEF OwnRequest
    <3> QED
      BY <3>1, <3>2, <1>6
  <2> QED
    BY <2>1, <1>1, <1>5, <1>8 DEF TxReferences
<1>13. TxGate'
  <2>1. GateIsLast'
    BY <1>6, <1>7 DEF GateIsLast
  <2> QED
    BY <2>1, <1>1, <1>4, <1>8 DEF TxGate
<1>14. TxCurrent' /\ TxAnswers'
  BY <1>5 DEF TxCurrent, TxAnswers
<1>15. TxExpected'
  <2>1. ASSUME NEW p, Expected(p)
        PROVE  Expected(p)'
    BY <2>1, <1>1 DEF Expected, NoAccess
  <2>2. ASSUME NEW i \in 1..Len(requests'), requests'[i].kind # "execute"
        PROVE  Expected(requests[i].op)'
    <3>1. CASE i \in 1..Len(requests)
      BY <3>1, <2>1, <2>2, <1>6 DEF TxExpected, Expected
    <3>2. CASE i = Len(requests) + 1
      BY <3>2, <1>3, <1>6 DEF Expected, GateRead
    <3> QED
      BY <3>1, <3>2, <1>6
  <2>3. Triggers' => Expected(stack.op)'
    BY <2>1, <1>1, <1>9 DEF TxExpected, Expected
  <2> QED
    BY <2>2, <2>3, <1>5 DEF TxExpected
<1> QED
  BY <1>10, <1>11, <1>12, <1>13, <1>14, <1>15

\* An operation ends.
LEMMA TxEndOperation ==
    ASSUME TxInv, Transaction!EndOperation
    PROVE  TxInv'
<1> USE DEF TxInv
<1>1. /\ call = NoAccess /\ session \in Sessions
      /\ session' = [session EXCEPT !.stage = "idle"]
      /\ UNCHANGED <<regs, call, seen, late, requests, replies, stack, tx>>
  BY DEF Transaction!EndOperation, Transaction!Idle, Transaction!NoCall,
         Transaction!Access!NoCall, NoAccess, TxTypes, Transaction!net
<1>2. /\ session' \in Sessions /\ session'.stage = "idle"
      /\ session'.nextRead = session.nextRead
  BY <1>1 DEF Sessions
<1>3. TxTypes'
  BY <1>1, <1>2 DEF TxTypes
<1>4. TxCalls'
  BY <1>1, <1>2 DEF TxCalls, Transaction!NoTx
<1>5. TxReferences'
  <2>1. \A i \in 1..Len(requests') : OwnRequest(requests[i])'
    BY <1>1, <1>2 DEF TxReferences, OwnRequest
  <2>2. \A i \in 1..Len(replies') : OwnReply(replies[i])'
    BY <1>1, <1>2 DEF TxReferences, OwnReply
  <2> QED
    BY <2>1, <2>2, <1>2 DEF TxReferences
<1>6. TxGate' /\ TxCurrent' /\ TxAnswers'
  BY <1>2 DEF TxGate, TxCurrent, TxAnswers
<1>7. TxExpected'
  BY <1>1, <1>2 DEF TxExpected, Expected, Triggers
<1> QED
  BY <1>3, <1>4, <1>5, <1>6, <1>7

\* An access begins: a VME access with its first upload, a local write with
\* its only request.
LEMMA TxBeginAccess ==
    ASSUME TxInv, Transaction!BeginAccess
    PROVE  TxInv'
<1> USE DEF TxInv
<1>1. /\ call = NoAccess /\ session.stage = "running"
      /\ UNCHANGED <<regs, late, replies>>
  BY DEF Transaction!BeginAccess, Transaction!Idle, Transaction!NoCall,
         Transaction!Access!NoCall, NoAccess
<1>2. PICK o \in Transaction!Accesses :
         /\ call' = o /\ seen' = {regs[o.reg]}
         /\ IF o.reg = "vme" THEN Transaction!Attempt(1, o)
            ELSE /\ requests' = Append(requests,
                        Transaction!Local(Transaction!OpRef(session.nextSuper), o))
                 /\ tx' = [Transaction!NoTx EXCEPT !.pc = "local", !.attempt = 1,
                              !.super = Transaction!OpRef(session.nextSuper)]
                 /\ session' = [session EXCEPT !.nextSuper = @ + 1, !.calls = @ + 1]
                 /\ UNCHANGED stack
  BY DEF Transaction!BeginAccess
<1>3. /\ o.reg \in {"vme", "local"} /\ o \in Operations /\ o # NoAccess
      /\ regs[o.reg] \in Values
      /\ o.reg = "local" => o.kind = "write"
  BY DEF Transaction!Accesses, Transaction!Registers, Operations, NoAccess, TxTypes
<1>4. CASE o.reg = "vme"
  <2>1. Fewer(replies')
    BY <1>1, TakesReply DEF TxTypes
  <2>2. regs["vme"] \in seen' /\ seen' \in SUBSET Values
    BY <1>2, <1>3, <1>4
  <2>3. Transaction!Attempt(1, o) /\ 1 \in Nat
    BY <1>2, <1>4
  <2> QED
    BY <1>1, <1>2, <1>4, <2>1, <2>2, <2>3, TxAttempt
<1>5. CASE o.reg = "local"
  <2> DEFINE q == Transaction!Local(Transaction!OpRef(session.nextSuper), o)
  <2>1. /\ session \in Sessions /\ requests \in Seq(Requests)
        /\ session.nextSuper \in Nat /\ session.nextSuper + 1 \in Nat
        /\ session.nextStack \in Nat /\ session.calls + 1 \in Nat
    BY DEF TxTypes, Sessions
  <2>2. /\ q \in Requests /\ q.kind = "local" /\ q.op = o
        /\ q.ref = <<"op", session.nextSuper>>
        /\ q.ref[1] = "op" /\ q.ref[2] = session.nextSuper
    BY <2>1, <1>3 DEF Transaction!Local, Transaction!OpRef, Requests, References,
           Transaction!NoCall, Transaction!Access!NoCall
  <2>3. /\ requests' = Append(requests, q) /\ UNCHANGED stack
        /\ tx' = [Transaction!NoTx EXCEPT !.pc = "local", !.attempt = 1,
                     !.super = Transaction!OpRef(session.nextSuper)]
        /\ session' = [session EXCEPT !.nextSuper = session.nextSuper + 1,
                                      !.calls = session.calls + 1]
    BY <1>2, <1>5, <2>1 DEF Sessions
  <2>4. /\ tx' \in Transactions /\ tx'.pc = "local" /\ ~tx'.gotStack
        /\ tx'.super = <<"op", session.nextSuper>>
    BY <2>1, <2>3 DEF Transactions, Transaction!NoTx, Transaction!OpRef, References
  <2>5. /\ session' \in Sessions /\ session'.stage = "running"
        /\ session'.nextRead = session.nextRead
        /\ session'.nextSuper = session.nextSuper + 1
        /\ session'.nextStack = session.nextStack
    <3>1. session' \in Sessions
      BY <2>1, <2>3, SessionAdvances, Zenon
    <3> QED
      BY <1>1, <2>1, <2>3, <3>1 DEF Sessions
  <2> HIDE DEF q
  <2>6. /\ Len(requests) \in Nat /\ requests' \in Seq(Requests)
        /\ Len(requests') = Len(requests) + 1
        /\ \A i \in 1..Len(requests) : requests'[i] = requests[i]
        /\ requests'[Len(requests) + 1] = q
    BY <2>1, <2>2, <2>3, QueueAppend
  <2>7. ASSUME NEW i \in 1..Len(requests)
        PROVE  /\ requests[i] \in Requests /\ OwnRequest(requests[i])
               /\ requests[i].ref # tx'.super
               /\ requests[i].ref[2] \in Nat
    <3>1. requests[i] \in Requests /\ OwnRequest(requests[i])
      BY <2>1, <2>7 DEF TxReferences
    <3>2. requests[i].ref[1] \in {"gate", "op"} /\ requests[i].ref[2] \in Nat
      BY <3>1 DEF Requests, References
    <3> QED
      BY <3>1, <3>2, <1>1, <2>1, <2>4 DEF OwnRequest
  <2>8. ASSUME NEW i \in 1..Len(replies)
        PROVE  OwnReply(replies[i])' /\ ~IsMirror(replies[i])'
    <3>1. OwnReply(replies[i])
      BY DEF TxReferences
    <3>2. OwnReply(replies[i])'
      BY <3>1, <1>1, <2>1, <2>5 DEF OwnReply, References
    <3>3. ~IsMirror(replies[i])'
      BY <3>1, <1>1, <2>1, <2>4 DEF OwnReply, IsMirror
    <3> QED
      BY <3>2, <3>3
  <2>9. Triggers' => Triggers
    BY <2>2, <2>6 DEF Triggers
  <2>10. TxTypes'
    BY <1>1, <1>2, <1>3, <2>1, <2>3, <2>4, <2>5, <2>6 DEF TxTypes
  <2>11. TxCalls'
    BY <1>1, <1>2, <1>3, <1>5, <2>1, <2>4, <2>5 DEF TxCalls
  <2>12. TxReferences'
    <3>1. ASSUME NEW i \in 1..Len(requests')
          PROVE  OwnRequest(requests[i])'
      <4>1. CASE i \in 1..Len(requests)
        <5>1. /\ requests'[i] = requests[i] /\ OwnRequest(requests[i])
              /\ requests[i].ref[2] \in Nat
          BY <4>1, <2>6, <2>7
        <5> QED
          BY <5>1, <1>1, <2>1, <2>5 DEF OwnRequest
      <4>2. CASE i = Len(requests) + 1
        BY <4>2, <2>1, <2>2, <2>5, <2>6 DEF OwnRequest
      <4> QED
        BY <4>1, <4>2, <2>6
    <3>2. Triggers' => stack'.ref < session'.nextStack
      BY <1>1, <2>3, <2>5, <2>9 DEF TxReferences
    <3> QED
      BY <3>1, <3>2, <1>1, <2>8 DEF TxReferences
  <2>13. TxGate'
    BY <2>5 DEF TxGate
  <2>14. TxCurrent'
    <3>1. CurrentIsLast'
      BY <1>2, <2>2, <2>4, <2>6, <2>7 DEF CurrentIsLast
    <3> QED
      BY <3>1, <2>4 DEF TxCurrent
  <2>15. TxAnswers'
    BY <1>1, <2>4, <2>8 DEF TxAnswers
  <2>16. TxExpected'
    <3>1. ASSUME NEW p, Expected(p)
          PROVE  Expected(p)'
      BY <3>1, <1>1 DEF Expected, NoAccess
    <3>2. ASSUME NEW i \in 1..Len(requests'), requests'[i].kind # "execute"
          PROVE  Expected(requests[i].op)'
      <4>1. CASE i \in 1..Len(requests)
        BY <4>1, <3>1, <3>2, <2>6 DEF TxExpected, Expected
      <4>2. CASE i = Len(requests) + 1
        BY <4>2, <1>2, <2>2, <2>6 DEF Expected
      <4> QED
        BY <4>1, <4>2, <2>6
    <3>3. Triggers' => Expected(stack.op)'
      BY <3>1, <2>3, <2>9 DEF TxExpected, Expected
    <3> QED
      BY <3>2, <3>3, <1>2, <1>3 DEF TxExpected
  <2> QED
    BY <2>10, <2>11, <2>12, <2>13, <2>14, <2>15, <2>16
<1> QED
  BY <1>3, <1>4, <1>5

\* A VME access is tried again, or given up.
LEMMA TxRetry ==
    ASSUME TxInv, tx.pc \in {"upload", "execute"}, NEW left, Fewer(left),
           Transaction!Retry(left)
    PROVE  TxInv'
<1> USE DEF TxInv
<1>1. session.stage = "running" /\ call.reg = "vme" /\ call # NoAccess
  BY DEF TxCalls, NoAccess
<1>2. call \in Transaction!Accesses /\ regs["vme"] \in seen
  BY <1>1 DEF TxCalls
<1>3. CASE tx.attempt < MvlcTransactionAttemptCount
  <2>1. /\ Transaction!Attempt(tx.attempt + 1, call) /\ replies' = left
        /\ UNCHANGED <<regs, call, seen, late>>
    BY <1>3 DEF Transaction!Retry
  <2>2. tx.attempt + 1 \in Nat /\ seen' \in SUBSET Values
    BY <2>1 DEF TxTypes, Transactions
  <2> QED
    BY <1>1, <1>2, <2>1, <2>2, TxAttempt
<1>4. CASE ~(tx.attempt < MvlcTransactionAttemptCount)
  BY <1>1, <1>4, TxFail DEF Transaction!Retry
<1> QED
  BY <1>3, <1>4

\* The mirror of the upload: the stack is triggered.
LEMMA TxTriggered ==
    ASSUME TxInv, tx.pc = "upload", replies # <<>>, IsMirror(replies[1]),
           ~replies[1].bad, replies' = Tail(replies),
           requests' = Append(requests,
               Transaction!Execute(Transaction!OpRef(session.nextSuper))),
           tx' = [tx EXCEPT !.pc = "execute", !.datagrams = 0,
                            !.super = Transaction!OpRef(session.nextSuper)],
           session' = [session EXCEPT !.nextSuper = @ + 1],
           UNCHANGED <<regs, call, seen, late, stack>>
    PROVE  TxInv'
<1> USE DEF TxInv
<1> DEFINE q == Transaction!Execute(Transaction!OpRef(session.nextSuper))
<1>1. /\ session.stage = "running" /\ call.reg = "vme" /\ call # NoAccess
      /\ session.nextStack > 0 /\ tx.stackRef = session.nextStack - 1
      /\ tx \in Transactions /\ session \in Sessions
      /\ session.nextSuper \in Nat /\ session.nextStack \in Nat
  BY SMTT(40) DEF TxCalls, NoAccess, TxTypes, Sessions
<1>2. 1 \in 1..Len(replies)
  BY TakesReply DEF TxTypes
<1>3. requests = <<>> /\ stack = [ref |-> tx.stackRef, op |-> call]
  BY <1>1, <1>2 DEF TxAnswers
<1>4. /\ q \in Requests /\ q.kind = "execute"
      /\ q.ref = <<"op", session.nextSuper>>
      /\ q.ref[1] = "op" /\ q.ref[2] = session.nextSuper
  BY <1>1 DEF Transaction!Execute, Transaction!OpRef, Requests, References,
         Operations, Transaction!NoCall, Transaction!Access!NoCall, NoAccess
<1>5. /\ tx' \in Transactions /\ tx'.pc = "execute"
      /\ tx'.super = <<"op", session.nextSuper>>
      /\ tx'.stackRef = tx.stackRef /\ tx'.gotStack = tx.gotStack
  BY <1>1 DEF Transactions, Transaction!OpRef, References
<1>6. /\ session' \in Sessions /\ session'.stage = "running"
      /\ session'.nextRead = session.nextRead
      /\ session'.nextSuper = session.nextSuper + 1
      /\ session'.nextStack = session.nextStack
  BY <1>1, SMTT(40) DEF Sessions
<1>7. requests' = Append(requests, q)
  OBVIOUS
<1> HIDE DEF q
<1>8. /\ requests' \in Seq(Requests) /\ Len(requests') = 1 /\ requests'[1] = q
  BY <1>3, <1>4, <1>7
<1>9. Fewer(replies')
  BY TakesReply DEF TxTypes
<1>10. ASSUME NEW i \in 1..Len(replies')
       PROVE  OwnReply(replies[i])' /\ ~IsOutput(replies[i])'
  <2>1. PICK j \in 1..Len(replies) : replies'[i] = replies[j]
    BY <1>9 DEF Fewer
  <2>2. OwnReply(replies[j]) /\ ~IsOutput(replies[j])
    BY <1>1 DEF TxReferences, TxAnswers
  <2>3. OwnReply(replies[i])'
    BY <2>1, <2>2, <1>1, <1>6, SMTT(40) DEF OwnReply, References
  <2>4. ~IsOutput(replies[i])'
    BY <2>1, <2>2, <1>5 DEF IsOutput
  <2> QED
    BY <2>3, <2>4
<1>11. ~tx.gotStack
  BY DEF TxCalls
<1>12. TxTypes'
  BY <1>5, <1>6, <1>8, <1>9 DEF TxTypes, Fewer
<1>13. TxCalls'
  BY <1>1, <1>5, <1>6, <1>11 DEF TxCalls
<1>14. TxReferences'
  <2>1. \A i \in 1..Len(requests') : OwnRequest(requests[i])'
    BY <1>1, <1>4, <1>6, <1>8 DEF OwnRequest
  <2> QED
    BY <2>1, <1>1, <1>3, <1>6, <1>10 DEF TxReferences
<1>15. TxGate'
  BY <1>6 DEF TxGate
<1>16. TxCurrent'
  BY <1>3, <1>4, <1>5, <1>8 DEF TxCurrent
<1>17. TxAnswers'
  BY <1>5, <1>10, <1>11 DEF TxAnswers
<1>18. TxExpected'
  BY <1>1, <1>3, <1>4, <1>8 DEF TxExpected, Expected
<1> QED
  BY <1>12, <1>13, <1>14, <1>15, <1>16, <1>17, <1>18

\* UploadStack: a datagram for another request, the mirror, a rejection.
LEMMA TxUploadStack ==
    ASSUME TxInv, Transaction!UploadStack
    PROVE  TxInv'
<1>1. /\ tx.pc = "upload" /\ replies # <<>> /\ replies \in Seq(Frames)
  BY DEF Transaction!UploadStack, Transaction!Received, TxInv, TxTypes
<1>2. Head(replies) = replies[1] /\ Fewer(Tail(replies))
  BY <1>1, TakesReply
<1>3. CASE Transaction!Skip
  BY <1>1, <1>3, TxSkip
<1>4. CASE /\ Transaction!Matches(Head(replies), "super", tx.super)
           /\ ~Head(replies).bad
           /\ requests' = Append(requests,
                  Transaction!Execute(Transaction!OpRef(session.nextSuper)))
           /\ tx' = [tx EXCEPT !.pc = "execute", !.datagrams = 0,
                         !.super = Transaction!OpRef(session.nextSuper)]
           /\ session' = [session EXCEPT !.nextSuper = @ + 1]
           /\ replies' = Tail(replies)
           /\ UNCHANGED <<regs, call, seen, late, stack>>
  <2>1. IsMirror(replies[1])
    BY <1>1, <1>2, <1>4 DEF Transaction!Matches, IsMirror
  <2> QED
    BY <1>1, <1>2, <1>4, <2>1, TxTriggered
<1>5. CASE Transaction!Retry(Tail(replies))
  BY <1>1, <1>2, <1>5, TxRetry
<1> QED
  BY <1>3, <1>4, <1>5 DEF Transaction!UploadStack

\* ExecuteStack: the mirror of the trigger, the output of the stack, or both.
LEMMA TxExecuteStack ==
    ASSUME TxInv, Transaction!ExecuteStack
    PROVE  TxInv'
<1> USE DEF TxInv
<1>1. /\ tx.pc = "execute" /\ replies # <<>> /\ replies \in Seq(Frames)
  BY DEF Transaction!ExecuteStack, Transaction!Received, TxTypes
<1>2. /\ Head(replies) = replies[1] /\ Fewer(Tail(replies))
      /\ 1 \in 1..Len(replies) /\ replies[1] \in Frames
      /\ \A i \in 1..Len(Tail(replies)) :
            Tail(replies)[i] = replies[i + 1] /\ i + 1 \in 1..Len(replies)
  BY <1>1, TakesReply
<1>3. CASE Transaction!Skip
  BY <1>1, <1>3, TxSkip
<1>4. CASE ~Transaction!Skip
  <2> DEFINE f == replies[1]
             super == Transaction!Matches(f, "super", tx.super)
             output == Transaction!Matches(f, "stack", tx.stackRef)
  <2>1. /\ ~f.bad /\ replies' = Tail(replies)
        /\ tx' = [tx EXCEPT !.gotSuper = @ \/ super,
                            !.gotStack = @ \/ output,
                            !.datagrams = @ + 1,
                            !.value = IF output THEN f.value ELSE @]
        /\ UNCHANGED <<regs, call, seen, late, requests, stack, session>>
    BY <1>2, <1>4 DEF Transaction!ExecuteStack
  <2>2. output => IsOutput(f)
    BY <1>1 DEF Transaction!Matches, IsOutput
  <2>3. /\ super \in BOOLEAN /\ output \in BOOLEAN
        /\ f.value \in Values \cup {NoValue} /\ tx \in Transactions
    BY <1>2 DEF Transaction!Matches, Frames, TxTypes
  <2> HIDE DEF super, output
  <2>4. PICK v : v = IF output THEN f.value ELSE tx.value
    OBVIOUS
  <2>5. PICK s : s = (tx.gotSuper \/ super)
    OBVIOUS
  <2>6. PICK g : g = (tx.gotStack \/ output)
    OBVIOUS
  <2>7. v \in Values \cup {NoValue} /\ s \in BOOLEAN /\ g \in BOOLEAN
        /\ tx.datagrams + 1 \in Nat
    BY <2>3, <2>4, <2>5, <2>6 DEF Transactions
  <2>8. tx' = [tx EXCEPT !.gotSuper = s, !.gotStack = g,
                         !.datagrams = tx.datagrams + 1, !.value = v]
    BY <2>1, <2>3, <2>4, <2>5, <2>6 DEF Transactions
  <2>9. /\ tx' \in Transactions
        /\ tx'.pc = tx.pc /\ tx'.super = tx.super /\ tx'.stackRef = tx.stackRef
        /\ tx'.gotStack = g /\ tx'.value = v
    <3>1. tx' \in Transactions
      BY <2>3, <2>7, <2>8, TransactionAdvances, Zenon
    <3> QED
      BY <2>3, <2>8, <3>1 DEF Transactions
  <2>10. session.stage = "running" /\ call # NoAccess
    BY <1>1 DEF TxCalls, NoAccess
  <2>11. ASSUME NEW i \in 1..Len(replies')
         PROVE  /\ replies'[i] = replies[i + 1] /\ i + 1 \in 1..Len(replies)
                /\ IsMirror(replies[i])' => IsMirror(replies[i + 1])
                /\ IsOutput(replies[i])' => IsOutput(replies[i + 1])
    BY <1>2, <2>1, <2>9 DEF IsMirror, IsOutput
  <2>12. g => /\ requests = <<>>
              /\ IF call.kind = "write" THEN regs["vme"] = call.value
                                        ELSE v \in seen
    <3>1. CASE output
      BY <3>1, <1>1, <1>2, <2>1, <2>2, <2>4, <2>10 DEF TxAnswers
    <3>2. CASE ~output
      BY <3>2, <2>4, <2>6, <2>10 DEF TxAnswers
    <3> QED
      BY <3>1, <3>2
  <2>13. TxTypes'
    BY <1>2, <2>1, <2>9 DEF TxTypes, Fewer
  <2>14. TxCalls'
    BY <1>1, <2>1, <2>9, <2>10 DEF TxCalls
  <2>15. TxReferences'
    <3>1. \A i \in 1..Len(requests') : OwnRequest(requests[i])'
      BY <2>1 DEF TxReferences, OwnRequest
    <3>2. \A i \in 1..Len(replies') : OwnReply(replies[i])'
      BY <2>1, <2>11 DEF TxReferences, OwnReply
    <3> QED
      BY <3>1, <3>2, <2>1 DEF TxReferences, Triggers
  <2>16. TxGate'
    BY <2>1, <2>10 DEF TxGate
  <2>17. TxCurrent'
    BY <1>1, <2>1, <2>9 DEF TxCurrent
  <2>18. TxAnswers'
    BY <1>1, <2>1, <2>9, <2>11, <2>12 DEF TxAnswers
  <2>19. TxExpected'
    BY <2>1 DEF TxExpected, Expected, Triggers
  <2> QED
    BY <2>13, <2>14, <2>15, <2>16, <2>17, <2>18, <2>19
<1> QED
  BY <1>3, <1>4

\* The mirror of a local access.
LEMMA TxLocalReply ==
    ASSUME TxInv, Transaction!LocalReply
    PROVE  TxInv'
<1> USE DEF TxInv
<1>1. /\ tx.pc = "local" /\ replies # <<>> /\ replies \in Seq(Frames)
  BY DEF Transaction!LocalReply, Transaction!Received, TxTypes
<1>2. /\ Head(replies) = replies[1] /\ Fewer(Tail(replies))
      /\ 1 \in 1..Len(replies) /\ replies[1] \in Frames
      /\ \A i \in 1..Len(Tail(replies)) :
            Tail(replies)[i] = replies[i + 1] /\ i + 1 \in 1..Len(replies)
            /\ 1 <= i + 1
  BY <1>1, TakesReply
<1>3. CASE Transaction!Skip
  BY <1>1, <1>3, TxSkip
<1>4. CASE ~Transaction!Skip
  <2>1. /\ IsMirror(replies[1]) /\ replies' = Tail(replies)
        /\ tx' = [tx EXCEPT !.pc = "replied", !.value = replies[1].value]
        /\ UNCHANGED <<regs, call, seen, late, requests, stack, session>>
    BY <1>1, <1>2, <1>4 DEF Transaction!LocalReply, Transaction!Matches, IsMirror
  <2>2. tx \in Transactions /\ replies[1].value \in Values \cup {NoValue}
    BY <1>2 DEF TxTypes, Frames
  <2>3. /\ tx' \in Transactions
        /\ tx'.pc = "replied" /\ tx'.super = tx.super
        /\ tx'.stackRef = tx.stackRef
        /\ tx'.gotStack = tx.gotStack /\ tx'.value = replies[1].value
    BY <2>1, <2>2 DEF Transactions
  <2>4. call # NoAccess /\ session.stage \in {"gate", "running"} /\ ~tx.gotStack
    BY <1>1 DEF TxCalls, Transaction!NoTx, TxTypes, Sessions
  <2>5. ASSUME NEW i \in 1..Len(replies')
        PROVE  /\ replies'[i] = replies[i + 1] /\ i + 1 \in 1..Len(replies)
               /\ 1 <= i + 1
               /\ IsMirror(replies[i + 1]) => IsMirror(replies[i])'
    BY <1>1, <1>2, <2>1, <2>3 DEF IsMirror
  <2>6. TxTypes'
    BY <1>2, <2>1, <2>3 DEF TxTypes, Fewer
  <2>7. TxCalls'
    BY <1>1, <2>1, <2>3, <2>4 DEF TxCalls
  <2>8. TxReferences'
    <3>1. \A i \in 1..Len(requests') : OwnRequest(requests[i])'
      BY <2>1 DEF TxReferences, OwnRequest
    <3>2. \A i \in 1..Len(replies') : OwnReply(replies[i])'
      BY <2>1, <2>5 DEF TxReferences, OwnReply
    <3> QED
      BY <3>1, <3>2, <2>1 DEF TxReferences, Triggers
  <2>9. TxGate'
    <3>1. SUFFICES ASSUME session.stage = "gate"
                   PROVE  TxGate'
      BY <2>1 DEF TxGate
    <3>2. \A i \in 1..Len(replies') : IsMirror(replies[i])'
      BY <1>2, <2>1, <2>5, <3>1 DEF TxGate
    <3>3. /\ replies[1].value \in seen
          /\ \A j \in 1..Len(requests) : requests[j].ref = tx.super
      BY <1>2, <2>1, <3>1 DEF TxGate
    <3>4. \A i \in 1..Len(replies') : replies'[i].value \in seen
      <4>1. \A i \in 1..Len(replies) : IsMirror(replies[i])
        BY <1>2, <2>1, <3>1 DEF TxGate
      <4> QED
        BY <4>1, <2>5, <3>1 DEF TxGate
    <3>5. GateIsLast'
      BY <3>3, <2>1, <2>3 DEF GateIsLast
    <3> QED
      BY <3>2, <3>3, <3>4, <3>5, <2>1, <2>3 DEF TxGate
  <2>10. session.stage = "running" => requests = <<>> /\ regs["local"] = call.value
    BY <1>1, <1>2, <2>1 DEF TxAnswers
  <2>11. TxCurrent'
    BY <2>1, <2>3, <2>10 DEF TxCurrent
  <2>12. TxAnswers'
    BY <2>1, <2>3, <2>4, <2>10 DEF TxAnswers
  <2>13. TxExpected'
    BY <2>1 DEF TxExpected, Expected, Triggers
  <2> QED
    BY <2>6, <2>7, <2>8, <2>9, <2>11, <2>12, <2>13
<1> QED
  BY <1>3, <1>4

\* A call has succeeded: its answer is at hand.
LEMMA TxSucceeds ==
    ASSUME TxInv, Transaction!StackSucceeds \/ Transaction!LocalSucceeds
    PROVE  /\ Transaction!Succeed /\ call # NoAccess
           /\ \/ session.stage = "running" /\ requests = <<>>
              \/ session.stage = "gate" /\ tx.pc = "replied"
           /\ tx.gotStack \/ tx.pc = "replied"
<1> USE DEF TxInv
<1>1. CASE Transaction!StackSucceeds
  <2>1. tx.pc = "execute" /\ tx.gotStack /\ Transaction!Succeed
    BY <1>1 DEF Transaction!StackSucceeds
  <2>2. session.stage = "running" /\ call # NoAccess
    BY <2>1 DEF TxCalls, Transaction!NoTx
  <2> QED
    BY <2>1, <2>2 DEF TxAnswers
<1>2. CASE Transaction!LocalSucceeds
  <2>1. tx.pc = "replied" /\ Transaction!Succeed
    BY <1>2 DEF Transaction!LocalSucceeds
  <2>2. session.stage \in {"gate", "running"} /\ call # NoAccess
    BY <2>1 DEF TxCalls, Transaction!NoTx, TxTypes, Sessions
  <2> QED
    BY <2>1, <2>2 DEF TxCurrent
<1> QED
  BY <1>1, <1>2

\* Neither the device nor the bus answered.
LEMMA TxVmeFailure ==
    ASSUME TxInv, Transaction!VmeFailure
    PROVE  TxInv' /\ call # NoAccess
<1>1. /\ tx.pc = "execute" /\ replies # <<>> /\ Transaction!Fail(Tail(replies))
  BY DEF Transaction!VmeFailure, Transaction!Received
<1>2. call # NoAccess
  BY <1>1 DEF TxInv, TxCalls, Transaction!NoTx
<1>3. Fewer(Tail(replies))
  BY <1>1, TakesReply DEF TxInv, TxTypes
<1> QED
  BY <1>1, <1>2, <1>3, TxFail

\* A local access times out: a read is sent again, a write fails.
LEMMA TxTimeoutLocal ==
    ASSUME TxInv, Transaction!TimeoutLocal
    PROVE  TxInv' /\ call # NoAccess
<1> USE DEF TxInv
<1>1. tx.pc = "local" /\ replies \in Seq(Frames)
  BY DEF Transaction!TimeoutLocal, TxTypes
<1>2. call # NoAccess /\ session.stage \in {"gate", "running"}
  BY <1>1 DEF TxCalls, Transaction!NoTx, TxTypes, Sessions
<1>3. CASE call.kind = "read" /\ tx.attempt < MvlcTransactionAttemptCount
  <2> DEFINE q == Transaction!Local(tx.super, call)
  <2>1. /\ requests' = Append(requests, q)
        /\ tx' = [tx EXCEPT !.attempt = @ + 1, !.datagrams = 0]
        /\ UNCHANGED <<regs, call, seen, late, replies, stack, session>>
    BY <1>3 DEF Transaction!TimeoutLocal
  <2>2. session.stage = "gate"
    BY <1>1, <1>2, <1>3 DEF TxCalls
  <2>3. /\ call = GateRead /\ session.nextRead > 0 /\ session.nextRead \in Nat
        /\ tx.super = <<"gate", session.nextRead - 1>> /\ tx \in Transactions
        /\ requests \in Seq(Requests)
    BY <2>2 DEF TxCalls, TxTypes, Sessions
  <2>4. /\ q \in Requests /\ q.kind = "local" /\ q.op = GateRead
        /\ q.ref = tx.super
        /\ q.ref[1] = "gate" /\ q.ref[2] = session.nextRead - 1
    BY <2>3 DEF Transaction!Local, Requests, References, Operations
  <2>5. /\ tx' \in Transactions /\ tx'.pc = tx.pc /\ tx'.super = tx.super
        /\ tx'.stackRef = tx.stackRef /\ tx'.gotStack = tx.gotStack
    <3>1. /\ tx.attempt + 1 \in Nat
          /\ tx' = [tx EXCEPT !.attempt = tx.attempt + 1, !.datagrams = 0]
      BY <2>1, <2>3 DEF Transactions
    <3>2. tx' \in Transactions
      BY <2>3, <3>1, TransactionRepeats, Zenon
    <3> QED
      BY <2>3, <3>1, <3>2 DEF Transactions
  <2> HIDE DEF q
  <2>6. /\ Len(requests) \in Nat /\ requests' \in Seq(Requests)
        /\ Len(requests') = Len(requests) + 1
        /\ \A i \in 1..Len(requests) : requests'[i] = requests[i]
        /\ requests'[Len(requests) + 1] = q
    BY <2>1, <2>3, <2>4, QueueAppend
  <2>7. ASSUME NEW i \in 1..Len(requests')
        PROVE  i \in 1..Len(requests) \/ i = Len(requests) + 1
    BY <2>6
  <2>8. Triggers' => Triggers
    BY <2>4, <2>6 DEF Triggers
  <2>9. TxTypes'
    BY <2>1, <2>5, <2>6 DEF TxTypes
  <2>10. TxCalls'
    BY <1>1, <1>2, <2>1, <2>5 DEF TxCalls
  <2>11. TxReferences'
    <3>1. ASSUME NEW i \in 1..Len(requests')
          PROVE  OwnRequest(requests[i])'
      <4>1. CASE i \in 1..Len(requests)
        BY <4>1, <2>1, <2>6 DEF TxReferences, OwnRequest
      <4>2. CASE i = Len(requests) + 1
        BY <4>2, <2>1, <2>2, <2>3, <2>4, <2>6 DEF OwnRequest
      <4> QED
        BY <4>1, <4>2, <2>7
    <3>2. \A i \in 1..Len(replies') : OwnReply(replies[i])'
      BY <2>1 DEF TxReferences, OwnReply
    <3> QED
      BY <3>1, <3>2, <2>1, <2>2 DEF TxReferences
  <2>12. TxGate'
    <3>1. GateIsLast'
      <4>1. ASSUME NEW i \in 1..Len(requests'), NEW j \in 1..Len(requests'),
                   i <= j, requests'[i].ref = tx.super
            PROVE  requests'[j].ref = tx.super
        <5>1. CASE j = Len(requests) + 1
          BY <5>1, <2>4, <2>6
        <5>2. CASE j \in 1..Len(requests)
          <6>1. i \in 1..Len(requests)
            BY <5>2, <4>1, <2>6
          <6> QED
            BY <6>1, <5>2, <4>1, <2>2, <2>6 DEF TxGate, GateIsLast
        <5> QED
          BY <5>1, <5>2, <2>7
      <4> QED
        BY <4>1, <2>5 DEF GateIsLast
    <3>2. \A i \in 1..Len(replies) : IsMirror(replies[i])' <=> IsMirror(replies[i])
      BY <2>1, <2>5 DEF IsMirror
    <3>3. ASSUME NEW i \in 1..Len(replies), IsMirror(replies[i]),
                 NEW j \in 1..Len(requests')
          PROVE  requests'[j].ref = tx'.super
      BY <3>3, <2>2, <2>4, <2>5, <2>6, <2>7 DEF TxGate
    <3> QED
      BY <3>1, <3>2, <3>3, <1>1, <2>1, <2>2, <2>5 DEF TxGate
  <2>13. TxCurrent' /\ TxAnswers'
    BY <2>1, <2>2 DEF TxCurrent, TxAnswers
  <2>14. TxExpected'
    <3>1. ASSUME NEW i \in 1..Len(requests'), requests'[i].kind # "execute"
          PROVE  Expected(requests[i].op)'
      <4>1. CASE i \in 1..Len(requests)
        BY <4>1, <3>1, <2>1, <2>6 DEF TxExpected, Expected
      <4>2. CASE i = Len(requests) + 1
        BY <4>2, <2>4, <2>6 DEF Expected, GateRead
      <4> QED
        BY <4>1, <4>2, <2>7
    <3>2. Triggers' => Expected(stack.op)'
      BY <2>1, <2>8 DEF TxExpected, Expected
    <3> QED
      BY <3>1, <3>2, <2>1, <2>2 DEF TxExpected
  <2> QED
    BY <1>2, <2>9, <2>10, <2>11, <2>12, <2>13, <2>14
<1>4. CASE ~(call.kind = "read" /\ tx.attempt < MvlcTransactionAttemptCount)
  <2>1. Transaction!Fail(replies)
    BY <1>4 DEF Transaction!TimeoutLocal
  <2> QED
    BY <1>1, <1>2, <2>1, TakesReply, TxFail
<1> QED
  BY <1>3, <1>4

\* Nothing of the transactions changes.
LEMMA TxStutter ==
    ASSUME TxInv, UNCHANGED transaction
    PROVE  TxInv'
<1>1. /\ regs' = regs /\ call' = call /\ seen' = seen /\ late' = late
      /\ requests' = requests /\ replies' = replies /\ stack' = stack
      /\ tx' = tx /\ session' = session
  BY DEF transaction
<1>2. TxTypes' /\ TxCalls'
  BY <1>1 DEF TxInv, TxTypes, TxCalls
<1>3. TxReferences'
  BY <1>1 DEF TxInv, TxReferences, OwnRequest, OwnReply, Triggers
<1>4. TxGate'
  BY <1>1 DEF TxInv, TxGate, GateIsLast, IsMirror
<1>5. TxCurrent'
  BY <1>1 DEF TxInv, TxCurrent, CurrentIsLast, Triggers
<1>6. TxAnswers'
  BY <1>1 DEF TxInv, TxAnswers, IsMirror, IsOutput
<1>7. TxExpected'
  BY <1>1 DEF TxInv, TxExpected, Expected, Triggers
<1> QED
  BY <1>2, <1>3, <1>4, <1>5, <1>6, <1>7 DEF TxInv

\* Every step of the transactions keeps the invariant.
LEMMA TxStep ==
    ASSUME TxInv, Transaction!Next
    PROVE  TxInv'
<1>1. CASE Transaction!BeginOperation
  BY <1>1, TxBeginOperation
<1>2. CASE Transaction!EndOperation
  BY <1>2, TxEndOperation
<1>3. CASE Transaction!BeginAccess
  BY <1>3, TxBeginAccess
<1>4. CASE Transaction!UploadStack
  BY <1>4, TxUploadStack
<1>5. CASE Transaction!ExecuteStack
  BY <1>5, TxExecuteStack
<1>6. CASE Transaction!StackSucceeds \/ Transaction!LocalSucceeds
  BY <1>6, TxSucceeds, TxSucceed
<1>7. CASE Transaction!LocalReply
  BY <1>7, TxLocalReply
<1>8. CASE Transaction!VmeFailure
  BY <1>8, TxVmeFailure
<1>9. CASE Transaction!TimeoutVme
  <2>1. Fewer(replies)
    BY TakesReply DEF TxInv, TxTypes
  <2> QED
    BY <1>9, <2>1, TxRetry DEF Transaction!TimeoutVme
<1>10. CASE Transaction!TimeoutLocal
  BY <1>10, TxTimeoutLocal
<1>11. CASE Transaction!Controller
  BY <1>11, TxController
<1>12. CASE Transaction!LoseRequest
  BY <1>12, TxLoseRequest
<1>13. CASE Transaction!Done
  BY <1>13, TxStutter DEF Transaction!Done, Transaction!vars, transaction
<1> QED
  BY <1>1, <1>2, <1>3, <1>4, <1>5, <1>6, <1>7, <1>8, <1>9, <1>10, <1>11, <1>12,
     <1>13 DEF Transaction!Next, Transaction!Client

\* The transactions begin with empty queues.
LEMMA TxInitially ==
    ASSUME Transaction!Init
    PROVE  TxInv
<1>1. /\ regs \in [{"vme", "local"} -> Values] /\ call = NoAccess
      /\ seen = {} /\ late = {} /\ requests = <<>> /\ replies = <<>>
      /\ stack = [ref |-> 0, op |-> NoAccess] /\ tx = Transaction!NoTx
      /\ session = [stage |-> "idle", operations |-> 0, calls |-> 0,
                  nextRead |-> 0, nextSuper |-> 0, nextStack |-> 0]
  BY DEF Transaction!Init, Transaction!Access!AccessInit, Transaction!Registers,
         Transaction!NoCall, Transaction!Access!NoCall, NoAccess,
         Transaction!NoStack
<1>2. TxTypes
  BY <1>1 DEF TxTypes, Operations, Transactions, Transaction!NoTx, Sessions
<1>3. TxCalls
  BY <1>1 DEF TxCalls, Transaction!NoTx
<1>4. ~Triggers /\ TxReferences
  BY <1>1 DEF TxReferences, Triggers
<1>5. TxGate /\ TxCurrent /\ TxAnswers /\ TxExpected
  BY <1>1, <1>4 DEF TxGate, TxCurrent, TxAnswers, TxExpected
<1> QED
  BY <1>2, <1>3, <1>4, <1>5 DEF TxInv

\* An answer that is taken is that of the call.
LEMMA TxAnswersAreFresh ==
    ASSUME TxInv
    PROVE  Transaction!AnswersAreFresh
<1> USE DEF TxInv
<1>1. CASE tx.gotStack
  <2>1. tx.pc = "execute" /\ session.stage = "running" /\ call.reg = "vme"
    BY <1>1 DEF TxCalls
  <2> QED
    BY <1>1, <2>1 DEF Transaction!AnswersAreFresh, TxAnswers
<1>2. CASE tx.pc = "replied"
  <2>1. session.stage \in {"gate", "running"}
    BY <1>2 DEF TxCalls, Transaction!NoTx, TxTypes, Sessions
  <2>2. CASE session.stage = "gate"
    BY <1>2, <2>2 DEF Transaction!AnswersAreFresh, TxGate, TxCalls, GateRead
  <2>3. CASE session.stage = "running"
    BY <1>2, <2>3 DEF Transaction!AnswersAreFresh, TxAnswers, TxCalls
  <2> QED
    BY <2>1, <2>2, <2>3
<1> QED
  BY <1>1, <1>2 DEF Transaction!AnswersAreFresh

----------------------------------------------------------------------------
\* A write the controller performs is one the abstract access allows.
LEMMA WriteTakesEffect ==
    ASSUME TxInv, NEW o \in Operations, Expected(o), Transaction!Perform(o),
           UNCHANGED <<call, late>>
    PROVE  \/ Transaction!Access!AccessNext
           \/ UNCHANGED Transaction!Access!accessVars
<1>1. CASE o.kind = "write"
  <2>1. o.reg \in Transaction!Registers /\ o.value \in Values
    BY <1>1 DEF Operations, Transaction!Accesses, Transaction!Registers,
           GateRead, NoAccess
  <2>2. Transaction!Access!TakeEffect(o.reg, o.value)
    BY <1>1 DEF Expected, Transaction!Perform, Transaction!Access!TakeEffect
  <2> QED
    BY <2>1, <2>2 DEF Transaction!Access!AccessNext
<1>2. CASE o.kind # "write"
  BY <1>2 DEF Transaction!Perform, Transaction!Access!accessVars
<1> QED
  BY <1>1, <1>2

\* A call that fails fails abstractly.
LEMMA FailIsAbstract ==
    ASSUME call # NoAccess, NEW left, Transaction!Fail(left)
    PROVE  Transaction!Access!AccessNext
<1>1. Transaction!Access!Fail
  BY DEF Transaction!Fail, Transaction!Access!Fail, Transaction!NoCall,
         Transaction!Access!NoCall, NoAccess
<1> QED
  BY <1>1 DEF Transaction!Access!AccessNext

\* Every step of the transactions is one of the abstract access, or none.
LEMMA TxRefines ==
    ASSUME TxInv, Transaction!Next
    PROVE  \/ Transaction!Access!AccessNext
           \/ UNCHANGED Transaction!Access!accessVars
<1>1. CASE Transaction!BeginOperation
  <2>1. Transaction!Access!Call("read", "local", NoValue)
    BY <1>1 DEF Transaction!BeginOperation, Transaction!Idle, Transaction!NoCall,
           Transaction!Access!Call
  <2>2. "local" \in Transaction!Registers /\ regs["local"] \in Values
    BY DEF Transaction!Registers, TxInv, TxTypes
  <2> QED
    BY <2>1, <2>2 DEF Transaction!Access!AccessNext
<1>2. CASE Transaction!EndOperation
  BY <1>2 DEF Transaction!EndOperation, Transaction!Access!accessVars
<1>3. CASE Transaction!BeginAccess
  <2>1. PICK o \in Transaction!Accesses : call' = o /\ seen' = {regs[o.reg]}
    BY <1>3 DEF Transaction!BeginAccess
  <2>2. call = Transaction!Access!NoCall /\ UNCHANGED <<regs, late>>
    BY <1>3 DEF Transaction!BeginAccess, Transaction!Idle, Transaction!NoCall
  <2>3. CASE o.kind = "write"
    <3>1. PICK r \in Transaction!Registers, v \in Values :
             o = [kind |-> "write", reg |-> r, value |-> v]
      BY <2>3 DEF Transaction!Accesses
    <3>2. Transaction!Access!Call("write", r, v)
      BY <2>1, <2>2, <3>1 DEF Transaction!Access!Call
    <3> QED
      BY <3>2 DEF Transaction!Access!AccessNext
  <2>4. CASE o.kind # "write"
    <3>1. o = [kind |-> "read", reg |-> "vme", value |-> NoValue]
      BY <2>4 DEF Transaction!Accesses
    <3>2. Transaction!Access!Call("read", "vme", NoValue)
      BY <2>1, <2>2, <3>1 DEF Transaction!Access!Call
    <3>3. "vme" \in Transaction!Registers /\ regs["vme"] \in Values
      BY DEF Transaction!Registers, TxInv, TxTypes
    <3> QED
      BY <3>2, <3>3 DEF Transaction!Access!AccessNext
  <2> QED
    BY <2>3, <2>4
<1>4. ASSUME NEW left, tx.pc \in {"upload", "execute"}, Transaction!Retry(left)
      PROVE  \/ Transaction!Access!AccessNext
             \/ UNCHANGED Transaction!Access!accessVars
  <2>1. call # NoAccess
    BY <1>4 DEF TxInv, TxCalls, Transaction!NoTx
  <2>2. CASE tx.attempt < MvlcTransactionAttemptCount
    BY <1>4, <2>2 DEF Transaction!Retry, Transaction!Access!accessVars
  <2>3. CASE ~(tx.attempt < MvlcTransactionAttemptCount)
    BY <1>4, <2>1, <2>3, FailIsAbstract DEF Transaction!Retry
  <2> QED
    BY <2>2, <2>3
<1>5. CASE Transaction!UploadStack
  BY <1>4, <1>5 DEF Transaction!UploadStack, Transaction!Skip,
         Transaction!Access!accessVars
<1>6. CASE Transaction!ExecuteStack
  BY <1>6 DEF Transaction!ExecuteStack, Transaction!Skip,
         Transaction!Access!accessVars
<1>7. CASE Transaction!StackSucceeds \/ Transaction!LocalSucceeds
  <2>1. /\ Transaction!Succeed /\ call # NoAccess
        /\ tx.gotStack \/ tx.pc = "replied"
    BY <1>7, TxSucceeds
  <2>2. IF call.kind = "write" THEN regs[call.reg] = call.value
                               ELSE tx.value \in seen
    BY <2>1, TxAnswersAreFresh DEF Transaction!AnswersAreFresh
  <2>3. PICK v : v = IF call.kind = "write" THEN regs["vme"] ELSE tx.value
    OBVIOUS
  <2>4. v \in Values
    BY <2>2, <2>3 DEF TxInv, TxTypes
  <2>5. Transaction!Access!Succeed(v)
    BY <2>1, <2>2, <2>3 DEF Transaction!Succeed, Transaction!Access!Succeed,
           Transaction!NoCall, Transaction!Access!NoCall, NoAccess
  <2> QED
    BY <2>4, <2>5 DEF Transaction!Access!AccessNext
<1>8. CASE Transaction!LocalReply
  BY <1>8 DEF Transaction!LocalReply, Transaction!Skip,
         Transaction!Access!accessVars
<1>9. CASE Transaction!VmeFailure
  BY <1>9, TxVmeFailure, FailIsAbstract DEF Transaction!VmeFailure
<1>10. CASE Transaction!TimeoutVme
  BY <1>4, <1>10 DEF Transaction!TimeoutVme
<1>11. CASE Transaction!TimeoutLocal
  <2>1. call # NoAccess
    BY <1>11, TxTimeoutLocal
  <2> QED
    BY <1>11, <2>1, FailIsAbstract DEF Transaction!TimeoutLocal,
           Transaction!Access!accessVars
<1>12. CASE Transaction!Controller
  <2>1. /\ Taken /\ Head(requests) = requests[1] /\ UNCHANGED <<call, late, tx, session>>
    BY <1>12, TakesOldest DEF Transaction!Controller, Taken
  <2>2. /\ requests[1].kind # "execute" => Expected(requests[1].op)
        /\ requests[1].op \in Operations /\ stack.op \in Operations
    BY <2>1, TakenKeeps DEF Taken, Requests, TxInv, TxTypes
  <2>3. requests[1].kind = "execute" => Expected(stack.op)
    BY <2>1 DEF TxInv, TxExpected, Triggers, Taken
  <2>4. \/ UNCHANGED <<regs, seen>>
        \/ requests[1].kind = "execute" /\ Transaction!Perform(stack.op)
        \/ requests[1].kind = "local" /\ Transaction!Perform(requests[1].op)
    BY <1>12, <2>1 DEF Transaction!Controller
  <2>5. CASE UNCHANGED <<regs, seen>>
    BY <2>1, <2>5 DEF Transaction!Access!accessVars
  <2> QED
    BY <2>1, <2>2, <2>3, <2>4, <2>5, WriteTakesEffect
<1>13. CASE Transaction!LoseRequest
  BY <1>13 DEF Transaction!LoseRequest, Transaction!Access!accessVars
<1>14. CASE Transaction!Done
  BY <1>14 DEF Transaction!Done, Transaction!vars, Transaction!Access!accessVars
<1> QED
  BY <1>1, <1>2, <1>3, <1>5, <1>6, <1>7, <1>8, <1>9, <1>10, <1>11, <1>12, <1>13,
     <1>14 DEF Transaction!Next, Transaction!Client

\* The steps of the other components leave the transactions alone.
LEMMA TxAlone ==
    ASSUME [Next]_vars
    PROVE  Transaction!Next \/ UNCHANGED transaction
BY DEF Next, vars, TransactionSteps, DirectSteps, BridgeSteps, StartSteps,
       DecoderSteps, ReceiverSteps

\* The invariant of the transactions holds in every part.
LEMMA TxInvariant == Spec => []TxInv
<1>1. Init => TxInv
  BY TxInitially DEF Init
<1>2. TxInv /\ [Next]_vars => TxInv'
  BY TxAlone, TxStep, TxStutter
<1> QED
  BY <1>1, <1>2, PTL DEF Spec

(***************************************************************************)
(* Datagrams that are lost or late, retries and reused reference numbers   *)
(* implement the register access the operations are written against, for   *)
(* any set of values, any number of operations, accesses and attempts: a   *)
(* success is the success of that access, and a write whose call failed    *)
(* takes effect before the next access succeeds or never                   *)
(* (RunStackTransaction, ReadLocalRegister).                               *)
(***************************************************************************)
THEOREM TransactionsImplementAccess == Spec => IsRegisterAccess
<1>1. Init => Transaction!Access!AccessInit
  BY DEF Init, Transaction!Init
<1>2. TxInv /\ [Next]_vars => [Transaction!Access!AccessNext]_(Transaction!Access!accessVars)
  <2>1. UNCHANGED transaction => UNCHANGED Transaction!Access!accessVars
    BY DEF transaction, Transaction!Access!accessVars
  <2> QED
    BY <2>1, TxAlone, TxRefines
<1> QED
  BY <1>1, <1>2, TxInvariant, PTL
     DEF Spec, IsRegisterAccess, Transaction!IsRegisterAccess,
         Transaction!Access!AccessSpec

----------------------------------------------------------------------------
(***************************************************************************)
(* The direct transports.  A socket is the one held or the candidate of    *)
(* the Open in progress; what waits in the one held, and what will be      *)
(* answered to it, was sent after the last Open.                           *)
(***************************************************************************)
Openings == [at : {"idle", "socket", "bind", "connect", "timeouts"},
             left : Nat, candidate : Nat, opens : Nat]

\* The type of every variable of the transport.
DirectTypes ==
    /\ isData \in BOOLEAN
    /\ sockets \in SUBSET Nat /\ held \in Nat /\ created \in Nat /\ sends \in Nat
    /\ op \in Openings /\ op.opens <= MaxOpens
    /\ inbox \in [Direct!Sockets -> Seq(Nat)]
    /\ asked \in SUBSET [n : Nat, from : Nat, open : Nat]
    /\ received \in [by : Nat, of : Nat]

\* What is open at each step of Open.
DirectSockets ==
    /\ sockets = {held, op.candidate} \ {0}
    /\ held <= created /\ op.candidate <= created
    /\ op.at \in {"idle", "timeouts"} => op.candidate = 0 /\ op.left = 0
    /\ op.at \in {"socket", "bind", "connect"} => held = 0 /\ op.left > 0
    /\ op.at = "socket" => op.candidate = 0
    /\ op.at \in {"bind", "connect"} => op.candidate # 0
    /\ op.at = "timeouts" => held # 0

\* Every address tried costs at most one socket.
DirectCount ==
    IF op.at \in {"bind", "connect"}
      THEN created + op.left <= op.opens * MaxAddresses + 1
      ELSE created + op.left <= op.opens * MaxAddresses

\* Requests and answers of the socket held are of the last Open.
DirectAnswers ==
    /\ \A r \in asked :
          /\ r.from <= created /\ r.from # 0
          /\ r.from = held => r.open = op.opens
          /\ r.from # op.candidate
    /\ \A s \in Direct!Sockets :
          /\ s # held => inbox[s] = <<>>
          /\ \A i \in 1..Len(inbox[s]) : inbox[s][i] = op.opens
    /\ received.of = received.by

DirectInv == DirectTypes /\ DirectSockets /\ DirectCount /\ DirectAnswers

\* The number of sockets an Open may create.
LEMMA SocketCount ==
    ASSUME NEW a \in Nat, NEW b \in Nat, NEW m \in Nat, a <= b
    PROVE  /\ (a + 1) * m = a * m + m /\ a * m \in Nat
           /\ a * m <= b * m
<1>1. PICK d : d = b - a
  OBVIOUS
<1>2. d \in Nat /\ b = a + d
  BY <1>1
<1>3. d * m \in Nat /\ (a + d) * m = a * m + d * m
  BY <1>2
<1> QED
  BY <1>2, <1>3

\* The bounds of the transport are numbers.
LEMMA DirectBounds == MaxAddresses \in Nat /\ MaxOpens \in Nat
BY TransportInstances DEF Direct!DirectAssumption

\* A socket that was created has a number below the bound.
LEMMA SocketInRange ==
    ASSUME DirectInv, NEW s \in Nat, s <= created, s # 0, op.at \in {"idle", "timeouts"}
    PROVE  s \in Direct!Sockets
<1>1. op.opens \in Nat /\ op.opens <= MaxOpens /\ created \in Nat /\ op.left \in Nat
  BY DEF DirectInv, DirectTypes, Openings
<1>2. op.opens * MaxAddresses <= MaxOpens * MaxAddresses
      /\ op.opens * MaxAddresses \in Nat /\ MaxOpens * MaxAddresses \in Nat
  BY <1>1, SocketCount, DirectBounds
<1>3. created <= op.opens * MaxAddresses
  BY <1>1, <1>2 DEF DirectInv, DirectCount
<1> QED
  BY <1>1, <1>2, <1>3 DEF Direct!Sockets

\* Sockets that are closed lose what waits in them.
LEMMA DropEmpties ==
    ASSUME DirectInv, NEW S, Direct!Drop(S)
    PROVE  /\ sockets' = sockets \ S /\ inbox' \in [Direct!Sockets -> Seq(Nat)]
           /\ \A s \in Direct!Sockets : inbox'[s] = <<>> \/ inbox'[s] = inbox[s]
           /\ \A s \in Direct!Sockets : s \in S => inbox'[s] = <<>>
BY DEF Direct!Drop, DirectInv, DirectTypes

\* The transport is closed.
LEMMA DirectClose ==
    ASSUME DirectInv, Direct!Close
    PROVE  DirectInv'
<1> USE DEF DirectInv
<1>1. /\ op.at = "idle" /\ held # 0 /\ held' = 0
      /\ UNCHANGED <<isData, op, created, asked, sends, received>>
  BY DEF Direct!Close
<1>2. /\ sockets' = sockets \ {held} /\ inbox' \in [Direct!Sockets -> Seq(Nat)]
      /\ \A s \in Direct!Sockets : inbox'[s] = <<>> \/ inbox'[s] = inbox[s]
      /\ inbox' = [s \in Direct!Sockets |-> IF s \in {held} THEN <<>> ELSE inbox[s]]
  BY DropEmpties DEF Direct!Close, Direct!Drop
<1>3. DirectTypes'
  BY <1>1, <1>2 DEF DirectTypes
<1>4. DirectSockets'
  BY <1>1, <1>2 DEF DirectSockets, DirectTypes
<1>5. DirectCount'
  BY <1>1 DEF DirectCount
<1>6. DirectAnswers'
  <2>1. \A s \in Direct!Sockets : inbox'[s] = <<>>
    BY <1>2 DEF DirectAnswers
  <2> QED
    BY <2>1, <1>1 DEF DirectAnswers
<1> QED
  BY <1>3, <1>4, <1>5, <1>6

\* An Open that has addresses to try.
LEMMA OpeningBegins ==
    ASSUME NEW r \in Openings, NEW a \in Nat, NEW b \in Nat
    PROVE  [r EXCEPT !.at = "socket", !.left = a, !.opens = b] \in Openings
BY DEF Openings

\* Open closes the socket held and asks for the addresses.
LEMMA DirectOpen ==
    ASSUME DirectInv, Direct!Open
    PROVE  DirectInv'
<1> USE DEF DirectInv
<1>1. /\ op.at = "idle" /\ op.opens < MaxOpens /\ held' = 0 /\ op \in Openings
      /\ UNCHANGED <<isData, created, asked, sends, received>>
      /\ op.candidate = 0 /\ op.left = 0
  BY DEF Direct!Open, DirectTypes, DirectSockets
<1>2. /\ sockets' = sockets \ ({held} \ {0})
      /\ inbox' \in [Direct!Sockets -> Seq(Nat)]
      /\ inbox' = [s \in Direct!Sockets |-> IF s \in {held} \ {0} THEN <<>> ELSE inbox[s]]
  BY DropEmpties DEF Direct!Open, Direct!Drop
<1>3. \A s \in Direct!Sockets : inbox'[s] = <<>>
  BY <1>2 DEF DirectAnswers, DirectTypes, Direct!Sockets
<1>4. PICK n \in 0..MaxAddresses :
         /\ op'.opens = op.opens + 1 /\ op'.left = n /\ op'.candidate = 0
         /\ n = 0 => op'.at = "idle"
         /\ n # 0 => op'.at = "socket"
         /\ op' \in Openings
  <2>1. op.opens \in Nat /\ op.opens + 1 \in Nat
    BY <1>1 DEF Openings
  <2>2. CASE op' = [op EXCEPT !.opens = @ + 1]
    <3>1. /\ op'.opens = op.opens + 1 /\ op'.left = 0 /\ op'.candidate = 0
          /\ op'.at = "idle" /\ op' \in Openings
      BY <1>1, <2>1, <2>2 DEF Openings
    <3> QED
      BY <3>1, DirectBounds
  <2>3. ASSUME NEW n \in 1..MaxAddresses,
               op' = [op EXCEPT !.at = "socket", !.left = n, !.opens = @ + 1]
        PROVE  /\ op'.opens = op.opens + 1 /\ op'.left = n /\ op'.candidate = 0
               /\ op'.at = "socket" /\ op' \in Openings
    <3>1. op' = [op EXCEPT !.at = "socket", !.left = n, !.opens = op.opens + 1]
      BY <1>1, <2>3 DEF Openings
    <3>2. n \in Nat
      BY DirectBounds
    <3>3. op' \in Openings
      BY <1>1, <2>1, <3>1, <3>2, OpeningBegins, Zenon
    <3> QED
      BY <1>1, <3>1, <3>3 DEF Openings
  <2>4. \/ op' = [op EXCEPT !.opens = @ + 1]
        \/ \E n \in 1..MaxAddresses :
              op' = [op EXCEPT !.at = "socket", !.left = n, !.opens = @ + 1]
    BY DEF Direct!Open
  <2>5. ASSUME NEW n \in 1..MaxAddresses
        PROVE  n \in 0..MaxAddresses /\ n # 0
    BY DirectBounds
  <2> QED
    BY <2>2, <2>3, <2>4, <2>5
<1>5. op.opens \in Nat /\ n \in Nat /\ n <= MaxAddresses
  BY <1>1, DirectBounds DEF Openings
<1>6. DirectTypes'
  BY <1>1, <1>2, <1>4, <1>5, DirectBounds DEF DirectTypes
<1>7. DirectSockets'
  BY <1>1, <1>2, <1>4, <1>5 DEF DirectSockets, DirectTypes
<1>8. DirectCount'
  <2>1. /\ (op.opens + 1) * MaxAddresses = op.opens * MaxAddresses + MaxAddresses
        /\ op.opens * MaxAddresses \in Nat
    BY <1>5, SocketCount, DirectBounds
  <2>2. created + n <= (op.opens + 1) * MaxAddresses
    BY <1>1, <1>4, <1>5, <2>1, DirectBounds DEF DirectCount, DirectTypes
  <2> QED
    BY <1>1, <1>4, <1>5, <2>2 DEF DirectCount
<1>9. DirectAnswers'
  BY <1>1, <1>3, <1>4, <1>5 DEF DirectAnswers
<1> QED
  BY <1>6, <1>7, <1>8, <1>9

\* An Open that goes on with the next address.
LEMMA OpeningGoesOn ==
    ASSUME NEW r \in Openings, NEW n \in Nat, NEW a \in {"idle", "socket"}
    PROVE  [r EXCEPT !.left = n, !.candidate = 0, !.at = a] \in Openings
BY DEF Openings

\* What the next address makes of the Open in progress.
LEMMA NextAddressCount ==
    ASSUME DirectInv, op.left > 0, op' = Direct!NextAddress
    PROVE  /\ op' \in Openings /\ op'.left = op.left - 1 /\ op'.candidate = 0
           /\ op'.opens = op.opens
           /\ op.left = 1 => op'.at = "idle"
           /\ op.left # 1 => op'.at = "socket"
<1>1. op \in Openings /\ op.left - 1 \in Nat
  BY DEF DirectInv, DirectTypes, Openings
<1>2. PICK a : a = IF op.left = 1 THEN "idle" ELSE "socket"
  OBVIOUS
<1>3. op' = [op EXCEPT !.left = op.left - 1, !.candidate = 0, !.at = a]
  BY <1>1, <1>2 DEF Direct!NextAddress, Openings
<1>4. a \in {"idle", "socket"}
  BY <1>2
<1>5. op' \in Openings
  <2>1. [op EXCEPT !.left = op.left - 1, !.candidate = 0, !.at = a] \in Openings
    BY <1>1, <1>4, OpeningGoesOn, Zenon
  <2> QED
    BY <1>3, <2>1, Zenon
<1>6. /\ op'.left = op.left - 1 /\ op'.candidate = 0 /\ op'.opens = op.opens
      /\ op'.at = a
  BY <1>1, <1>3 DEF Openings
<1> QED
  BY <1>2, <1>5, <1>6

\* The next address after a candidate that was closed, or without one.
LEMMA NextAddressKeeps ==
    ASSUME DirectInv, op.at \in {"socket", "bind", "connect"},
           op' = Direct!NextAddress, sockets' = {},
           inbox' \in [Direct!Sockets -> Seq(Nat)],
           \A s \in Direct!Sockets : inbox'[s] = <<>>,
           UNCHANGED <<isData, held, created, asked, sends, received>>
    PROVE  DirectInv'
<1> USE DEF DirectInv
<1>1. /\ held = 0 /\ op.left > 0 /\ op.left \in Nat /\ created \in Nat
      /\ op.opens \in Nat
  BY DEF DirectSockets, DirectTypes, Openings
<1>2. /\ op' \in Openings /\ op'.left = op.left - 1 /\ op'.candidate = 0
      /\ op'.opens = op.opens
      /\ op.left = 1 => op'.at = "idle"
      /\ op.left # 1 => op'.at = "socket"
  BY <1>1, NextAddressCount
<1>3. DirectTypes'
  BY <1>1, <1>2 DEF DirectTypes
<1>4. DirectSockets'
  BY <1>1, <1>2 DEF DirectSockets
<1>5. DirectCount'
  <2>1. op.opens * MaxAddresses \in Nat
    BY <1>1, SocketCount, DirectBounds
  <2>2. created + op.left <= op.opens * MaxAddresses + 1
    BY <1>1, <2>1 DEF DirectCount
  <2>3. created + (op.left - 1) <= op.opens * MaxAddresses
    BY <1>1, <2>1, <2>2
  <2> QED
    BY <1>2, <2>3, <1>1 DEF DirectCount
<1>6. DirectAnswers'
  BY <1>1, <1>2 DEF DirectAnswers
<1> QED
  BY <1>3, <1>4, <1>5, <1>6

\* While a candidate is tried no socket is held and nothing waits.
LEMMA NothingWaits ==
    ASSUME DirectInv, op.at \in {"socket", "bind", "connect"}
    PROVE  /\ held = 0 /\ inbox \in [Direct!Sockets -> Seq(Nat)]
           /\ \A s \in Direct!Sockets : inbox[s] = <<>>
           /\ sockets = {op.candidate} \ {0}
BY DEF DirectInv, DirectSockets, DirectAnswers, DirectTypes, Direct!Sockets

\* A candidate is closed and the next address tried.
LEMMA CandidateFails ==
    ASSUME DirectInv, op.at \in {"bind", "connect"},
           op' = Direct!NextAddress, Direct!CloseCandidate,
           UNCHANGED <<isData, held, created, asked, sends, received>>
    PROVE  DirectInv'
<1>1. /\ sockets' = sockets \ {op.candidate} /\ inbox' \in [Direct!Sockets -> Seq(Nat)]
      /\ \A s \in Direct!Sockets : inbox'[s] = <<>> \/ inbox'[s] = inbox[s]
  BY DropEmpties DEF Direct!CloseCandidate
<1>2. sockets' = {} /\ \A s \in Direct!Sockets : inbox'[s] = <<>>
  BY <1>1, NothingWaits
<1> QED
  BY <1>1, <1>2, NextAddressKeeps

\* An Open that has a candidate.
LEMMA OpeningHas ==
    ASSUME NEW r \in Openings, NEW n \in Nat, NEW a \in {"bind", "connect"}
    PROVE  [r EXCEPT !.at = a, !.candidate = n] \in Openings
BY DEF Openings

\* A socket is created for an address, or the next address is tried.
LEMMA DirectSocket ==
    ASSUME DirectInv, Direct!Socket
    PROVE  DirectInv'
<1> USE DEF DirectInv
<1>1. /\ op.at = "socket" /\ UNCHANGED <<isData, held, inbox, asked, sends, received>>
  BY DEF Direct!Socket
<1>2. /\ held = 0 /\ inbox \in [Direct!Sockets -> Seq(Nat)] /\ sockets = {}
      /\ \A s \in Direct!Sockets : inbox[s] = <<>>
  BY <1>1, NothingWaits DEF DirectSockets
<1>3. CASE op' = Direct!NextAddress /\ UNCHANGED <<created, sockets>>
  BY <1>1, <1>2, <1>3, NextAddressKeeps
<1>4. CASE /\ created' = created + 1
           /\ sockets' = sockets \cup {created + 1}
           /\ op' = [op EXCEPT !.at = IF isData THEN "bind" ELSE "connect",
                               !.candidate = created + 1]
  <2>1. /\ op \in Openings /\ created \in Nat /\ created + 1 \in Nat /\ op.left > 0
        /\ op.left \in Nat /\ op.opens \in Nat
    BY <1>1 DEF DirectTypes, DirectSockets, Openings
  <2>2. PICK a : a = IF isData THEN "bind" ELSE "connect"
    OBVIOUS
  <2>3. a \in {"bind", "connect"}
    BY <2>2
  <2>4. op' = [op EXCEPT !.at = a, !.candidate = created + 1]
    BY <1>4, <2>2
  <2>5. op' \in Openings
    <3>1. [op EXCEPT !.at = a, !.candidate = created + 1] \in Openings
      BY <2>1, <2>3, OpeningHas, Zenon
    <3> QED
      BY <2>4, <3>1, Zenon
  <2>6. /\ op'.at = a /\ op'.candidate = created + 1 /\ op'.left = op.left
        /\ op'.opens = op.opens
    BY <2>1, <2>4 DEF Openings
  <2>7. DirectTypes'
    BY <1>1, <1>2, <1>4, <2>1, <2>5, <2>6 DEF DirectTypes
  <2>8. DirectSockets'
    BY <1>1, <1>2, <1>4, <2>1, <2>3, <2>6 DEF DirectSockets
  <2>9. DirectCount'
    <3>1. op.opens * MaxAddresses \in Nat
      BY <2>1, SocketCount, DirectBounds
    <3>2. created + op.left <= op.opens * MaxAddresses
      BY <1>1 DEF DirectCount
    <3>3. (created + 1) + op.left <= op.opens * MaxAddresses + 1
      BY <2>1, <3>1, <3>2
    <3> QED
      BY <1>4, <2>3, <2>6, <3>3 DEF DirectCount
  <2>10. DirectAnswers'
    <3>1. ASSUME NEW r \in asked
          PROVE  r.from <= created + 1 /\ r.from # 0 /\ r.from # created + 1
      BY <2>1 DEF DirectAnswers, DirectTypes
    <3> QED
      BY <1>1, <1>2, <1>4, <2>6, <3>1 DEF DirectAnswers
  <2> QED
    BY <2>7, <2>8, <2>9, <2>10
<1> QED
  BY <1>3, <1>4 DEF Direct!Socket

\* The data receiver binds its candidate.
LEMMA DirectBind ==
    ASSUME DirectInv, Direct!Bind
    PROVE  DirectInv'
<1> USE DEF DirectInv
<1>1. /\ op.at = "bind" /\ UNCHANGED <<isData, held, created, asked, sends, received>>
  BY DEF Direct!Bind
<1>2. CASE op' = Direct!NextAddress /\ Direct!CloseCandidate
  BY <1>1, <1>2, CandidateFails
<1>3. CASE op' = [op EXCEPT !.at = "connect"] /\ UNCHANGED <<sockets, inbox>>
  <2>1. /\ op' \in Openings /\ op'.at = "connect" /\ op'.candidate = op.candidate
        /\ op'.left = op.left /\ op'.opens = op.opens
    BY <1>3 DEF DirectTypes, Openings
  <2>2. DirectTypes'
    BY <1>1, <1>3, <2>1 DEF DirectTypes
  <2>3. DirectSockets'
    BY <1>1, <1>3, <2>1 DEF DirectSockets
  <2>4. DirectCount'
    BY <1>1, <1>3, <2>1 DEF DirectCount
  <2>5. DirectAnswers'
    BY <1>1, <1>3, <2>1 DEF DirectAnswers
  <2> QED
    BY <2>2, <2>3, <2>4, <2>5
<1> QED
  BY <1>2, <1>3 DEF Direct!Bind

\* An Open that found its address.
LEMMA OpeningEnds ==
    ASSUME NEW r \in Openings, NEW a \in {"timeouts", "idle"}
    PROVE  [r EXCEPT !.at = a, !.left = 0, !.candidate = 0] \in Openings
BY DEF Openings

\* A candidate that connects is the socket held.
LEMMA DirectConnect ==
    ASSUME DirectInv, Direct!Connect
    PROVE  DirectInv'
<1> USE DEF DirectInv
<1>1. /\ op.at = "connect" /\ UNCHANGED <<isData, created, asked, sends, received>>
  BY DEF Direct!Connect
<1>2. CASE op' = Direct!NextAddress /\ Direct!CloseCandidate /\ UNCHANGED held
  BY <1>1, <1>2, CandidateFails
<1>3. CASE /\ held' = op.candidate
           /\ op' = [op EXCEPT !.at = IF isData THEN "timeouts" ELSE "idle",
                               !.left = 0, !.candidate = 0]
           /\ UNCHANGED <<sockets, inbox>>
  <2>1. /\ op \in Openings /\ created \in Nat /\ op.left > 0 /\ op.left \in Nat
        /\ op.opens \in Nat /\ op.candidate # 0 /\ op.candidate \in Nat
        /\ op.candidate <= created /\ held = 0
    BY <1>1 DEF DirectTypes, DirectSockets, Openings
  <2>2. PICK a : a = IF isData THEN "timeouts" ELSE "idle"
    OBVIOUS
  <2>3. a \in {"timeouts", "idle"}
    BY <2>2
  <2>4. op' = [op EXCEPT !.at = a, !.left = 0, !.candidate = 0]
    BY <1>3, <2>2
  <2>5. op' \in Openings
    <3>1. [op EXCEPT !.at = a, !.left = 0, !.candidate = 0] \in Openings
      BY <2>1, <2>3, OpeningEnds, Zenon
    <3> QED
      BY <2>4, <3>1, Zenon
  <2>6. /\ op'.at = a /\ op'.candidate = 0 /\ op'.left = 0 /\ op'.opens = op.opens
    BY <2>1, <2>4 DEF Openings
  <2>7. /\ \A s \in Direct!Sockets : inbox[s] = <<>>
        /\ sockets = {op.candidate} \ {0}
    BY <1>1, NothingWaits
  <2>8. DirectTypes'
    BY <1>1, <1>3, <2>1, <2>5, <2>6 DEF DirectTypes
  <2>9. DirectSockets'
    BY <1>1, <1>3, <2>1, <2>3, <2>6, <2>7 DEF DirectSockets
  <2>10. DirectCount'
    <3>1. op.opens * MaxAddresses \in Nat
      BY <2>1, SocketCount, DirectBounds
    <3>2. created + op.left <= op.opens * MaxAddresses + 1
      BY <1>1 DEF DirectCount
    <3>3. created + 0 <= op.opens * MaxAddresses
      BY <2>1, <3>1, <3>2
    <3> QED
      BY <1>1, <2>3, <2>6, <3>3 DEF DirectCount
  <2>11. DirectAnswers'
    BY <1>1, <1>3, <2>6, <2>7 DEF DirectAnswers
  <2> QED
    BY <2>8, <2>9, <2>10, <2>11
<1> QED
  BY <1>2, <1>3 DEF Direct!Connect

\* The data receiver sets its timeouts, or closes the socket again.
LEMMA DirectSetTimeouts ==
    ASSUME DirectInv, Direct!SetTimeouts
    PROVE  DirectInv'
<1> USE DEF DirectInv
<1>1. /\ op.at = "timeouts" /\ op' = [op EXCEPT !.at = "idle"]
      /\ UNCHANGED <<isData, created, asked, sends, received>>
  BY DEF Direct!SetTimeouts
<1>2. /\ op' \in Openings /\ op'.at = "idle" /\ op'.candidate = op.candidate
      /\ op'.left = op.left /\ op'.opens = op.opens
  BY <1>1 DEF DirectTypes, Openings
<1>3. DirectCount'
  BY <1>1, <1>2 DEF DirectCount
<1>4. CASE UNCHANGED <<sockets, inbox, held>>
  <2>1. DirectTypes'
    BY <1>1, <1>2, <1>4 DEF DirectTypes
  <2>2. DirectSockets'
    BY <1>1, <1>2, <1>4 DEF DirectSockets
  <2>3. DirectAnswers'
    BY <1>1, <1>2, <1>4 DEF DirectAnswers
  <2> QED
    BY <1>3, <2>1, <2>2, <2>3
<1>5. CASE Direct!Drop({held}) /\ held' = 0
  <2>1. /\ sockets' = sockets \ {held} /\ inbox' \in [Direct!Sockets -> Seq(Nat)]
        /\ inbox' = [s \in Direct!Sockets |-> IF s \in {held} THEN <<>> ELSE inbox[s]]
    BY <1>5, DropEmpties DEF Direct!Drop
  <2>2. \A s \in Direct!Sockets : inbox'[s] = <<>>
    BY <2>1 DEF DirectAnswers
  <2>3. DirectTypes'
    BY <1>1, <1>2, <1>5, <2>1 DEF DirectTypes
  <2>4. DirectSockets'
    BY <1>1, <1>2, <1>5, <2>1 DEF DirectSockets, DirectTypes
  <2>5. DirectAnswers'
    BY <1>1, <1>2, <1>5, <2>2 DEF DirectAnswers
  <2> QED
    BY <1>3, <2>3, <2>4, <2>5
<1> QED
  BY <1>4, <1>5 DEF Direct!SetTimeouts

\* A request leaves from the socket held.
LEMMA DirectSend ==
    ASSUME DirectInv, Direct!Send
    PROVE  DirectInv'
<1> USE DEF DirectInv
<1>1. PICK r : r = [n |-> sends + 1, from |-> held, open |-> op.opens]
  OBVIOUS
<1>2. /\ op.at = "idle" /\ held # 0 /\ sends' = sends + 1
      /\ asked' = asked \cup {r}
      /\ UNCHANGED <<isData, sockets, held, op, created, inbox, received>>
  BY <1>1 DEF Direct!Send
<1>3. /\ r \in [n : Nat, from : Nat, open : Nat] /\ r.from = held /\ r.open = op.opens
      /\ sends' \in Nat
  BY <1>1, <1>2 DEF DirectTypes, Openings
<1>4. DirectTypes'
  BY <1>2, <1>3 DEF DirectTypes
<1>5. DirectSockets'
  BY <1>2 DEF DirectSockets
<1>6. DirectCount'
  BY <1>2 DEF DirectCount
<1>7. DirectAnswers'
  <2>1. /\ r.from <= created /\ r.from # 0 /\ r.from # op.candidate
    BY <1>2, <1>3 DEF DirectSockets
  <2> QED
    BY <1>2, <1>3, <2>1 DEF DirectAnswers
<1> QED
  BY <1>4, <1>5, <1>6, <1>7

\* Only the socket held hears an answer.
LEMMA AnswerIsHeld ==
    ASSUME DirectInv, NEW r \in asked, r.from \in sockets
    PROVE  /\ r.from = held /\ r.open = op.opens /\ held \in Direct!Sockets
           /\ op.opens \in Nat
<1>1. /\ r.from = held /\ held # 0 /\ r.open = op.opens
  BY DEF DirectInv, DirectSockets, DirectAnswers
<1>2. op.at \in {"idle", "timeouts"} /\ held <= created /\ held \in Nat /\ op.opens \in Nat
  BY <1>1 DEF DirectInv, DirectSockets, DirectTypes, Openings
<1> QED
  BY <1>1, <1>2, SocketInRange

\* A datagram that is appended.
LEMMA AppendedIsOne ==
    ASSUME NEW s \in Seq(Nat), NEW n \in Nat, \A i \in 1..Len(s) : s[i] = n
    PROVE  Append(s, n) \in Seq(Nat) /\ \A i \in 1..Len(Append(s, n)) : Append(s, n)[i] = n
OBVIOUS

\* The controller answers the port a request came from.
LEMMA DirectAnswer ==
    ASSUME DirectInv, Direct!Answer
    PROVE  DirectInv'
<1> USE DEF DirectInv
<1>1. PICK r \in asked :
         /\ asked' = asked \ {r}
         /\ inbox' = [inbox EXCEPT ![r.from] =
                         IF r.from \in sockets THEN Append(@, r.open) ELSE @]
         /\ UNCHANGED <<isData, sockets, held, op, created, sends, received>>
  BY DEF Direct!Answer
<1>2. inbox \in [Direct!Sockets -> Seq(Nat)]
  BY DEF DirectTypes
<1>3. /\ inbox' \in [Direct!Sockets -> Seq(Nat)]
      /\ \A s \in Direct!Sockets :
            /\ s # held => inbox'[s] = <<>>
            /\ \A i \in 1..Len(inbox'[s]) : inbox'[s][i] = op.opens
  <2>1. CASE r.from \notin sockets
    <3>1. inbox' = inbox
      BY <1>1, <1>2, <2>1
    <3> QED
      BY <1>2, <3>1 DEF DirectAnswers
  <2>2. CASE r.from \in sockets
    <3>1. /\ r.from = held /\ r.open = op.opens /\ held \in Direct!Sockets
          /\ op.opens \in Nat
      BY <2>2, AnswerIsHeld
    <3>2. inbox' = [inbox EXCEPT ![held] = Append(inbox[held], op.opens)]
      BY <1>1, <1>2, <2>2, <3>1
    <3>3. PICK q : q = Append(inbox[held], op.opens)
      OBVIOUS
    <3>4. q \in Seq(Nat) /\ \A i \in 1..Len(q) : q[i] = op.opens
      BY <1>2, <3>1, <3>3, AppendedIsOne DEF DirectAnswers
    <3>5. inbox' = [inbox EXCEPT ![held] = q]
      BY <3>2, <3>3
    <3> QED
      BY <1>2, <3>1, <3>4, <3>5 DEF DirectAnswers
  <2> QED
    BY <2>1, <2>2
<1>4. DirectTypes'
  BY <1>1, <1>3 DEF DirectTypes
<1>5. DirectSockets'
  BY <1>1 DEF DirectSockets
<1>6. DirectCount'
  BY <1>1 DEF DirectCount
<1>7. DirectAnswers'
  BY <1>1, <1>3 DEF DirectAnswers
<1> QED
  BY <1>4, <1>5, <1>6, <1>7

\* A datagram that is taken.
LEMMA TakenIsOne ==
    ASSUME NEW s \in Seq(Nat), NEW n, \A i \in 1..Len(s) : s[i] = n, s # <<>>
    PROVE  /\ Tail(s) \in Seq(Nat) /\ \A i \in 1..Len(Tail(s)) : Tail(s)[i] = n
           /\ Head(s) = n
OBVIOUS

\* The transport receives what waits in the socket held.
LEMMA DirectReceive ==
    ASSUME DirectInv, Direct!Receive
    PROVE  DirectInv'
<1> USE DEF DirectInv
<1>1. /\ op.at = "idle" /\ held # 0 /\ inbox[held] # <<>>
      /\ inbox' = [inbox EXCEPT ![held] = Tail(inbox[held])]
      /\ received' = [by |-> op.opens, of |-> Head(inbox[held])]
      /\ UNCHANGED <<isData, sockets, held, op, created, asked, sends>>
  BY DEF Direct!Receive
<1>2. /\ inbox \in [Direct!Sockets -> Seq(Nat)] /\ held \in Nat /\ held <= created
      /\ op.opens \in Nat
  BY DEF DirectTypes, DirectSockets, Openings
<1>3. held \in Direct!Sockets
  BY <1>1, <1>2, SocketInRange
<1>4. /\ inbox[held] \in Seq(Nat)
      /\ \A i \in 1..Len(inbox[held]) : inbox[held][i] = op.opens
  BY <1>2, <1>3 DEF DirectAnswers
<1>5. PICK q : q = Tail(inbox[held])
  OBVIOUS
<1>6. /\ q \in Seq(Nat) /\ \A i \in 1..Len(q) : q[i] = op.opens
      /\ Head(inbox[held]) = op.opens
  BY <1>1, <1>4, <1>5, TakenIsOne
<1>7. inbox' = [inbox EXCEPT ![held] = q]
  BY <1>1, <1>5
<1>8. /\ inbox' \in [Direct!Sockets -> Seq(Nat)]
      /\ \A s \in Direct!Sockets :
            /\ s # held => inbox'[s] = <<>>
            /\ \A i \in 1..Len(inbox'[s]) : inbox'[s][i] = op.opens
  BY <1>2, <1>3, <1>6, <1>7 DEF DirectAnswers
<1>9. received' \in [by : Nat, of : Nat] /\ received'.of = received'.by
  BY <1>1, <1>2, <1>6
<1>10. DirectTypes'
  BY <1>1, <1>8, <1>9 DEF DirectTypes
<1>11. DirectSockets'
  BY <1>1 DEF DirectSockets
<1>12. DirectCount'
  BY <1>1 DEF DirectCount
<1>13. DirectAnswers'
  BY <1>1, <1>8, <1>9 DEF DirectAnswers
<1> QED
  BY <1>10, <1>11, <1>12, <1>13

\* The transport begins closed.
LEMMA DirectInitially == Direct!Init => DirectInv
<1> SUFFICES ASSUME Direct!Init PROVE DirectInv
  OBVIOUS
<1> USE DEF Direct!Init
<1>1. op \in Openings /\ op.at = "idle" /\ op.left = 0 /\ op.candidate = 0 /\ op.opens = 0
  BY DEF Direct!Idle, Openings
<1>2. DirectTypes
  BY <1>1, DirectBounds DEF DirectTypes
<1>3. DirectSockets
  BY <1>1 DEF DirectSockets
<1>4. DirectCount
  BY <1>1, DirectBounds DEF DirectCount
<1>5. DirectAnswers
  BY <1>1 DEF DirectAnswers
<1> QED
  BY <1>2, <1>3, <1>4, <1>5 DEF DirectInv

\* A step of the other components.
LEMMA DirectStutter == DirectInv /\ UNCHANGED direct => DirectInv'
<1> SUFFICES ASSUME DirectInv, UNCHANGED direct PROVE DirectInv'
  OBVIOUS
<1> USE DEF direct, DirectInv
<1>1. DirectTypes'
  BY DEF DirectTypes
<1>2. DirectSockets'
  BY DEF DirectSockets
<1>3. DirectCount'
  BY DEF DirectCount
<1>4. DirectAnswers'
  BY DEF DirectAnswers
<1> QED
  BY <1>1, <1>2, <1>3, <1>4

\* Every step of a direct transport keeps its invariant.
LEMMA DirectStep == DirectInv /\ Direct!Next => DirectInv'
BY DirectClose, DirectOpen, DirectSocket, DirectBind, DirectConnect,
   DirectSetTimeouts, DirectSend, DirectAnswer, DirectReceive DEF Direct!Next

\* The direct transport in the composition.
DirectInPart == part = "direct" => DirectInv

\* The transport moves in its part only.
LEMMA DirectAlone ==
    ASSUME [Next]_vars
    PROVE  /\ part' = part
           /\ part = "direct" => Direct!Next \/ UNCHANGED direct
BY DEF Next, vars, TransactionSteps, DirectSteps, BridgeSteps, StartSteps,
       DecoderSteps, ReceiverSteps

\* The invariant of the direct transports.
LEMMA DirectInvariant == Spec => []DirectInPart
<1>1. Init => DirectInPart
  BY DirectInitially DEF Init, DirectInPart
<1>2. DirectInPart /\ [Next]_vars => DirectInPart'
  BY DirectAlone, DirectStep, DirectStutter DEF DirectInPart
<1> QED
  BY <1>1, <1>2, PTL DEF Spec

(***************************************************************************)
(* No answer is taken for that of another request, for any number of       *)
(* operations, attempts, addresses and Opens: neither one an earlier       *)
(* operation left behind under the same reference (RunStackTransaction),   *)
(* nor one asked for before the transport was opened again, and no path    *)
(* through Open leaks a socket (MvlcCommandTransport.cpp Open, Close).     *)
(***************************************************************************)
THEOREM AnswersStayOwn == Spec => []AnswersAreOwn
<1>1. TxInv /\ DirectInPart => AnswersAreOwn
  <2>1. DirectInv => Direct!AnswersAreOfThisOpen /\ Direct!NoSocketLeaks
    BY DEF DirectInv, DirectSockets, DirectAnswers, Direct!AnswersAreOfThisOpen,
           Direct!NoSocketLeaks
  <2> QED
    BY <2>1, TxAnswersAreFresh DEF DirectInPart, AnswersAreOwn
<1> QED
  BY <1>1, TxInvariant, DirectInvariant, PTL

----------------------------------------------------------------------------
(***************************************************************************)
(* The receiver.  What an acquisition shows is its own because the queue   *)
(* of the worker is in order: a start that is accepted has only starts     *)
(* behind it, so nothing an earlier thread posted is left when the         *)
(* acquisition runs; and while it runs a start still waiting is ahead of   *)
(* everything posted since, so it is refused before any stop is served.    *)
(***************************************************************************)
Waves == [run : Nat, source : Nat, value : Nat]
Streams == [waves : Seq(Waves), run : Nat, error : BOOLEAN]
Tasks == [kind : {"start", "stop", "source", "preview", "stream"}, stream : Streams]
Modules == [on : BOOLEAN, source : Nat, value : Nat, hits : Nat, changes : Nat]
Threads == [at : {"off", "receive", "post", "last", "lastPost"}, stop : BOOLEAN,
            fails : BOOLEAN, copy : Seq(Waves), posts : Nat]
Services == [at : {"idle", "launch", "write", "clear", "show", "join", "joining"},
             task : {"none", "start", "stop", "source", "preview", "stream"}]

OneSource(waves) ==
    \A i, j \in 1..Len(waves) : waves[i].source = waves[j].source

\* The type of every variable of the receiver and its worker.
StreamTypes ==
    /\ module \in Modules /\ socket \in Seq(Waves) /\ history \in Seq(Waves)
    /\ thread \in Threads /\ stored \in Streams /\ tasks \in Seq(Tasks)
    /\ service \in Services /\ run \in Nat /\ shown \in Streams
    /\ state \in {"NotRun", "Running", "Stopping", "Stopped"}

\* Everything on the way from the decoder to the front end has one source.
StreamSources ==
    /\ OneSource(history) /\ OneSource(thread.copy)
    /\ OneSource(stored.waves) /\ OneSource(shown.waves)
    /\ \A i \in 1..Len(tasks) : OneSource(tasks[i].stream.waves)

\* What the worker does in each state; the thread ends before Stopped.
StreamStates ==
    /\ state = "Stopping" <=> service.at = "joining"
    /\ service.at = "launch" => state \in {"NotRun", "Stopped"}
    /\ service.at \in {"write", "clear", "show", "join"} => state = "Running"
    /\ state \in {"NotRun", "Stopped"} => thread.at = "off"

\* Where a start can be in the queue.
StreamQueue ==
    /\ \A i \in 1..Len(tasks) : tasks[i].kind = "start" => tasks[i].stream.run = 0
    /\ \A i \in 1..Len(tasks) :
          /\ service.at = "launch" => tasks[i].kind = "start"
          /\ service.at \in {"join", "joining"} => tasks[i].kind # "start"
    /\ \A i, j \in 1..Len(tasks) : i < j =>
          /\ state \in {"NotRun", "Stopped"} =>
                (tasks[i].kind = "start" => tasks[j].kind = "start")
          /\ state = "Running" =>
                (tasks[j].kind = "start" => tasks[i].kind = "start")

\* Every stream about is that of the acquisition that runs.
Current(s) == s.run \in {0, run}
StreamRuns ==
    state \in {"Running", "Stopping"} =>
        /\ Current(stored) /\ Current(shown)
        /\ \A i \in 1..Len(tasks) : Current(tasks[i].stream)

StreamInv ==
    StreamTypes /\ StreamSources /\ StreamStates /\ StreamQueue /\ StreamRuns

\* The worker takes the oldest task.
LEMMA TaskTaken ==
    ASSUME StreamInv, NEW k, NEW a, Receiver!Begin(k, a)
    PROVE  /\ service.at = "idle" /\ service' = [at |-> a, task |-> k]
           /\ 1 \in 1..Len(tasks) /\ Head(tasks) = tasks[1] /\ tasks[1].kind = k
           /\ tasks[1] \in Tasks /\ tasks' \in Seq(Tasks)
           /\ \A i \in 1..Len(tasks') :
                 /\ i \in Nat /\ i + 1 \in 1..Len(tasks) /\ tasks'[i] = tasks[i + 1]
BY DEF Receiver!Begin, StreamInv, StreamTypes

\* A task is queued behind the others.
LEMMA TaskQueued ==
    ASSUME StreamInv, NEW t \in Tasks, tasks' = Append(tasks, t)
    PROVE  /\ tasks' \in Seq(Tasks) /\ Len(tasks') = Len(tasks) + 1 /\ Len(tasks) \in Nat
           /\ tasks'[Len(tasks) + 1] = t
           /\ \A i \in 1..Len(tasks) : tasks'[i] = tasks[i]
           /\ \A i \in 1..Len(tasks') : i \in 1..Len(tasks) \/ i = Len(tasks) + 1
BY DEF StreamInv, StreamTypes

\* What a queue that lost its oldest task still satisfies.
LEMMA TakenSources ==
    ASSUME StreamInv, NEW k, NEW a, Receiver!Begin(k, a)
    PROVE  /\ \A i \in 1..Len(tasks') : OneSource(tasks'[i].stream.waves)
           /\ \A i \in 1..Len(tasks') :
                 tasks'[i].kind = "start" => tasks'[i].stream.run = 0
           /\ \A i, j \in 1..Len(tasks') : i < j =>
                 /\ state \in {"NotRun", "Stopped"} =>
                       (tasks'[i].kind = "start" => tasks'[j].kind = "start")
                 /\ state = "Running" =>
                       (tasks'[j].kind = "start" => tasks'[i].kind = "start")
           /\ state \in {"Running", "Stopping"} =>
                 \A i \in 1..Len(tasks') : Current(tasks'[i].stream)
<1>1. \A i \in 1..Len(tasks') :
         /\ i \in Nat /\ i + 1 \in 1..Len(tasks) /\ tasks'[i] = tasks[i + 1]
  BY TaskTaken
<1>2. ASSUME NEW i \in 1..Len(tasks')
      PROVE  /\ OneSource(tasks'[i].stream.waves)
             /\ tasks'[i].kind = "start" => tasks'[i].stream.run = 0
             /\ state \in {"Running", "Stopping"} => Current(tasks'[i].stream)
  <2>1. i + 1 \in 1..Len(tasks) /\ tasks'[i] = tasks[i + 1]
    BY <1>1
  <2>2. PICK m \in 1..Len(tasks) : tasks'[i] = tasks[m]
    BY <2>1
  <2> QED
    BY <2>2 DEF StreamInv, StreamSources, StreamQueue, StreamRuns
<1>3. ASSUME NEW i \in 1..Len(tasks'), NEW j \in 1..Len(tasks'), i < j
      PROVE  /\ state \in {"NotRun", "Stopped"} =>
                   (tasks'[i].kind = "start" => tasks'[j].kind = "start")
             /\ state = "Running" =>
                   (tasks'[j].kind = "start" => tasks'[i].kind = "start")
  <2>1. /\ i + 1 \in 1..Len(tasks) /\ tasks'[i] = tasks[i + 1]
        /\ j + 1 \in 1..Len(tasks) /\ tasks'[j] = tasks[j + 1]
        /\ i + 1 < j + 1
    BY <1>1, <1>3
  <2>2. PICK m \in 1..Len(tasks), n \in 1..Len(tasks) :
           tasks'[i] = tasks[m] /\ tasks'[j] = tasks[n] /\ m < n
    BY <2>1
  <2> QED
    BY <2>2 DEF StreamInv, StreamQueue
<1> QED
  BY <1>2, <1>3

\* The module after a hit.
LEMMA ModuleCounts ==
    ASSUME NEW r \in Modules, NEW n \in Nat
    PROVE  [r EXCEPT !.hits = n] \in Modules
BY DEF Modules

\* A waveform arrives.
LEMMA StreamHit ==
    ASSUME StreamInv, Receiver!Hit
    PROVE  StreamInv'
<1> USE DEF StreamInv
<1>1. /\ module' = [module EXCEPT !.hits = module.hits + 1]
      /\ socket' = Append(socket, [run |-> run, source |-> module.source,
                                   value |-> module.value])
      /\ UNCHANGED <<history, thread, stored, tasks, service, state, run, shown>>
  BY DEF Receiver!Hit
<1>2. module' \in Modules
  <2>1. module \in Modules /\ module.hits + 1 \in Nat
    BY DEF StreamTypes, Modules
  <2>2. [module EXCEPT !.hits = module.hits + 1] \in Modules
    BY <2>1, ModuleCounts, Zenon
  <2> QED
    BY <1>1, <2>2, Zenon
<1>3. socket' \in Seq(Waves)
  <2>1. [run |-> run, source |-> module.source, value |-> module.value] \in Waves
    BY DEF StreamTypes, Modules, Waves
  <2> QED
    BY <1>1, <2>1 DEF StreamTypes
<1>4. StreamTypes'
  BY <1>1, <1>2, <1>3 DEF StreamTypes
<1>5. StreamSources'
  BY <1>1 DEF StreamSources, OneSource
<1>6. StreamStates'
  BY <1>1 DEF StreamStates
<1>7. StreamQueue'
  BY <1>1 DEF StreamQueue
<1>8. StreamRuns'
  BY <1>1 DEF StreamRuns, Current
<1> QED
  BY <1>4, <1>5, <1>6, <1>7, <1>8

\* What the decoder keeps has one source.
LEMMA KeptIsOne ==
    ASSUME NEW h \in Seq(Waves), NEW w \in Waves, OneSource(h)
    PROVE  Receiver!Keep(h, w) \in Seq(Waves) /\ OneSource(Receiver!Keep(h, w))
<1>1. CASE h = <<>>
  <2>1. Receiver!Keep(h, w) = Append(h, w)
    BY <1>1 DEF Receiver!Keep
  <2>2. /\ Append(h, w) \in Seq(Waves) /\ Len(Append(h, w)) = 1
    BY <1>1
  <2> QED
    BY <2>1, <2>2 DEF OneSource
<1>2. CASE h # <<>> /\ h[Len(h)].source # w.source
  <2>1. Receiver!Keep(h, w) = <<w>>
    BY <1>2 DEF Receiver!Keep, Receiver!Last
  <2>2. <<w>> \in Seq(Waves) /\ Len(<<w>>) = 1
    OBVIOUS
  <2> QED
    BY <2>1, <2>2 DEF OneSource
<1>3. CASE h # <<>> /\ h[Len(h)].source = w.source
  <2>1. Receiver!Keep(h, w) = Append(h, w)
    BY <1>3 DEF Receiver!Keep, Receiver!Last
  <2>2. PICK q : q = Append(h, w)
    OBVIOUS
  <2>3. /\ q \in Seq(Waves) /\ Len(h) \in 1..Len(h)
        /\ \A i \in 1..Len(q) : \/ i \in 1..Len(h) /\ q[i] = h[i]
                                \/ q[i] = w
    BY <1>3, <2>2
  <2>4. ASSUME NEW i \in 1..Len(q) PROVE q[i].source = w.source
    BY <1>3, <2>3 DEF OneSource
  <2> QED
    BY <2>1, <2>2, <2>3, <2>4 DEF OneSource
<1> QED
  BY <1>1, <1>2, <1>3

\* The thread receives and decodes a waveform.
LEMMA StreamReceive ==
    ASSUME StreamInv, Receiver!Receive
    PROVE  StreamInv'
<1> USE DEF StreamInv
<1>1. /\ socket # <<>> /\ history' = Receiver!Keep(history, Head(socket))
      /\ socket' = Tail(socket)
      /\ UNCHANGED <<module, thread, stored, tasks, service, state, run, shown>>
  BY DEF Receiver!Receive
<1>2. Head(socket) \in Waves /\ socket' \in Seq(Waves)
  BY <1>1 DEF StreamTypes
<1>3. history' \in Seq(Waves) /\ OneSource(history')
  <2>1. history \in Seq(Waves) /\ OneSource(history)
    BY DEF StreamTypes, StreamSources
  <2> QED
    BY <1>1, <1>2, <2>1, KeptIsOne
<1>4. StreamTypes'
  BY <1>1, <1>2, <1>3 DEF StreamTypes
<1>5. StreamSources'
  <2>1. OneSource(history)'
    BY <1>3 DEF OneSource
  <2>2. (\A i \in 1..Len(tasks) : OneSource(tasks[i].stream.waves))'
    BY <1>1 DEF StreamSources, OneSource
  <2>3. OneSource(thread.copy)' /\ OneSource(stored.waves)' /\ OneSource(shown.waves)'
    BY <1>1 DEF StreamSources, OneSource
  <2> QED
    BY <2>1, <2>2, <2>3 DEF StreamSources
<1>6. StreamStates'
  BY <1>1 DEF StreamStates
<1>7. StreamQueue'
  BY <1>1 DEF StreamQueue
<1>8. StreamRuns'
  BY <1>1 DEF StreamRuns, Current
<1> QED
  BY <1>4, <1>5, <1>6, <1>7, <1>8

\* The thread moves between receiving and its last publication.
LEMMA StreamThread ==
    ASSUME StreamInv, thread' \in Threads, OneSource(thread'.copy), thread.at # "off",
           UNCHANGED <<module, socket, history, stored, tasks, service, state,
                       run, shown>>
    PROVE  StreamInv'
<1> USE DEF StreamInv
<1>1. state \notin {"NotRun", "Stopped"}
  BY DEF StreamStates
<1>2. StreamTypes'
  BY DEF StreamTypes
<1>3. StreamSources'
  BY DEF StreamSources, OneSource
<1>4. StreamStates'
  BY <1>1 DEF StreamStates
<1>5. StreamQueue'
  BY DEF StreamQueue
<1>6. StreamRuns'
  BY DEF StreamRuns, Current
<1> QED
  BY <1>2, <1>3, <1>4, <1>5, <1>6

\* The thread fails, sees the stop, or copies the histories.
LEMMA StreamThreadMoves ==
    ASSUME StreamInv,
           Receiver!ReceiveFails \/ Receiver!SeesStop \/ Receiver!CopyHistories
    PROVE  StreamInv'
<1>1. thread \in Threads /\ history \in Seq(Waves) /\ OneSource(history)
      /\ OneSource(thread.copy)
  BY DEF StreamInv, StreamTypes, StreamSources
<1>2. CASE Receiver!ReceiveFails
  <2>1. /\ thread' = [thread EXCEPT !.at = "last", !.fails = TRUE] /\ thread.at # "off"
        /\ UNCHANGED <<module, socket, history, stored, tasks, service, state,
                       run, shown>>
    BY <1>2 DEF Receiver!ReceiveFails
  <2>2. thread' \in Threads /\ thread'.copy = thread.copy
    BY <1>1, <2>1 DEF Threads
  <2> QED
    BY <1>1, <2>1, <2>2, StreamThread
<1>3. CASE Receiver!SeesStop
  <2>1. /\ thread' = [thread EXCEPT !.at = "last"] /\ thread.at # "off"
        /\ UNCHANGED <<module, socket, history, stored, tasks, service, state,
                       run, shown>>
    BY <1>3 DEF Receiver!SeesStop
  <2>2. thread' \in Threads /\ thread'.copy = thread.copy
    BY <1>1, <2>1 DEF Threads
  <2> QED
    BY <1>1, <2>1, <2>2, StreamThread
<1>4. CASE Receiver!CopyHistories
  <2>1. /\ \/ thread' = [thread EXCEPT !.at = "post", !.copy = history]
           \/ thread' = [thread EXCEPT !.at = "lastPost", !.copy = history]
        /\ thread.at # "off"
        /\ UNCHANGED <<module, socket, history, stored, tasks, service, state,
                       run, shown>>
    BY <1>4 DEF Receiver!CopyHistories
  <2>2. thread' \in Threads /\ thread'.copy = history
    BY <1>1, <2>1 DEF Threads
  <2> QED
    BY <1>1, <2>1, <2>2, StreamThread
<1> QED
  BY <1>2, <1>3, <1>4

\* What a queue with one more task satisfies.
LEMMA QueuedSources ==
    ASSUME StreamInv, NEW t \in Tasks, tasks' = Append(tasks, t),
           OneSource(t.stream.waves), t.kind = "start" => t.stream.run = 0,
           t.stream.run \in {0, run},
           state' = state, service' = service, run' = run,
           t.kind = "start" => state \in {"NotRun", "Stopped"},
           t.kind # "start" => state \in {"Running", "Stopping"}
    PROVE  /\ (\A i \in 1..Len(tasks) : OneSource(tasks[i].stream.waves))'
           /\ StreamQueue'
           /\ state \in {"Running", "Stopping"} =>
                 \A i \in 1..Len(tasks') : tasks'[i].stream.run \in {0, run}
<1> USE DEF StreamInv
<1>1. /\ Len(tasks') = Len(tasks) + 1 /\ Len(tasks) \in Nat
      /\ tasks'[Len(tasks) + 1] = t
      /\ \A i \in 1..Len(tasks) : tasks'[i] = tasks[i]
      /\ \A i \in 1..Len(tasks') : i \in 1..Len(tasks) \/ i = Len(tasks) + 1
  BY TaskQueued
<1>2. ASSUME NEW i \in 1..Len(tasks')
      PROVE  OneSource(tasks'[i].stream.waves)
  BY <1>1 DEF StreamSources
<1>3. ASSUME NEW i \in 1..Len(tasks')
      PROVE  /\ tasks'[i].kind = "start" => tasks'[i].stream.run = 0
             /\ service.at = "launch" => tasks'[i].kind = "start"
             /\ service.at \in {"join", "joining"} => tasks'[i].kind # "start"
  BY <1>1 DEF StreamQueue, StreamStates
<1>4. ASSUME NEW i \in 1..Len(tasks'), NEW j \in 1..Len(tasks'), i < j
      PROVE  /\ state \in {"NotRun", "Stopped"} =>
                   (tasks'[i].kind = "start" => tasks'[j].kind = "start")
             /\ state = "Running" =>
                   (tasks'[j].kind = "start" => tasks'[i].kind = "start")
  <2>1. i \in 1..Len(tasks) /\ tasks'[i] = tasks[i]
    BY <1>1, <1>4
  <2>2. CASE j \in 1..Len(tasks)
    BY <1>1, <1>4, <2>1, <2>2 DEF StreamQueue
  <2>3. CASE j = Len(tasks) + 1
    BY <1>1, <2>1, <2>3
  <2> QED
    BY <1>1, <2>2, <2>3
<1>5. ASSUME NEW i \in 1..Len(tasks'), state \in {"Running", "Stopping"}
      PROVE  tasks'[i].stream.run \in {0, run}
  BY <1>1, <1>5 DEF StreamRuns, Current
<1>6. StreamQueue'
  BY <1>3, <1>4 DEF StreamQueue
<1>7. (\A i \in 1..Len(tasks) : OneSource(tasks[i].stream.waves))'
  BY <1>2 DEF OneSource
<1> QED
  BY <1>5, <1>6, <1>7

\* The thread after a post.
LEMMA ThreadPosted ==
    ASSUME NEW r \in Threads, NEW n \in Nat, NEW a \in {"receive", "off"},
           NEW q \in Seq(Waves)
    PROVE  [r EXCEPT !.copy = q, !.posts = n, !.at = a] \in Threads
BY DEF Threads

\* A sequence of no waveform has one source.
LEMMA NoneIsOne == OneSource(<<>>) /\ <<>> \in Seq(Waves)
BY DEF OneSource

\* The thread stores and posts what it copied.
LEMMA StreamPost ==
    ASSUME StreamInv, Receiver!Post
    PROVE  StreamInv'
<1> USE DEF StreamInv
<1>1. PICK s, t : /\ s = [waves |-> thread.copy, run |-> run, error |-> thread.fails]
                  /\ t = [kind |-> "stream", stream |-> s]
  OBVIOUS
<1>2. PICK a : a = IF thread.at = "post" THEN "receive" ELSE "off"
  OBVIOUS
<1>3. /\ thread.at \in {"post", "lastPost"} /\ stored' = s /\ tasks' = Append(tasks, t)
      /\ thread' = [thread EXCEPT !.copy = <<>>, !.posts = @ + 1,
                      !.at = IF @ = "post" THEN "receive" ELSE "off"]
      /\ UNCHANGED <<module, socket, history, service, state, run, shown>>
  BY <1>1 DEF Receiver!Post
<1>4. thread \in Threads /\ thread.posts + 1 \in Nat /\ thread.copy \in Seq(Waves)
  BY DEF StreamTypes, Threads
<1>5. /\ s \in Streams /\ s.waves = thread.copy /\ s.run = run
      /\ t \in Tasks /\ t.kind = "stream" /\ t.stream = s
  BY <1>1, <1>4 DEF StreamTypes, Threads, Streams, Tasks
<1>6. thread' = [thread EXCEPT !.copy = <<>>, !.posts = thread.posts + 1, !.at = a]
  BY <1>2, <1>3, <1>4 DEF Threads
<1>7. thread' \in Threads
  <2>1. a \in {"receive", "off"}
    BY <1>2
  <2>2. [thread EXCEPT !.copy = <<>>, !.posts = thread.posts + 1, !.at = a] \in Threads
    BY <1>4, <2>1, NoneIsOne, ThreadPosted, Zenon
  <2> QED
    BY <1>6, <2>2, Zenon
<1>8. thread'.copy = <<>>
  BY <1>4, <1>6 DEF Threads
<1>9. state \in {"Running", "Stopping"}
  BY <1>3 DEF StreamStates, StreamTypes
<1>10. /\ tasks' \in Seq(Tasks) /\ StreamQueue'
       /\ (\A i \in 1..Len(tasks) : OneSource(tasks[i].stream.waves))'
       /\ \A i \in 1..Len(tasks') : tasks'[i].stream.run \in {0, run}
  <2>1. OneSource(t.stream.waves) /\ t.stream.run \in {0, run} /\ t.kind # "start"
    BY <1>5 DEF StreamSources
  <2> QED
    BY <1>3, <1>5, <1>9, <2>1, TaskQueued, QueuedSources
<1>11. StreamTypes'
  BY <1>3, <1>5, <1>7, <1>10 DEF StreamTypes
<1>12. StreamSources'
  <2>1. OneSource(stored.waves)'
    BY <1>3, <1>5 DEF StreamSources, OneSource
  <2>2. OneSource(thread.copy)'
    BY <1>8 DEF OneSource
  <2>3. OneSource(history)' /\ OneSource(shown.waves)'
    BY <1>3 DEF StreamSources, OneSource
  <2> QED
    BY <1>10, <2>1, <2>2, <2>3 DEF StreamSources
<1>13. StreamStates'
  BY <1>3, <1>9 DEF StreamStates
<1>14. StreamRuns'
  BY <1>3, <1>5, <1>9, <1>10 DEF StreamRuns, Current
<1> QED
  BY <1>10, <1>11, <1>12, <1>13, <1>14

\* An empty stream.
LEMMA EmptyStream ==
    /\ Receiver!Empty \in Streams /\ Receiver!Empty.run = 0
    /\ Receiver!Empty.waves = <<>> /\ OneSource(Receiver!Empty.waves)
<1>1. Receiver!Empty \in Streams /\ Receiver!Empty.run = 0 /\ Receiver!Empty.waves = <<>>
  BY DEF Receiver!Empty, Streams
<1> QED
  BY <1>1, NoneIsOne

\* The front end submits a task.
LEMMA StreamSubmit ==
    ASSUME StreamInv, NEW k \in {"start", "stop", "source", "preview"},
           Receiver!Submit(k)
    PROVE  StreamInv'
<1> USE DEF StreamInv
<1>1. PICK t : t = [kind |-> k, stream |-> Receiver!Empty]
  OBVIOUS
<1>2. /\ tasks' = Append(tasks, t)
      /\ k = "start" => state \in {"NotRun", "Stopped"}
      /\ k # "start" => state = "Running"
      /\ UNCHANGED <<module, socket, history, thread, stored, service, state, run,
                     shown>>
  BY <1>1 DEF Receiver!Submit
<1>3. t \in Tasks /\ t.kind = k /\ t.stream = Receiver!Empty
  BY <1>1, EmptyStream DEF Tasks
<1>4. /\ tasks' \in Seq(Tasks) /\ StreamQueue'
      /\ (\A i \in 1..Len(tasks) : OneSource(tasks[i].stream.waves))'
      /\ state \in {"Running", "Stopping"} =>
            \A i \in 1..Len(tasks') : tasks'[i].stream.run \in {0, run}
  BY <1>2, <1>3, EmptyStream, TaskQueued, QueuedSources
<1>5. StreamTypes'
  BY <1>2, <1>4 DEF StreamTypes
<1>6. StreamSources'
  <2>1. OneSource(history)' /\ OneSource(thread.copy)' /\ OneSource(stored.waves)'
        /\ OneSource(shown.waves)'
    BY <1>2, SMTT(40) DEF StreamSources, OneSource
  <2> QED
    BY <1>4, <2>1 DEF StreamSources
<1>7. StreamStates'
  BY <1>2 DEF StreamStates
<1>8. StreamRuns'
  BY <1>2, <1>4 DEF StreamRuns, Current
<1> QED
  BY <1>4, <1>5, <1>6, <1>7, <1>8

\* The worker takes a task: a start that is accepted leaves only starts in
\* the queue, and the end of an acquisition leaves none.
LEMMA StreamTakes ==
    ASSUME StreamInv, NEW k \in {"start", "stop", "source", "preview", "stream"},
           NEW a \in {"idle", "launch", "write", "join"}, Receiver!Begin(k, a),
           history' = history, thread' = thread, stored' = stored, state' = state,
           module' \in Modules, socket' \in Seq(Waves), run' \in Nat,
           shown' \in Streams, OneSource(shown'.waves),
           state = "Running" => run' = run /\ shown'.run \in {0, run},
           a = "launch" => state \in {"NotRun", "Stopped"} /\ k = "start",
           a \in {"write", "join"} => state = "Running",
           a = "join" => k # "start"
    PROVE  StreamInv'
<1> USE DEF StreamInv
<1>1. /\ service.at = "idle" /\ service' = [at |-> a, task |-> k]
      /\ 1 \in 1..Len(tasks) /\ tasks[1].kind = k
      /\ tasks' \in Seq(Tasks)
      /\ \A i \in 1..Len(tasks') :
            /\ i \in Nat /\ i + 1 \in 1..Len(tasks) /\ tasks'[i] = tasks[i + 1]
  BY TaskTaken
<1>2. /\ service' \in Services /\ service'.at = a
  BY <1>1 DEF Services
<1>3. state # "Stopping"
  BY <1>1 DEF StreamStates
<1>4. /\ \A i \in 1..Len(tasks') : OneSource(tasks'[i].stream.waves)
      /\ \A i \in 1..Len(tasks') :
            tasks'[i].kind = "start" => tasks'[i].stream.run = 0
      /\ \A i, j \in 1..Len(tasks') : i < j =>
            /\ state \in {"NotRun", "Stopped"} =>
                  (tasks'[i].kind = "start" => tasks'[j].kind = "start")
            /\ state = "Running" =>
                  (tasks'[j].kind = "start" => tasks'[i].kind = "start")
      /\ state \in {"Running", "Stopping"} =>
            \A i \in 1..Len(tasks') : Current(tasks'[i].stream)
  BY TakenSources
<1>5. ASSUME NEW i \in 1..Len(tasks')
      PROVE  /\ a = "launch" => tasks'[i].kind = "start"
             /\ a \in {"join", "joining"} => tasks'[i].kind # "start"
  <2>1. PICK m \in 1..Len(tasks) : tasks'[i] = tasks[m] /\ 1 < m
    BY <1>1
  <2> QED
    BY <1>1, <2>1 DEF StreamQueue
<1>6. StreamTypes'
  BY <1>1, <1>2 DEF StreamTypes
<1>7. StreamSources'
  <2>1. OneSource(history)' /\ OneSource(thread.copy)' /\ OneSource(stored.waves)'
    BY DEF StreamSources, OneSource
  <2>2. OneSource(shown.waves)'
    BY DEF OneSource
  <2>3. (\A i \in 1..Len(tasks) : OneSource(tasks[i].stream.waves))'
    BY <1>4 DEF OneSource
  <2> QED
    BY <2>1, <2>2, <2>3 DEF StreamSources
<1>8. StreamStates'
  BY <1>2, <1>3 DEF StreamStates
<1>9. StreamQueue'
  BY <1>2, <1>4, <1>5 DEF StreamQueue
<1>10. StreamRuns'
  BY <1>3, <1>4 DEF StreamRuns, Current
<1> QED
  BY <1>6, <1>7, <1>8, <1>9, <1>10

\* A start is refused, or turns the readout on.
LEMMA StreamStart ==
    ASSUME StreamInv, Receiver!Start
    PROVE  StreamInv'
<1>1. PICK a : a = IF state = "Running" THEN "idle" ELSE "launch"
  OBVIOUS
<1>2. /\ Receiver!Begin("start", a)
      /\ history' = history /\ thread' = thread /\ stored' = stored
      /\ state' = state /\ shown' = shown
  BY <1>1 DEF Receiver!Start
<1>3. /\ module \in Modules /\ socket \in Seq(Waves) /\ run \in Nat /\ shown \in Streams
      /\ OneSource(shown.waves)
      /\ state = "Running" => shown.run \in {0, run}
      /\ state \in {"NotRun", "Running", "Stopping", "Stopped"}
      /\ state = "Stopping" <=> service.at = "joining"
  BY DEF StreamInv, StreamTypes, StreamSources, StreamRuns, Current, StreamStates
<1>4. service.at = "idle"
  BY <1>2, TaskTaken
<1>5. CASE state = "Running"
  <2>1. module' = module /\ socket' = socket /\ run' = run /\ a = "idle"
    BY <1>1, <1>5 DEF Receiver!Start
  <2>2. /\ module' \in Modules /\ socket' \in Seq(Waves) /\ run' \in Nat
        /\ shown' \in Streams /\ OneSource(shown'.waves) /\ shown'.run \in {0, run}
    BY <1>2, <1>3, <1>5, <2>1 DEF OneSource
  <2> QED
    BY <1>2, <2>1, <2>2, StreamTakes, Zenon
<1>6. CASE state # "Running"
  <2>1. /\ module' = [module EXCEPT !.on = TRUE] /\ run' = run + 1 /\ socket' = <<>>
    BY <1>6 DEF Receiver!Start
  <2>2. module' \in Modules
    BY <1>3, <2>1 DEF Modules
  <2>3. /\ run' \in Nat /\ socket' \in Seq(Waves) /\ shown' \in Streams
        /\ OneSource(shown'.waves)
    BY <1>2, <1>3, <2>1 DEF OneSource
  <2>4. a = "launch" /\ state \in {"NotRun", "Stopped"}
    BY <1>1, <1>3, <1>4, <1>6
  <2> QED
    BY <1>2, <1>6, <2>2, <2>3, <2>4, StreamTakes, Zenon
<1> QED
  BY <1>5, <1>6

\* A change of source or parameter begins, or is refused.
LEMMA StreamChange ==
    ASSUME StreamInv, Receiver!Change
    PROVE  StreamInv'
<1>1. PICK k \in {"source", "preview"} :
         Receiver!Begin(k, IF state = "Running" /\ module.changes < MaxChanges
                           THEN "write" ELSE "idle")
  BY DEF Receiver!Change
<1>2. PICK a : a = IF state = "Running" /\ module.changes < MaxChanges
                   THEN "write" ELSE "idle"
  OBVIOUS
<1>3. /\ module \in Modules /\ socket \in Seq(Waves) /\ run \in Nat /\ shown \in Streams
      /\ OneSource(shown.waves)
      /\ state = "Running" => shown.run \in {0, run}
  BY DEF StreamInv, StreamTypes, StreamSources, StreamRuns, Current
<1>4. /\ Receiver!Begin(k, a)
      /\ history' = history /\ thread' = thread /\ stored' = stored
      /\ state' = state /\ shown' = shown /\ run' = run /\ socket' = socket
  BY <1>1, <1>2 DEF Receiver!Change
<1>5. module' \in Modules
  <2>1. PICK b : b = (module.on /\ service'.at = "idle")
    OBVIOUS
  <2>2. module' = [module EXCEPT !.on = b] /\ b \in BOOLEAN
    BY <1>3, <2>1 DEF Receiver!Change, Modules
  <2> QED
    BY <1>3, <2>2 DEF Modules
<1>6. /\ a \in {"idle", "write"}
      /\ a = "write" => state = "Running"
  BY <1>2
<1>7. /\ socket' \in Seq(Waves) /\ run' \in Nat /\ shown' \in Streams
      /\ OneSource(shown'.waves)
      /\ state = "Running" => shown'.run \in {0, run}
  BY <1>3, <1>4 DEF OneSource
<1> QED
  BY <1>4, <1>5, <1>6, <1>7, StreamTakes, Zenon

\* A stream is shown if the acquisition runs.
LEMMA StreamPublish ==
    ASSUME StreamInv, Receiver!PublishDiagnosticStream
    PROVE  StreamInv'
<1>1. PICK a : a = IF state = "Running" /\ Head(tasks).stream.error
                   THEN "join" ELSE "idle"
  OBVIOUS
<1>2. /\ Receiver!Begin("stream", a)
      /\ shown' = IF state = "Running" THEN Head(tasks).stream ELSE shown
      /\ history' = history /\ thread' = thread /\ stored' = stored
      /\ state' = state /\ run' = run /\ socket' = socket /\ module' = module
  BY <1>1 DEF Receiver!PublishDiagnosticStream
<1>3. /\ 1 \in 1..Len(tasks) /\ Head(tasks) = tasks[1] /\ tasks[1] \in Tasks
  BY <1>2, TaskTaken
<1>4. /\ module \in Modules /\ socket \in Seq(Waves) /\ run \in Nat /\ shown \in Streams
      /\ OneSource(shown.waves) /\ OneSource(tasks[1].stream.waves)
      /\ state = "Running" => tasks[1].stream.run \in {0, run}
  BY <1>3 DEF StreamInv, StreamTypes, StreamSources, StreamRuns, Current
<1>5. /\ shown' \in Streams /\ OneSource(shown'.waves)
      /\ state = "Running" => shown'.run \in {0, run}
  <2>1. tasks[1].stream \in Streams
    BY <1>3 DEF Tasks
  <2> QED
    BY <1>2, <1>3, <1>4, <2>1 DEF OneSource
<1>6. /\ a \in {"idle", "join"}
      /\ a = "join" => state = "Running"
  BY <1>1
<1>7. module' \in Modules /\ socket' \in Seq(Waves) /\ run' \in Nat
  BY <1>2, <1>4
<1> QED
  BY <1>2, <1>5, <1>6, <1>7, StreamTakes, Zenon

\* A stop is refused, or begins.
LEMMA StreamStop ==
    ASSUME StreamInv, Receiver!Stop
    PROVE  StreamInv'
<1>1. PICK a : a = IF state = "Running" THEN "join" ELSE "idle"
  OBVIOUS
<1>2. /\ Receiver!Begin("stop", a)
      /\ history' = history /\ thread' = thread /\ stored' = stored
      /\ state' = state /\ shown' = shown /\ run' = run /\ socket' = socket
      /\ module' = module
  BY <1>1 DEF Receiver!Stop
<1>3. /\ module \in Modules /\ socket \in Seq(Waves) /\ run \in Nat /\ shown \in Streams
      /\ OneSource(shown.waves)
      /\ state = "Running" => shown.run \in {0, run}
  BY DEF StreamInv, StreamTypes, StreamSources, StreamRuns, Current
<1>4. /\ a \in {"idle", "join"}
      /\ a = "join" => state = "Running"
  BY <1>1
<1>5. /\ module' \in Modules /\ socket' \in Seq(Waves) /\ run' \in Nat
      /\ shown' \in Streams /\ OneSource(shown'.waves)
      /\ state = "Running" => shown'.run \in {0, run}
  BY <1>2, <1>3 DEF OneSource
<1> QED
  BY <1>2, <1>4, <1>5, StreamTakes, Zenon

\* The receiver thread begins with empty histories.
LEMMA StreamLaunch ==
    ASSUME StreamInv, Receiver!Launch
    PROVE  StreamInv'
<1> USE DEF StreamInv
<1>1. /\ service.at = "launch" /\ history' = <<>>
      /\ thread' = [at |-> "receive", stop |-> FALSE, fails |-> FALSE,
                    copy |-> <<>>, posts |-> 0]
      /\ stored' = Receiver!Empty /\ state' = "Running" /\ shown' = Receiver!Empty
      /\ service' = [service EXCEPT !.at = "idle"]
      /\ module' = module /\ socket' = socket /\ tasks' = tasks /\ run' = run
  BY DEF Receiver!Launch
<1>2. /\ service' \in Services /\ service'.at = "idle"
  BY <1>1 DEF StreamTypes, Services
<1>3. thread' \in Threads /\ thread'.copy = <<>> /\ thread'.at = "receive"
  BY <1>1, NoneIsOne DEF Threads
<1>4. \A i \in 1..Len(tasks) : tasks[i].kind = "start" /\ tasks[i].stream.run = 0
  BY <1>1 DEF StreamQueue
<1>5. StreamTypes'
  BY <1>1, <1>2, <1>3, EmptyStream, NoneIsOne DEF StreamTypes
<1>6. StreamSources'
  <2>1. OneSource(history)' /\ OneSource(thread.copy)'
    BY <1>1, <1>3 DEF OneSource
  <2>2. OneSource(stored.waves)' /\ OneSource(shown.waves)'
    BY <1>1, EmptyStream DEF OneSource
  <2>3. (\A i \in 1..Len(tasks) : OneSource(tasks[i].stream.waves))'
    BY <1>1 DEF StreamSources, OneSource
  <2> QED
    BY <2>1, <2>2, <2>3 DEF StreamSources
<1>7. StreamStates'
  BY <1>1, <1>2 DEF StreamStates
<1>8. StreamQueue'
  BY <1>1, <1>2, <1>4 DEF StreamQueue
<1>9. StreamRuns'
  BY <1>1, <1>4, EmptyStream DEF StreamRuns, Current
<1> QED
  BY <1>5, <1>6, <1>7, <1>8, <1>9

\* A step of the worker that only writes, clears, shows or asks for the end.
LEMMA StreamWorks ==
    ASSUME StreamInv, service' \in Services, module' \in Modules,
           history' \in {history, <<>>}, shown' \in {shown, stored},
           thread' \in Threads, thread'.copy = thread.copy, thread'.at = thread.at,
           UNCHANGED <<socket, stored, tasks, run>>,
           state = "Running", service.at \in {"write", "clear", "show", "join"},
           \/ state' = "Running" /\ service'.at \in {"idle", "clear", "show"}
           \/ /\ state' = "Stopping" /\ service'.at = "joining"
              /\ service.at = "join"
    PROVE  StreamInv'
<1> USE DEF StreamInv
<1>1. StreamTypes'
  BY NoneIsOne DEF StreamTypes
<1>2. StreamSources'
  <2>1. OneSource(history)'
    BY DEF StreamSources, OneSource
  <2>2. OneSource(thread.copy)' /\ OneSource(stored.waves)'
    BY DEF StreamSources, OneSource
  <2>3. OneSource(shown.waves)'
    BY DEF StreamSources, OneSource
  <2>4. (\A i \in 1..Len(tasks) : OneSource(tasks[i].stream.waves))'
    BY DEF StreamSources, OneSource
  <2> QED
    BY <2>1, <2>2, <2>3, <2>4 DEF StreamSources
<1>3. StreamStates'
  BY DEF StreamStates
<1>4. StreamQueue'
  BY DEF StreamQueue
<1>5. StreamRuns'
  BY DEF StreamRuns, Current
<1> QED
  BY <1>1, <1>2, <1>3, <1>4, <1>5

\* The module after a change.
LEMMA ModuleChanges ==
    ASSUME NEW r \in Modules, NEW n \in Nat, NEW m \in Nat
    PROVE  /\ [r EXCEPT !.source = n, !.changes = m, !.on = TRUE] \in Modules
           /\ [r EXCEPT !.value = n, !.changes = m, !.on = TRUE] \in Modules
BY DEF Modules

\* The module is written and resumed.
LEMMA StreamWrite ==
    ASSUME StreamInv, Receiver!Write
    PROVE  StreamInv'
<1>1. /\ service.at = "write" /\ service' = [service EXCEPT !.at = "clear"]
      /\ UNCHANGED <<socket, history, thread, stored, tasks, state, run, shown>>
  BY DEF Receiver!Write
<1>2. /\ service' \in Services /\ service'.at = "clear" /\ thread \in Threads
      /\ state = "Running" /\ module \in Modules
  BY <1>1 DEF StreamInv, StreamTypes, StreamStates, Services
<1>3. module' \in Modules
  <2>1. /\ module.source + 1 \in Nat /\ module.value + 1 \in Nat
        /\ module.changes + 1 \in Nat
    BY <1>2 DEF Modules
  <2>2. \/ module' = [module EXCEPT !.source = module.source + 1,
                                    !.changes = module.changes + 1, !.on = TRUE]
        \/ module' = [module EXCEPT !.value = module.value + 1,
                                    !.changes = module.changes + 1, !.on = TRUE]
    BY <1>2 DEF Receiver!Write, Modules
  <2>3. /\ [module EXCEPT !.source = module.source + 1,
                          !.changes = module.changes + 1, !.on = TRUE] \in Modules
        /\ [module EXCEPT !.value = module.value + 1,
                          !.changes = module.changes + 1, !.on = TRUE] \in Modules
    BY <1>2, <2>1, ModuleChanges, Zenon
  <2> QED
    BY <2>2, <2>3, Zenon
<1> QED
  BY <1>1, <1>2, <1>3, StreamWorks

\* The histories are cleared, and the stored stream is shown.
LEMMA StreamClearShow ==
    ASSUME StreamInv, Receiver!Clear \/ Receiver!Show
    PROVE  StreamInv'
<1>1. service \in Services /\ thread \in Threads /\ module \in Modules
  BY DEF StreamInv, StreamTypes
<1>2. CASE Receiver!Clear
  <2>1. /\ service.at = "clear" /\ service' = [service EXCEPT !.at = "show"]
        /\ history' = <<>>
        /\ UNCHANGED <<module, socket, thread, stored, tasks, state, run, shown>>
    BY <1>2 DEF Receiver!Clear
  <2>2. service' \in Services /\ service'.at = "show" /\ state = "Running"
    BY <1>1, <2>1 DEF Services, StreamInv, StreamStates
  <2> QED
    BY <1>1, <2>1, <2>2, StreamWorks
<1>3. CASE Receiver!Show
  <2>1. /\ service.at = "show" /\ service' = [service EXCEPT !.at = "idle"]
        /\ shown' = stored
        /\ UNCHANGED <<module, socket, history, thread, stored, tasks, state, run>>
    BY <1>3 DEF Receiver!Show
  <2>2. service' \in Services /\ service'.at = "idle" /\ state = "Running"
    BY <1>1, <2>1 DEF Services, StreamInv, StreamStates
  <2> QED
    BY <1>1, <2>1, <2>2, StreamWorks
<1> QED
  BY <1>2, <1>3

\* The thread is told to end.
LEMMA StreamRequestStop ==
    ASSUME StreamInv, Receiver!RequestStop
    PROVE  StreamInv'
<1>1. /\ service.at = "join" /\ service' = [service EXCEPT !.at = "joining"]
      /\ thread' = [thread EXCEPT !.stop = TRUE] /\ state' = "Stopping"
      /\ UNCHANGED <<module, socket, history, stored, tasks, run, shown>>
  BY DEF Receiver!RequestStop
<1>2. /\ service \in Services /\ thread \in Threads /\ module \in Modules
      /\ state = "Running"
  BY <1>1 DEF StreamInv, StreamTypes, StreamStates
<1>3. service' \in Services /\ service'.at = "joining"
  BY <1>1, <1>2 DEF Services
<1>4. thread' \in Threads /\ thread'.copy = thread.copy /\ thread'.at = thread.at
  BY <1>1, <1>2 DEF Threads
<1> QED
  BY <1>1, <1>2, <1>3, <1>4, StreamWorks

\* The thread has ended; the acquisition is stopped.
LEMMA StreamStopped ==
    ASSUME StreamInv, Receiver!StopDiagnosticAcquisition
    PROVE  StreamInv'
<1> USE DEF StreamInv
<1>1. /\ service.at = "joining" /\ thread.at = "off"
      /\ module' = [module EXCEPT !.on = FALSE] /\ state' = "Stopped"
      /\ service' = [service EXCEPT !.at = "idle"]
      /\ UNCHANGED <<socket, history, thread, stored, tasks, run, shown>>
  BY DEF Receiver!StopDiagnosticAcquisition, Receiver!Joined
<1>2. service' \in Services /\ service'.at = "idle"
  BY <1>1 DEF StreamTypes, Services
<1>3. module' \in Modules
  BY <1>1 DEF StreamTypes, Modules
<1>4. StreamTypes'
  BY <1>1, <1>2, <1>3 DEF StreamTypes
<1>5. StreamSources'
  BY <1>1 DEF StreamSources, OneSource
<1>6. StreamStates'
  BY <1>1, <1>2 DEF StreamStates
<1>7. StreamQueue'
  BY <1>1, <1>2 DEF StreamQueue
<1>8. StreamRuns'
  BY <1>1 DEF StreamRuns
<1> QED
  BY <1>4, <1>5, <1>6, <1>7, <1>8

\* The receiver begins without an acquisition.
LEMMA StreamInitially == Receiver!Init => StreamInv
<1> SUFFICES ASSUME Receiver!Init PROVE StreamInv
  OBVIOUS
<1> USE DEF Receiver!Init
<1>1. module \in Modules
  BY DEF Modules
<1>2. thread \in Threads /\ thread.copy = <<>> /\ thread.at = "off"
  BY NoneIsOne DEF Threads
<1>3. service \in Services /\ service.at = "idle"
  BY DEF Services
<1>4. tasks = <<>> /\ tasks \in Seq(Tasks) /\ 1..Len(tasks) = {}
  OBVIOUS
<1>5. StreamTypes
  BY <1>1, <1>2, <1>3, <1>4, NoneIsOne, EmptyStream DEF StreamTypes
<1>6. StreamSources
  BY <1>2, <1>4, NoneIsOne, EmptyStream DEF StreamSources
<1>7. StreamStates
  BY <1>2, <1>3 DEF StreamStates
<1>8. StreamQueue
  BY <1>4 DEF StreamQueue
<1>9. StreamRuns
  BY DEF StreamRuns
<1> QED
  BY <1>5, <1>6, <1>7, <1>8, <1>9 DEF StreamInv

\* A step of the other components.
LEMMA StreamStutter == StreamInv /\ UNCHANGED stream => StreamInv'
<1> SUFFICES ASSUME StreamInv, UNCHANGED stream PROVE StreamInv'
  OBVIOUS
<1> USE DEF StreamInv, stream
<1>1. StreamTypes'
  BY DEF StreamTypes
<1>2. StreamSources'
  BY SMTT(40) DEF StreamSources, OneSource
<1>3. StreamStates'
  BY DEF StreamStates
<1>4. StreamQueue'
  BY DEF StreamQueue
<1>5. StreamRuns'
  BY DEF StreamRuns, Current
<1> QED
  BY <1>1, <1>2, <1>3, <1>4, <1>5

\* Every step of the receiver, its worker or the front end.
LEMMA StreamStep == StreamInv /\ Receiver!Next => StreamInv'
<1> SUFFICES ASSUME StreamInv, Receiver!Next PROVE StreamInv'
  OBVIOUS
<1>1. CASE Receiver!Hit
  BY <1>1, StreamHit
<1>2. CASE Receiver!ThreadNext
  BY <1>2, StreamReceive, StreamThreadMoves, StreamPost DEF Receiver!ThreadNext
<1>3. CASE Receiver!WorkerNext
  BY <1>3, StreamStart, StreamLaunch, StreamChange, StreamWrite, StreamClearShow,
     StreamPublish, StreamStop, StreamRequestStop, StreamStopped
     DEF Receiver!WorkerNext
<1>4. CASE Receiver!FrontEnd
  BY <1>4, StreamSubmit DEF Receiver!FrontEnd
<1> QED
  BY <1>1, <1>2, <1>3, <1>4 DEF Receiver!Next

\* The receiver in the composition.
StreamInPart == part = "receiver" => StreamInv

\* The receiver moves in its part only.
LEMMA StreamAlone ==
    ASSUME [Next]_vars
    PROVE  /\ part' = part
           /\ part = "receiver" => Receiver!Next \/ UNCHANGED stream
BY DEF Next, vars, TransactionSteps, DirectSteps, BridgeSteps, StartSteps,
       DecoderSteps, ReceiverSteps

(***************************************************************************)
(* A running acquisition shows only its own waveforms, of one sample       *)
(* source, for any number of acquisitions, changes, posts and tasks:       *)
(* nothing that an earlier receiver posted late, no waveform kept from     *)
(* before the source changed (AcquisitionReceiver.cpp,                     *)
(* PublishDiagnosticStream).                                               *)
(***************************************************************************)
THEOREM ShownStaysCurrent == Spec => []ShownIsCurrent
<1>1. Init => StreamInPart
  BY StreamInitially DEF Init, StreamInPart
<1>2. StreamInPart /\ [Next]_vars => StreamInPart'
  BY StreamAlone, StreamStep, StreamStutter DEF StreamInPart
<1>3. StreamInPart => ShownIsCurrent
  <2>1. StreamInv => Receiver!ShownIsCurrent
    BY DEF StreamInv, StreamRuns, Current, Receiver!ShownIsCurrent
  <2>2. StreamInv => Receiver!SourcesDoNotMix
    BY DEF StreamInv, StreamSources, OneSource, Receiver!SourcesDoNotMix,
           Receiver!Uniform
  <2> QED
    BY <2>1, <2>2 DEF StreamInPart, ShownIsCurrent
<1> QED
  BY <1>1, <1>2, <1>3, PTL DEF Spec
=============================================================================

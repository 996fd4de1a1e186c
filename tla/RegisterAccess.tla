--------------------------- MODULE RegisterAccess ---------------------------
(***************************************************************************)
(* What an access to a register of the crate promises to the operations    *)
(* built on it.  A successful write has taken effect when it returns, a    *)
(* successful read returns a value the register had during the call.  A    *)
(* write that failed may have taken effect, and may still do so until the  *)
(* next access to succeed returns, never after it.                         *)
(***************************************************************************)
EXTENDS Naturals

CONSTANTS Registers, Values, NoValue

VARIABLES
    regs,   \* the registers
    call,   \* the access under way and its result
    seen,   \* values the register has had since the call began
    late    \* writes whose calls have failed and that may still happen

accessVars == <<regs, call, seen, late>>

NoCall == [kind |-> "none", reg |-> "none", value |-> NoValue]

AccessInit ==
    /\ regs \in [Registers -> Values]
    /\ call = NoCall /\ seen = {} /\ late = {}

Call(kind, r, v) ==
    /\ call = NoCall
    /\ call' = [kind |-> kind, reg |-> r, value |-> v]
    /\ seen' = {regs[r]}
    /\ UNCHANGED <<regs, late>>

\* A write takes effect: the one under way or one that was given up.
TakeEffect(r, v) ==
    /\ \/ call.kind = "write" /\ call.reg = r /\ call.value = v
       \/ <<r, v>> \in late
    /\ regs' = [regs EXCEPT ![r] = v]
    /\ seen' = IF call.reg = r THEN seen \cup {v} ELSE seen
    /\ UNCHANGED <<call, late>>

Succeed(v) ==
    /\ call.kind = "write" => regs[call.reg] = call.value
    /\ call.kind = "read" => v \in seen
    /\ call # NoCall
    /\ call' = NoCall /\ seen' = {} /\ late' = {}
    /\ UNCHANGED regs

Fail ==
    /\ call # NoCall
    /\ late' = IF call.kind = "write" THEN late \cup {<<call.reg, call.value>>}
                                      ELSE late
    /\ call' = NoCall /\ seen' = {}
    /\ UNCHANGED regs

AccessNext ==
    \/ \E r \in Registers, v \in Values :
          \/ Call("write", r, v) \/ Call("read", r, NoValue)
          \/ TakeEffect(r, v)
    \/ \E v \in Values : Succeed(v)
    \/ Fail

AccessSpec == AccessInit /\ [][AccessNext]_accessVars
=============================================================================

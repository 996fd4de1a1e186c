-------------------------- MODULE ScpServiceProofs --------------------------
(***************************************************************************)
(* Capture, repair, application and startup, for any number of quads, any  *)
(* register values and any number of commands and failing accesses.        *)
(*                                                                         *)
(* What a transaction reports rests on a record of what it believes to     *)
(* have written, and a lost answer leaves one write in doubt.  TypeInv     *)
(* gives the shape of that record at every label, IntrusionInv the writes  *)
(* that may follow a gate, and ModuleInv what the record means on the      *)
(* module: which steps of the plan are on it, and which is in doubt.       *)
(***************************************************************************)
EXTENDS MCScpService, SequenceTheorems, WellFoundedInduction, TLAPS

----------------------------------------------------------------------------
(***************************************************************************)
(*                    1. The steps of an application                       *)
(*                                                                         *)
(* Steps is a recursion over the quads.  What it computes is proved with   *)
(* the least counterexample, which needs no induction rule.                *)
(***************************************************************************)
\* A set of naturals that is not empty has a least element.
LEMMA LeastElement ==
    ASSUME NEW T, T \subseteq Nat, T # {}
    PROVE  \E n \in T : \A m \in T : n <= m
<1>1. PICK R : /\ R = {ss \in Nat \X Nat : ss[1] < ss[2]}
               /\ IsWellFoundedOn(R, Nat)
  BY NatLessThanWellFounded, Zenon DEF OpToRel
<1>2. PICK x \in T : \A y \in T : ~(<<y, x>> \in R)
  BY <1>1, WFMin, Zenon
<1>3. \A y \in T : x \in Nat /\ y \in Nat /\ ~(y < x)
  BY <1>1, <1>2
<1> QED
  BY <1>2, <1>3

\* What a step of an application is, and what the fields of one are.
BankStep ==
    [quad : Quads, setting : Settings, expected : Values, profile : Values]
StepFor(profile, live, q, s) ==
    [quad |-> q, setting |-> s, expected |-> live.bank[q][s],
     profile |-> profile.bank[q][s]]
Elements(steps) == {steps[i] : i \in 1 .. Len(steps)}

\* The order of two steps of one quad.
Precedes(profile, live, q, s, t) ==
    \/ s = "gain" /\ t \in {Constrained, Boundary}
    \/ /\ profile.bank[q][Constrained] <= live.bank[q][Boundary]
       /\ s = Constrained /\ t = Boundary
    \/ /\ ~(profile.bank[q][Constrained] <= live.bank[q][Boundary])
       /\ s = Boundary /\ t = Constrained
Ordered(profile, live, steps) ==
    \A i, j \in 1 .. Len(steps) :
        i < j /\ steps[i].quad = steps[j].quad =>
            Precedes(profile, live, steps[i].quad, steps[i].setting,
                     steps[j].setting)

\* The steps of the quads given: all differences and nothing else.
PlanOf(profile, live, quads, steps) ==
    /\ steps \in Seq(BankStep)
    /\ Elements(steps) = {StepFor(profile, live, q, s) :
                             q \in quads, s \in Settings}
                         \cap {st \in BankStep : st.expected # st.profile}
    /\ Ordered(profile, live, steps)

\* Concatenation joins the elements, and keeps the order when the steps of
\* the first sequence come before those of the second.
LEMMA ConcatElements ==
    ASSUME NEW A \in Seq(BankStep), NEW B \in Seq(BankStep)
    PROVE  /\ A \o B \in Seq(BankStep)
           /\ Elements(A \o B) = Elements(A) \cup Elements(B)
<1>1. /\ A \o B \in Seq(BankStep)
      /\ Len(A \o B) = Len(A) + Len(B) /\ Len(A) \in Nat /\ Len(B) \in Nat
      /\ \A i \in 1 .. Len(A) + Len(B) :
            (A \o B)[i] = IF i <= Len(A) THEN A[i] ELSE B[i - Len(A)]
  BY ConcatProperties, LenProperties
<1>2. PICK C : C = A \o B
  OBVIOUS
<1>3. \A i \in 1 .. Len(C) : C[i] \in Elements(A) \cup Elements(B)
  BY <1>1, <1>2 DEF Elements
<1>4. \A i \in 1 .. Len(A) : i \in 1 .. Len(C) /\ C[i] = A[i]
  BY <1>1, <1>2
<1>5. \A i \in 1 .. Len(B) :
         Len(A) + i \in 1 .. Len(C) /\ C[Len(A) + i] = B[i]
  BY <1>1, <1>2
<1>6. Elements(C) \subseteq Elements(A) \cup Elements(B)
  BY <1>3 DEF Elements
<1>7. Elements(A) \subseteq Elements(C) /\ Elements(B) \subseteq Elements(C)
  BY <1>4, <1>5 DEF Elements
<1> QED
  BY <1>1, <1>2, <1>6, <1>7

\* Two ordered stretches joined are ordered, when the first goes before the
\* second in every bank they share.
LEMMA ConcatOrdered ==
    ASSUME NEW profile, NEW live,
           NEW A \in Seq(BankStep), NEW B \in Seq(BankStep),
           Ordered(profile, live, A), Ordered(profile, live, B),
           \A a \in Elements(A), b \in Elements(B) : a.quad = b.quad =>
               Precedes(profile, live, a.quad, a.setting, b.setting)
    PROVE  Ordered(profile, live, A \o B)
<1>1. /\ Len(A \o B) = Len(A) + Len(B) /\ Len(A) \in Nat /\ Len(B) \in Nat
      /\ \A i \in 1 .. Len(A) + Len(B) :
            (A \o B)[i] = IF i <= Len(A) THEN A[i] ELSE B[i - Len(A)]
  BY ConcatProperties, LenProperties
<1>2. PICK C : C = A \o B
  OBVIOUS
<1>3. SUFFICES ASSUME NEW i \in 1 .. Len(C), NEW j \in 1 .. Len(C), i < j,
                      C[i].quad = C[j].quad
               PROVE  Precedes(profile, live, C[i].quad, C[i].setting,
                               C[j].setting)
  BY <1>2 DEF Ordered
<1>4. CASE j <= Len(A)
  <2>1. C[i] = A[i] /\ C[j] = A[j] /\ i \in 1 .. Len(A) /\ j \in 1 .. Len(A)
    BY <1>1, <1>2, <1>3, <1>4
  <2> QED
    BY <1>3, <2>1 DEF Ordered
<1>5. CASE ~(i <= Len(A))
  <2>1. /\ C[i] = B[i - Len(A)] /\ C[j] = B[j - Len(A)]
        /\ i - Len(A) \in 1 .. Len(B) /\ j - Len(A) \in 1 .. Len(B)
        /\ i - Len(A) < j - Len(A)
    BY <1>1, <1>2, <1>3, <1>5
  <2> QED
    BY <1>3, <2>1 DEF Ordered
<1>6. CASE i <= Len(A) /\ ~(j <= Len(A))
  <2>1. /\ C[i] = A[i] /\ C[j] = B[j - Len(A)]
        /\ i \in 1 .. Len(A) /\ j - Len(A) \in 1 .. Len(B)
    BY <1>1, <1>2, <1>3, <1>6
  <2> QED
    BY <1>3, <2>1 DEF Elements
<1> QED
  BY <1>4, <1>5, <1>6, <1>1, <1>2

\* One difference is at most one step.
LEMMA DifferencePlan ==
    ASSUME NEW profile, NEW live, profile.bank \in Banks, live.bank \in Banks,
           NEW q \in Quads, NEW s \in Settings
    PROVE  /\ Difference(profile, live, q, s) \in Seq(BankStep)
           /\ Ordered(profile, live, Difference(profile, live, q, s))
           /\ Elements(Difference(profile, live, q, s)) =
                 {st \in {StepFor(profile, live, q, s)} :
                     st.expected # st.profile}
<1>1. /\ live.bank[q][s] \in Values /\ profile.bank[q][s] \in Values
  BY DEF Banks, Quad
<1>2. PICK st : st = StepFor(profile, live, q, s)
  OBVIOUS
<1>3. /\ st \in BankStep /\ st.expected = live.bank[q][s]
      /\ st.profile = profile.bank[q][s]
  BY <1>1, <1>2 DEF StepFor, BankStep
<1>4. CASE DiffersAt(profile, live, q, s)
  <2>1. PICK d : d = Difference(profile, live, q, s) /\ d = <<st>>
    BY <1>2, <1>4 DEF Difference, StepFor
  <2>2. d \in Seq(BankStep) /\ Len(d) = 1 /\ d[1] = st
    BY <1>3, <2>1
  <2>3. Elements(d) = {st} /\ Ordered(profile, live, d)
    BY <2>2 DEF Elements, Ordered
  <2>4. st.expected # st.profile
    BY <1>3, <1>4 DEF DiffersAt
  <2> QED
    BY <1>2, <2>1, <2>2, <2>3, <2>4
<1>5. CASE ~DiffersAt(profile, live, q, s)
  <2>1. PICK d : d = Difference(profile, live, q, s) /\ d = <<>>
    BY <1>5 DEF Difference
  <2>2. d \in Seq(BankStep) /\ Len(d) = 0
    BY <2>1
  <2>3. Elements(d) = {} /\ Ordered(profile, live, d)
    BY <2>2 DEF Elements, Ordered
  <2>4. st.expected = st.profile
    BY <1>3, <1>5 DEF DiffersAt
  <2> QED
    BY <1>2, <2>1, <2>2, <2>3, <2>4
<1> QED
  BY <1>4, <1>5

\* The steps of one quad, in the order of PlanFw2051ScpCoupledWriteOrder.
LEMMA QuadPlan ==
    ASSUME NEW profile, NEW live, profile.bank \in Banks, live.bank \in Banks,
           NEW q \in Quads
    PROVE  PlanOf(profile, live, {q}, QuadSteps(profile, live, q))
<1> DEFINE d(s) == Difference(profile, live, q, s)
           E(s) == {st \in {StepFor(profile, live, q, s)} :
                       st.expected # st.profile}
<1>1. ASSUME NEW s \in Settings
      PROVE  /\ d(s) \in Seq(BankStep) /\ Ordered(profile, live, d(s))
             /\ Elements(d(s)) = E(s)
  BY DifferencePlan
<1>2. ASSUME NEW s \in Settings, NEW st \in E(s)
      PROVE  st.quad = q /\ st.setting = s
  BY DEF StepFor
<1>3. PICK s1 \in Settings, s2 \in Settings :
         /\ QuadSteps(profile, live, q) = d("gain") \o d(s1) \o d(s2)
         /\ Settings = {"gain", s1, s2}
         /\ Precedes(profile, live, q, s1, s2)
         /\ Precedes(profile, live, q, "gain", s1)
         /\ Precedes(profile, live, q, "gain", s2)
  <2>1. CASE profile.bank[q][Constrained] <= live.bank[q][Boundary]
    <3>1. /\ <<Constrained, Boundary>>[1] = Constrained
          /\ <<Constrained, Boundary>>[2] = Boundary
      OBVIOUS
    <3>2. QuadSteps(profile, live, q)
             = d("gain") \o d(Constrained) \o d(Boundary)
      BY <2>1, <3>1 DEF QuadSteps, CoupledWriteOrder, DependencySatisfied
    <3> QED
      BY <2>1, <3>2 DEF Precedes, Settings, Constrained, Boundary
  <2>2. CASE ~(profile.bank[q][Constrained] <= live.bank[q][Boundary])
    <3>1. /\ <<Boundary, Constrained>>[1] = Boundary
          /\ <<Boundary, Constrained>>[2] = Constrained
      OBVIOUS
    <3>2. QuadSteps(profile, live, q)
             = d("gain") \o d(Boundary) \o d(Constrained)
      BY <2>2, <3>1 DEF QuadSteps, CoupledWriteOrder, DependencySatisfied
    <3> QED
      BY <2>2, <3>2 DEF Precedes, Settings, Constrained, Boundary
  <2> QED
    BY <2>1, <2>2
<1> HIDE DEF d, E
<1>4. PICK two : two = d("gain") \o d(s1)
  OBVIOUS
<1>5. "gain" \in Settings
  BY DEF Settings
<1>6. /\ two \in Seq(BankStep) /\ Elements(two) = E("gain") \cup E(s1)
      /\ Ordered(profile, live, two)
  <2>1. /\ two \in Seq(BankStep)
        /\ Elements(two) = E("gain") \cup E(s1)
    BY <1>1, <1>4, <1>5, ConcatElements
  <2>2. \A a \in Elements(d("gain")), b \in Elements(d(s1)) :
           Precedes(profile, live, a.quad, a.setting, b.setting)
    BY <1>1, <1>2, <1>3, <1>5
  <2> QED
    BY <1>1, <1>4, <1>5, <2>1, <2>2, ConcatOrdered
<1>7. PICK steps : steps = two \o d(s2) /\ steps = QuadSteps(profile, live, q)
  BY <1>3, <1>4
<1>8. /\ steps \in Seq(BankStep)
      /\ Elements(steps) = E("gain") \cup E(s1) \cup E(s2)
      /\ Ordered(profile, live, steps)
  <2>1. /\ steps \in Seq(BankStep)
        /\ Elements(steps) = E("gain") \cup E(s1) \cup E(s2)
    BY <1>1, <1>6, <1>7, ConcatElements
  <2>2. \A a \in Elements(two), b \in Elements(d(s2)) :
           Precedes(profile, live, a.quad, a.setting, b.setting)
    BY <1>1, <1>2, <1>3, <1>5, <1>6
  <2> QED
    BY <1>1, <1>6, <1>7, <2>1, <2>2, ConcatOrdered
<1>9. \A s \in Settings : StepFor(profile, live, q, s) \in BankStep
  BY DEF StepFor, BankStep, Banks, Quad
<1> QED
  BY <1>3, <1>7, <1>8, <1>9 DEF PlanOf, E

\* The recursion of Steps, unfolded.
LEMMA StepsUnfold ==
    ASSUME NEW profile, NEW live
    PROVE  \E f : /\ f = [n \in 0 .. QuadCount |->
                            IF n = 0 THEN <<>>
                            ELSE f[n - 1] \o QuadSteps(profile, live, n - 1)]
                  /\ Steps(profile, live) = f[QuadCount]
<1> DEFINE Solves(f, m) ==
               f = [n \in 0 .. m |->
                      IF n = 0 THEN <<>>
                      ELSE f[n - 1] \o QuadSteps(profile, live, n - 1)]
           T == {m \in 0 .. QuadCount : ~\E f : Solves(f, m)}
<1>1. QuadCount \in Nat /\ QuadCount \in 0 .. QuadCount
  BY PlanAssumption
<1>2. \E f : Solves(f, 0)
  <2>1. PICK f : f = [n \in 0 .. 0 |-> <<>>]
    OBVIOUS
  <2>2. Solves(f, 0)
    BY <2>1
  <2> QED
    BY <2>2
<1>3. ASSUME NEW m \in 1 .. QuadCount, NEW f, Solves(f, m - 1)
      PROVE  \E g : Solves(g, m)
  <2>1. PICK g : g = [n \in 0 .. m |->
                        IF n = m
                          THEN f[m - 1] \o QuadSteps(profile, live, m - 1)
                          ELSE f[n]]
    OBVIOUS
  <2>2. \A n \in 0 .. m :
           g[n] = IF n = 0 THEN <<>>
                  ELSE g[n - 1] \o QuadSteps(profile, live, n - 1)
    <3>1. m \in Nat /\ m # 0 /\ m - 1 \in 0 .. m - 1 /\ m - 1 # m
      BY <1>1
    <3>2. \A n \in 0 .. m - 1 : n \in 0 .. m /\ n # m /\ g[n] = f[n]
      BY <2>1, <3>1
    <3>3. g[m] = g[m - 1] \o QuadSteps(profile, live, m - 1)
      BY <2>1, <3>1, <3>2
    <3>4. ASSUME NEW n \in 0 .. m - 1
          PROVE  g[n] = IF n = 0 THEN <<>>
                        ELSE g[n - 1] \o QuadSteps(profile, live, n - 1)
      <4>1. f[n] = IF n = 0 THEN <<>>
                   ELSE f[n - 1] \o QuadSteps(profile, live, n - 1)
        BY <1>3
      <4>2. n # 0 => n - 1 \in 0 .. m - 1
        BY <3>1
      <4> QED
        BY <3>2, <4>1, <4>2
    <3>5. \A n \in 0 .. m : n = m \/ n \in 0 .. m - 1
      BY <3>1
    <3> QED
      BY <3>1, <3>3, <3>4, <3>5
  <2>3. Solves(g, m)
    BY <2>1, <2>2
  <2> QED
    BY <2>3
<1>4. \E f : Solves(f, QuadCount)
  <2> HIDE DEF Solves
  <2>1. SUFFICES ASSUME T # {} PROVE FALSE
    BY <1>1, Zenon
  <2>2. T \subseteq Nat
    BY <1>1
  <2>3. PICK m \in T : \A k \in T : m <= k
    BY <2>1, <2>2, LeastElement, Zenon
  <2>4. m \in 1 .. QuadCount
    BY <1>1, <1>2, <2>3
  <2>5. m - 1 \in 0 .. QuadCount /\ m - 1 \notin T
    BY <1>1, <2>3, <2>4
  <2> QED
    BY <1>3, <2>3, <2>4, <2>5
<1> QED
  BY <1>4 DEF Steps

\* PlanFw2051ScpProfileApplication: every difference once, quad by quad, the
\* coupled pair of each quad in the order that keeps it valid.
LEMMA StepsPlan ==
    ASSUME NEW profile, NEW live, profile.bank \in Banks, live.bank \in Banks
    PROVE  PlanOf(profile, live, Quads, Steps(profile, live))
<1>1. PICK f : /\ f = [n \in 0 .. QuadCount |->
                         IF n = 0 THEN <<>>
                         ELSE f[n - 1] \o QuadSteps(profile, live, n - 1)]
               /\ Steps(profile, live) = f[QuadCount]
  BY StepsUnfold
<1> DEFINE Good(n) == PlanOf(profile, live, 0 .. n - 1, f[n])
           T == {n \in 0 .. QuadCount : ~Good(n)}
<1>2. QuadCount \in Nat /\ QuadCount \in 0 .. QuadCount
  BY PlanAssumption
<1>3. Good(0)
  <2>1. PICK e : e = f[0] /\ e = <<>>
    BY <1>1, <1>2
  <2>2. e \in Seq(BankStep) /\ Len(e) = 0
    BY <2>1
  <2>3. Elements(e) = {} /\ Ordered(profile, live, e)
    BY <2>2 DEF Elements, Ordered
  <2>4. 0 .. 0 - 1 = {}
    OBVIOUS
  <2>5. PlanOf(profile, live, {}, e)
    BY <2>2, <2>3 DEF PlanOf
  <2> QED
    BY <2>1, <2>4, <2>5
<1>4. ASSUME NEW n \in 1 .. QuadCount, Good(n - 1) PROVE Good(n)
  <2>a. f[n] = f[n - 1] \o QuadSteps(profile, live, n - 1)
    <3>1. n \in 0 .. QuadCount /\ n # 0
      BY <1>2
    <3> QED
      BY <1>1, <3>1, Zenon
  <2>1. PICK A, B : /\ A = f[n - 1] /\ B = QuadSteps(profile, live, n - 1)
                    /\ f[n] = A \o B
    BY <2>a, Zenon
  <2>2. n - 1 \in Quads /\ n \in Nat
    BY <1>2 DEF Quads
  <2>3. PlanOf(profile, live, {n - 1}, B)
    BY <2>1, <2>2, QuadPlan
  <2>4. PlanOf(profile, live, 0 .. n - 1 - 1, A)
    BY <1>4, <2>1
  <2>5. \A a \in Elements(A), b \in Elements(B) : a.quad # b.quad
    <3>1. \A a \in Elements(A) : a.quad \in 0 .. n - 1 - 1
      BY <2>4 DEF PlanOf, StepFor
    <3>2. \A b \in Elements(B) : b.quad = n - 1
      BY <2>3 DEF PlanOf, StepFor
    <3> QED
      BY <2>2, <3>1, <3>2
  <2>6. A \o B \in Seq(BankStep) /\ Ordered(profile, live, A \o B)
        /\ Elements(A \o B) = Elements(A) \cup Elements(B)
    BY <2>3, <2>4, <2>5, ConcatElements, ConcatOrdered DEF PlanOf
  <2>7. \A q : q \in 0 .. n - 1 <=> q \in 0 .. n - 1 - 1 \/ q \in {n - 1}
    BY <2>2
  <2>8. {StepFor(profile, live, q, s) : q \in 0 .. n - 1, s \in Settings}
          = {StepFor(profile, live, q, s) :
                q \in 0 .. n - 1 - 1, s \in Settings}
            \cup {StepFor(profile, live, q, s) :
                q \in {n - 1}, s \in Settings}
    BY <2>7
  <2> QED
    BY <2>1, <2>3, <2>4, <2>6, <2>8 DEF PlanOf
<1>5. Good(QuadCount)
  <2> HIDE DEF Good
  <2>1. SUFFICES ASSUME T # {} PROVE FALSE
    BY <1>2, Zenon
  <2>2. T \subseteq Nat
    BY <1>2
  <2>3. PICK m \in T : \A k \in T : m <= k
    BY <2>1, <2>2, LeastElement, Zenon
  <2>4. m \in 1 .. QuadCount
    BY <1>2, <1>3, <2>3
  <2>5. m - 1 \in 0 .. QuadCount /\ m - 1 \notin T
    BY <1>2, <2>3, <2>4
  <2> QED
    BY <1>4, <2>3, <2>4, <2>5
<1> QED
  BY <1>1, <1>5 DEF Quads

----------------------------------------------------------------------------
(***************************************************************************)
(*              2. Where a transaction is, and what it has done            *)
(*                                                                         *)
(* The invariant has a part for each operation, which says at every label  *)
(* what the transaction record holds, and, as long as nobody else has      *)
(* acted, what it says of the module.                                      *)
(***************************************************************************)
CapLabels == {"cap_gate", "cap_globals", "cap_bank", "cap_select", "cap_read",
              "cap_park_gate", "cap_park"}
BulkBegin == {"bulk_preflight", "bulk_stop_gate", "bulk_stop",
              "bulk_stop_verify"}
BulkWriting == {"bulk_bank_gate", "bulk_select", "bulk_write_gate",
                "bulk_write", "bulk_readback"}
BulkUndoing == {"bulk_undo_bank_gate", "bulk_undo_select", "bulk_undo_gate",
                "bulk_undo", "bulk_undo_readback"}
BulkEnding == {"bulk_park_gate", "bulk_park", "bulk_reset_gate", "bulk_fifo",
               "bulk_readout"}
BulkLabels == BulkBegin \cup BulkWriting \cup BulkUndoing \cup BulkEnding
FixBegin == {"fix_gate", "fix_identity", "fix_stop_gate", "fix_stop",
             "fix_stop_verify", "fix_bank_gate", "fix_select"}
FixWriting == {"fix_read", "fix_write_gate", "fix_write"}
FixUndoing == {"fix_undo_gate", "fix_undo", "fix_undo_readback"}
FixReset == {"fix_fifo_gate", "fix_fifo", "fix_readout_gate", "fix_readout"}
FixEnding == {"fix_park_gate", "fix_park"} \cup FixReset
                \cup {"fix_verify_gate", "fix_verify"}
FixLabels == FixBegin \cup FixWriting \cup {"fix_readback"} \cup FixUndoing
                \cup FixEnding
PrepBegin == {"prep_gate", "prep_read", "prep_stop_gate", "prep_stop",
              "prep_stop_verify"}
PrepWriting == {"prep_write_gate", "prep_write", "prep_readback"}
PrepReset == {"prep_reset_gate", "prep_fifo", "prep_readout",
              "prep_final_gate", "prep_final"}
PrepUndoing == {"prep_undo_gate", "prep_undo", "prep_undo_readback"}
PrepEnding == {"prep_stopped_gate", "prep_stopped"}
PrepLabels == PrepBegin \cup PrepWriting \cup PrepReset \cup PrepUndoing
                \cup PrepEnding
Quiet == {"idle", "audit_gate", "audit_read"}
StartupLabels == {"startup_prepared", "startup_captured", "startup_applied",
                  "startup_final"}
Labels == CapLabels \cup BulkLabels \cup FixLabels \cup PrepLabels \cup Quiet
            \cup StartupLabels \cup {"captured", "applied"}

Mvme == {"away", "running", "stopped"}
Hardware == [daq : {0, 1}, acq : {0, 1}, selector : Quads, bank : Banks,
             irq : {0, 1}, mblt : {0, 1}, readout : {"dirty", "fifo", "clean"}]
Live == [bank : Banks, irq : {0, 1}]
PrepStep == [quad : {NoQuad}, setting : ContractSettings, expected : {0, 1},
             profile : {ContractValue}]
CapReturns == {"idle", "captured", "bulk_preflight", "startup_captured",
               "startup_final"}
OpReturns == {"idle", "applied", "startup_applied", "startup_prepared"}
Caps == [return : CapReturns, quad : 0 .. QuadCount, ok : BOOLEAN,
         irq : {0, 1}, bank : Banks, complete : BOOLEAN]
Ops == [kind : {"none", "bulk", "repair", "prepare"},
        state : {"none", "passed", "failed"}, return : OpReturns, live : Live,
        steps : Seq(BankStep) \cup Seq(PrepStep), next : Nat,
        selected : 0 .. QuadCount, attempted : Nat, ok : BOOLEAN,
        owned : BOOLEAN, stopSent : BOOLEAN, stopVerified : BOOLEAN,
        retained : BOOLEAN, parked : BOOLEAN, reset : BOOLEAN,
        rollback : BOOLEAN, restored : Nat, safe : BOOLEAN,
        verified : BOOLEAN, leftStopped : BOOLEAN, began : Mvme]
Services == [ownership : {"open", "lost"}, audited : BOOLEAN,
             complete : BOOLEAN, fresh : BOOLEAN, captured : Live,
             profile : Profiles, startupPassed : BOOLEAN, commands : Nat]

TypeOK ==
    /\ hw \in Hardware /\ mvme \in Mvme
    /\ faults \in Nat /\ intrusions \in Nat
    /\ pc \in Labels /\ op \in Ops /\ cap \in Caps /\ svc \in Services
    /\ LiveBanks # {}

----------------------------------------------------------------------------
\* A bulk application.
Fresh(o) == /\ o.ok /\ ~o.rollback /\ o.safe /\ ~o.verified /\ o.restored = 0
            /\ o.owned
\* The profiles a plan is made from: the planner refuses an invalid pair.
ValidProfiles == {p \in Profiles : \A q \in Quads : Coupled(p.bank[q])}
Planned(o) == \E p \in ValidProfiles : PlanOf(p, o.live, Quads, o.steps)
BulkShape(l, o) ==
    /\ o.kind = "bulk" /\ o.return \in {"applied", "startup_applied"}
    /\ Planned(o)
    /\ o.owned /\ o.attempted <= Len(o.steps) /\ o.steps # <<>>
    /\ l \in BulkBegin =>
          Fresh(o) /\ o.next = 1 /\ o.attempted = 0 /\ o.selected = NoQuad
    /\ l \in BulkWriting =>
          /\ Fresh(o) /\ o.next \in 1 .. Len(o.steps)
          /\ o.attempted = IF l = "bulk_readback" THEN o.next ELSE o.next - 1
          /\ l \notin {"bulk_bank_gate", "bulk_select"} =>
                o.selected = o.steps[o.next].quad
    /\ l \in BulkUndoing =>
          /\ o.rollback /\ ~o.ok /\ ~o.verified /\ o.next \in 1 .. o.attempted
          /\ o.safe => o.restored = o.attempted - o.next
          /\ l \notin {"bulk_undo_bank_gate", "bulk_undo_select"} =>
                o.selected = o.steps[o.next].quad
    /\ l \in BulkEnding =>
          IF o.rollback THEN ~o.ok /\ o.safe = o.verified
          ELSE Fresh(o) /\ o.attempted = Len(o.steps)
    /\ l \notin BulkBegin /\ ~o.rollback => o.stopVerified

\* The repair of one value.
FixShape(l, o) ==
    /\ o.kind = "repair" /\ o.return = "applied"
    /\ o.steps \in Seq(BankStep) /\ Len(o.steps) = 1 /\ o.next = 1
    /\ o.owned /\ o.safe /\ o.attempted \in {0, 1}
    /\ o.steps[1].expected = o.live.bank[o.steps[1].quad][o.steps[1].setting]
    /\ l \in FixBegin \cup FixWriting =>
          Fresh(o) /\ o.attempted = 0 /\ ~o.retained
    /\ l \in FixBegin => o.selected = NoQuad
    /\ l \in FixWriting \cup {"fix_readback"} \cup FixUndoing =>
          o.selected = o.steps[1].quad
    /\ l = "fix_readback" => Fresh(o) /\ o.attempted = 1 /\ ~o.retained
    /\ l \in FixUndoing =>
          ~o.ok /\ o.attempted = 1 /\ ~o.retained /\ ~o.verified
    /\ l \in FixReset => o.attempted = 1
    /\ l \in FixEnding /\ o.ok => o.retained
    /\ o.retained => o.attempted = 1
    /\ (o.verified => ~o.ok)

\* The startup preparation.
PrepShape(l, o) ==
    /\ o.kind = "prepare" /\ o.return = "startup_prepared"
    /\ o.steps \in Seq(PrepStep) /\ o.attempted <= Len(o.steps)
    /\ o.owned
    /\ l \in PrepBegin \cup PrepWriting \cup PrepReset => Fresh(o)
    /\ l \in {"prep_gate", "prep_read"} => o.steps = <<>>
    /\ l \in PrepBegin => o.next = 1 /\ o.attempted = 0
    /\ l \in PrepWriting =>
          /\ o.next \in 1 .. Len(o.steps)
          /\ o.attempted = IF l = "prep_readback" THEN o.next ELSE o.next - 1
    /\ l \in PrepReset => o.attempted = Len(o.steps)
    /\ l \in PrepUndoing =>
          /\ o.rollback /\ ~o.ok /\ ~o.verified /\ o.next \in 1 .. o.attempted
          /\ o.safe => o.restored = o.attempted - o.next
    /\ l \in PrepEnding /\ o.verified => ~o.ok

\* Which operation the labels of a capture serve.
CapShape ==
    pc \in CapLabels =>
        /\ cap.return # "idle" /\ ~cap.complete
        /\ cap.return = "bulk_preflight" => BulkShape(cap.return, op)
        /\ pc \in {"cap_gate", "cap_globals"} => cap.quad = 0 /\ cap.ok
        /\ pc \in {"cap_bank", "cap_select", "cap_read"} =>
              cap.quad \in Quads /\ cap.ok
        /\ pc \in {"cap_park_gate", "cap_park"} /\ cap.ok =>
              cap.quad = QuadCount

\* A bulk application of the startup, or a capture of it.
InStartup ==
    \/ pc \in StartupLabels \cup PrepLabels
    \/ pc \in BulkLabels /\ op.return = "startup_applied"
    \/ /\ pc \in CapLabels
       /\ \/ cap.return \in {"startup_captured", "startup_final"}
          \/ cap.return = "bulk_preflight" /\ op.return = "startup_applied"
EndKinds == [applied |-> {"bulk", "repair"}, startup_applied |-> {"bulk"},
             startup_prepared |-> {"prepare"}]

Located ==
    /\ pc \in BulkLabels => BulkShape(pc, op)
    /\ pc \in FixLabels => FixShape(pc, op)
    /\ pc \in PrepLabels => PrepShape(pc, op)
    /\ CapShape
    /\ pc \in DOMAIN EndKinds =>
          op.kind \in EndKinds[pc] /\ op.state # "none"
    /\ mvme = "away" => op.began = "away"
    /\ mvme = "running" => op.began # "stopped"
    /\ pc = "captured" \/ InStartup
         \/ (pc \in CapLabels /\ cap.return = "captured") => ~svc.fresh
    /\ svc.fresh /\ pc \in Quiet => svc.captured = Captured
    /\ svc.startupPassed =>
          pc = "idle" /\ svc.captured.bank = svc.profile.bank

TypeInv == TypeOK /\ Located

----------------------------------------------------------------------------
\* The writes that may still follow without another look at the DAQ mode.
Budget(l) ==
    IF l \in {"bulk_fifo", "prep_fifo"} THEN 2
    ELSE IF l \in {"cap_globals", "cap_select", "cap_park", "bulk_stop",
                    "bulk_select", "bulk_write", "bulk_undo_select",
                    "bulk_undo", "bulk_park", "bulk_readout", "fix_stop",
                    "fix_select", "fix_write", "fix_undo", "fix_park",
                    "fix_fifo", "fix_readout", "prep_stop", "prep_write",
                    "prep_readout", "prep_undo"} THEN 1
    ELSE 0
IntrusionInv ==
    /\ hw.daq = IF mvme = "running" THEN 1 ELSE 0
    /\ mvme = "away" => intrusions = 0
    /\ mvme = "running" => intrusions + Budget(pc) <= 2
    /\ intrusions <= 2

\* What a capture has read.
CapSays ==
    Alone \/ (cap.return = "bulk_preflight" /\ Undisturbed) =>
        /\ pc \in CapLabels =>
              /\ pc # "cap_gate" /\ pc # "cap_globals" => cap.irq = hw.irq
              /\ cap.ok => \A q \in Quads :
                              q < cap.quad => cap.bank[q] = hw.bank[q]
              /\ pc = "cap_read" => hw.selector = cap.quad
        /\ pc \in CapReturns \ {"idle"} /\ cap.return = pc /\ cap.complete =>
              /\ cap.bank = hw.bank /\ cap.irq = hw.irq
              /\ hw.selector = 0
CapReturned ==
    pc \in CapReturns \ {"idle"} => cap.return = pc
FreshSays ==
    Alone /\ svc.fresh /\ pc \in Quiet =>
        svc.captured.bank = hw.bank /\ svc.captured.irq = hw.irq

\* The module during a bulk application: the first k steps are written, those
\* after the m-th are not, everything else is as it was found.
Holds(o, h, i) == h.bank[o.steps[i].quad][o.steps[i].setting]
Elsewhere(o, q, s) ==
    \A i \in 1 .. Len(o.steps) : ~(o.steps[i].quad = q /\ o.steps[i].setting = s)
BankAt(o, h, k, m) ==
    /\ \A i \in 1 .. Len(o.steps) :
          /\ i <= k => Holds(o, h, i) = o.steps[i].profile
          /\ i > m => Holds(o, h, i) = o.steps[i].expected
          /\ Holds(o, h, i) \in {o.steps[i].expected, o.steps[i].profile}
    /\ \A q \in Quads, s \in Settings :
          Elsewhere(o, q, s) => h.bank[q][s] = o.live.bank[q][s]
BulkSays(l, o, h) ==
    /\ l \in BulkBegin \ {"bulk_preflight"} => BankAt(o, h, 0, 0)
    /\ l \in BulkWriting =>
          BankAt(o, h, o.next - 1, IF l = "bulk_readback" THEN o.next
                                                          ELSE o.next - 1)
    /\ l \in BulkUndoing /\ o.safe => BankAt(o, h, o.next - 1, o.next)
    /\ l \in BulkWriting \cup BulkUndoing /\ o.selected # NoQuad =>
          h.selector = o.selected
    /\ l \in BulkEnding /\ ~o.rollback =>
          BankAt(o, h, Len(o.steps), Len(o.steps))
    /\ l \in BulkEnding /\ o.verified => BankAt(o, h, 0, 0)
    /\ l \in {"bulk_reset_gate", "bulk_fifo", "bulk_readout"} /\ o.ok /\ o.parked =>
          h.selector = 0
    /\ l = "bulk_readout" => h.readout = "fifo"
    /\ l \notin BulkBegin /\ o.stopVerified => h.acq = 0

\* The module during a repair.
FixSays(l, o, h) ==
    /\ l \in FixWriting \cup {"fix_readback"} \cup FixUndoing =>
          h.selector = o.selected
    /\ l \in {"fix_write_gate", "fix_write"} =>
          LET quad == h.bank[o.steps[1].quad] IN
          /\ quad[o.steps[1].setting] = o.steps[1].expected
          /\ o.steps[1].setting = Constrained =>
                o.steps[1].profile <= quad[Boundary]
          /\ o.steps[1].setting = Boundary =>
                quad[Constrained] <= o.steps[1].profile
    /\ o.retained => Holds(o, h, 1) = o.steps[1].profile
    /\ o.verified => Holds(o, h, 1) = o.steps[1].expected
    /\ l \in FixReset \cup {"fix_verify_gate", "fix_verify"} /\ o.parked =>
          h.selector = 0
    /\ l \in {"fix_readout_gate", "fix_readout"} /\ o.ok => h.readout = "fifo"
    /\ o.reset /\ o.ok => h.readout = "clean"
    /\ l \notin FixReset \cup {"fix_verify_gate", "fix_verify"} => ~o.parked
    /\ l \notin {"fix_verify_gate", "fix_verify"} => ~o.reset
    /\ o.stopVerified => h.acq = 0
FixAlone(o, h) ==
    \A q \in Quads, s \in Settings :
        q # o.steps[1].quad \/ s # o.steps[1].setting =>
            h.bank[q][s] = o.live.bank[q][s]

\* The module during the startup preparation.
PrepAt(o, h, k, m) ==
    /\ \A i \in 1 .. Len(o.steps) :
          /\ i <= k => h[o.steps[i].setting] = o.steps[i].profile
          /\ i > m => h[o.steps[i].setting] = o.steps[i].expected
PrepSays(l, o, h) ==
    /\ \A i, j \in 1 .. Len(o.steps) :
          i # j => o.steps[i].setting # o.steps[j].setting
    /\ l \in PrepBegin => PrepAt(o, h, 0, 0)
    /\ l \in PrepWriting =>
          PrepAt(o, h, o.next - 1, IF l = "prep_readback" THEN o.next
                                                          ELSE o.next - 1)
    /\ l \in PrepReset => PrepAt(o, h, Len(o.steps), Len(o.steps))
    /\ l \in PrepUndoing /\ o.safe => PrepAt(o, h, 0, o.next)
    /\ l \in PrepEnding /\ o.verified => PrepAt(o, h, 0, 0)
    /\ l = "prep_readout" => h.readout = "fifo"
    /\ l \in {"prep_final_gate", "prep_final"} => h.readout = "clean"
    /\ l \in PrepEnding /\ o.ok /\ o.reset =>
          /\ h.readout = "clean" /\ h.irq = 1 /\ h.mblt = 1
    /\ o.stopVerified => h.acq = 0

OperationSays ==
    Undisturbed =>
        /\ pc \in BulkLabels => BulkSays(pc, op, hw)
        /\ pc \in FixLabels => FixSays(pc, op, hw)
        /\ pc \in PrepLabels => PrepSays(pc, op, hw)
RepairAlone == Alone /\ pc \in FixLabels => FixAlone(op, hw)
\* Once it is prepared the module keeps the readout contract and is stopped.
StartupSays ==
    Alone /\ InStartup /\ pc \notin PrepLabels \cup {"startup_prepared"} =>
        ContractHolds /\ hw.acq = 0

ModuleInv ==
    /\ CapReturned /\ CapSays /\ FreshSays
    /\ OperationSays /\ RepairAlone /\ StartupSays
    /\ PassedIsApplied /\ VerifiedRollbackRestores /\ PairsStayValid
    /\ StartupPassedHolds

----------------------------------------------------------------------------
(***************************************************************************)
(*                     3. What one access leaves                           *)
(***************************************************************************)
\* Two Boolean-free facts about the bounds.
LEMMA QuadFacts ==
    /\ QuadCount \in Nat /\ QuadCount > 0 /\ 0 \in Quads
    /\ NoQuad \notin Quads /\ NoQuad \in 0 .. QuadCount
    /\ Quads \subseteq 0 .. QuadCount /\ Quads \subseteq Nat
BY PlanAssumption DEF Quads, NoQuad

\* The registers after each write.
LEMMA SelectFacts ==
    ASSUME hw \in Hardware, NEW q \in Quads
    PROVE  /\ Select(q) \in Hardware /\ Select(q).selector = q
           /\ Select(q).daq = hw.daq /\ Select(q).acq = hw.acq
           /\ Select(q).bank = hw.bank /\ Select(q).irq = hw.irq
           /\ Select(q).mblt = hw.mblt /\ Select(q).readout = hw.readout
BY DEF Select, Hardware

\* The stop of the acquisition changes the run register and nothing else.
LEMMA StopFacts ==
    ASSUME hw \in Hardware
    PROVE  /\ StopAcquisition \in Hardware /\ StopAcquisition.acq = 0
           /\ StopAcquisition.daq = hw.daq /\ StopAcquisition.bank = hw.bank
           /\ StopAcquisition.selector = hw.selector
           /\ StopAcquisition.irq = hw.irq /\ StopAcquisition.mblt = hw.mblt
           /\ StopAcquisition.readout = hw.readout
BY DEF StopAcquisition, Hardware

\* The two reset pulses touch the readout only: the FIFO's first, then the
\* readout's on top of it.
LEMMA ResetFacts ==
    ASSUME hw \in Hardware
    PROVE  \A h \in {ResetFifo, ResetReadout} :
              /\ h \in Hardware /\ h.daq = hw.daq /\ h.acq = hw.acq
              /\ h.bank = hw.bank /\ h.selector = hw.selector
              /\ h.irq = hw.irq /\ h.mblt = hw.mblt
              /\ h = ResetFifo => h.readout = "fifo"
              /\ h = ResetReadout /\ hw.readout = "fifo" => h.readout = "clean"
BY DEF ResetFifo, ResetReadout, Hardware

\* A banked write lands in one register of the bank the selector shows.
LEMMA SetBankedFacts ==
    ASSUME hw \in Hardware, NEW s \in Settings, NEW v \in Values
    PROVE  LET h == SetBanked(s, v) IN
           /\ h \in Hardware /\ h.daq = hw.daq /\ h.acq = hw.acq
           /\ h.selector = hw.selector /\ h.irq = hw.irq /\ h.mblt = hw.mblt
           /\ \A q \in Quads, t \in Settings :
                 h.bank[q][t] = IF q = hw.selector /\ t = s THEN v
                                ELSE hw.bank[q][t]
<1>1. hw.bank \in Banks /\ hw.selector \in Quads
  BY DEF Hardware
<1>2. [hw.bank EXCEPT ![hw.selector][s] = v] \in Banks
  BY <1>1 DEF Banks, Quad
<1>3. PICK b \in Banks : b = [hw.bank EXCEPT ![hw.selector][s] = v]
  BY <1>2
<1>4. \A q \in Quads, t \in Settings :
         b[q][t] = IF q = hw.selector /\ t = s THEN v ELSE hw.bank[q][t]
  BY <1>1, <1>3 DEF Banks, Quad
<1>5. SetBanked(s, v) = [[hw EXCEPT !.bank = b] EXCEPT !.readout = "dirty"]
  BY <1>3 DEF SetBanked, Dirty
<1>6. PICK h : h = SetBanked(s, v)
  OBVIOUS
<1>7. /\ h \in Hardware /\ h.bank = b /\ h.daq = hw.daq /\ h.acq = hw.acq
      /\ h.selector = hw.selector /\ h.irq = hw.irq /\ h.mblt = hw.mblt
  BY <1>5, <1>6 DEF Hardware
<1> QED
  BY <1>4, <1>6, <1>7

\* A write of a contract register changes that register alone.
LEMMA SetGlobalFacts ==
    ASSUME hw \in Hardware, NEW g \in ContractSettings, NEW v \in {0, 1}
    PROVE  LET h == SetGlobal(g, v) IN
           /\ h \in Hardware /\ h.daq = hw.daq /\ h.acq = hw.acq
           /\ h.selector = hw.selector /\ h.bank = hw.bank
           /\ h[g] = v
           /\ \A f \in ContractSettings : f # g => h[f] = hw[f]
<1>1. CASE g = "irq"
  BY <1>1 DEF SetGlobal, Dirty, Hardware, ContractSettings
<1>2. CASE g = "mblt"
  BY <1>2 DEF SetGlobal, Dirty, Hardware, ContractSettings
<1> QED
  BY <1>1, <1>2 DEF ContractSettings

----------------------------------------------------------------------------
(***************************************************************************)
(*                4. The banks during a bulk application                   *)
(***************************************************************************)
\* What a plan says of its steps one by one.
LEMMA PlanFacts ==
    ASSUME NEW o \in Ops, NEW p \in ValidProfiles, PlanOf(p, o.live, Quads, o.steps)
    PROVE  /\ o.steps \in Seq(BankStep) /\ Len(o.steps) \in Nat
           /\ p.bank \in Banks /\ o.live.bank \in Banks
           /\ \A q \in Quads : Coupled(p.bank[q])
           /\ \A i \in 1 .. Len(o.steps) :
                 LET st == o.steps[i] IN
                 /\ st \in BankStep /\ st.expected # st.profile
                 /\ st.expected = o.live.bank[st.quad][st.setting]
                 /\ st.profile = p.bank[st.quad][st.setting]
           /\ \A q \in Quads, s \in Settings :
                 Elsewhere(o, q, s) => p.bank[q][s] = o.live.bank[q][s]
           /\ \A i, j \in 1 .. Len(o.steps) :
                 i # j /\ o.steps[i].quad = o.steps[j].quad =>
                    o.steps[i].setting # o.steps[j].setting
<1>1. o.steps \in Seq(BankStep) /\ Len(o.steps) \in Nat
  BY LenProperties DEF PlanOf
<1>2. p.bank \in Banks /\ \A q \in Quads : Coupled(p.bank[q])
  BY ServiceAssumption DEF ValidProfiles, Configuration
<1>3. o.live.bank \in Banks
  BY DEF Ops, Live
<1>4. ASSUME NEW i \in 1 .. Len(o.steps)
      PROVE  LET st == o.steps[i] IN
                 /\ st \in BankStep /\ st.expected # st.profile
                 /\ st.expected = o.live.bank[st.quad][st.setting]
                 /\ st.profile = p.bank[st.quad][st.setting]
  <2>1. o.steps[i] \in Elements(o.steps)
    BY DEF Elements
  <2>2. PICK st : st = o.steps[i]
    OBVIOUS
  <2>3. /\ st \in BankStep /\ st.expected # st.profile
        /\ \E q \in Quads, s \in Settings : st = StepFor(p, o.live, q, s)
    BY <2>1, <2>2 DEF PlanOf
  <2> QED
    BY <2>2, <2>3 DEF StepFor
<1>5. ASSUME NEW q \in Quads, NEW s \in Settings, Elsewhere(o, q, s)
      PROVE  p.bank[q][s] = o.live.bank[q][s]
  <2>1. SUFFICES ASSUME p.bank[q][s] # o.live.bank[q][s] PROVE FALSE
    OBVIOUS
  <2>2. PICK st : st = StepFor(p, o.live, q, s)
    OBVIOUS
  <2>3. /\ st \in BankStep /\ st.expected # st.profile
        /\ st.quad = q /\ st.setting = s
    BY <1>2, <1>3, <2>1, <2>2 DEF StepFor, BankStep, Banks, Quad
  <2>4. st \in Elements(o.steps)
    BY <2>2, <2>3 DEF PlanOf
  <2> QED
    BY <1>5, <2>3, <2>4 DEF Elements, Elsewhere
<1>6. ASSUME NEW i \in 1 .. Len(o.steps), NEW j \in 1 .. Len(o.steps), i < j,
             o.steps[i].quad = o.steps[j].quad
      PROVE  o.steps[i].setting # o.steps[j].setting
  BY <1>6 DEF PlanOf, Ordered, Precedes, Constrained, Boundary
<1>7. ASSUME NEW i \in 1 .. Len(o.steps), NEW j \in 1 .. Len(o.steps), i # j,
             o.steps[i].quad = o.steps[j].quad
      PROVE  o.steps[i].setting # o.steps[j].setting
  BY <1>1, <1>6, <1>7
<1> QED
  BY <1>1, <1>2, <1>3, <1>4, <1>5, <1>7

\* Two banks that hold the same values are the same.
LEMMA BanksEqual ==
    ASSUME NEW a \in Banks, NEW b \in Banks,
           \A q \in Quads, s \in Settings : a[q][s] = b[q][s]
    PROVE  a = b
<1>1. \A q \in Quads : a[q] \in Quad /\ b[q] \in Quad
  BY DEF Banks
<1>2. \A q \in Quads : a[q] = b[q]
  BY <1>1 DEF Quad
<1> QED
  BY <1>2 DEF Banks

\* All steps written, or none.
LEMMA AllWritten ==
    ASSUME NEW o \in Ops, Planned(o), NEW h \in Hardware,
           BankAt(o, h, Len(o.steps), Len(o.steps))
    PROVE  h.bank = Target(o.live.bank, o.steps)
<1>1. PICK p \in ValidProfiles : PlanOf(p, o.live, Quads, o.steps)
  BY DEF Planned
<1>2. h.bank \in Banks
  BY DEF Hardware
<1>3. ASSUME NEW q \in Quads, NEW s \in Settings
      PROVE  /\ Target(o.live.bank, o.steps)[q][s] = h.bank[q][s]
             /\ Target(o.live.bank, o.steps)[q][s] \in Values
  <2>1. DOMAIN o.steps = 1 .. Len(o.steps)
    BY <1>1, PlanFacts, LenProperties
  <2>2. CASE Elsewhere(o, q, s)
    <3>1. Target(o.live.bank, o.steps)[q][s] = o.live.bank[q][s]
      BY <2>1, <2>2 DEF Target, Elsewhere
    <3> QED
      BY <1>2, <2>2, <3>1 DEF BankAt, Banks, Quad
  <2>3. CASE ~Elsewhere(o, q, s)
    <3>1. PICK i \in 1 .. Len(o.steps) :
             o.steps[i].quad = q /\ o.steps[i].setting = s
      BY <2>3 DEF Elsewhere
    <3>2. Target(o.live.bank, o.steps)[q][s] =
             (CHOOSE st \in {o.steps[j] : j \in DOMAIN o.steps} :
                 st.quad = q /\ st.setting = s).profile
      BY <2>1, <3>1 DEF Target
    <3>3. \A st \in {o.steps[j] : j \in DOMAIN o.steps} :
             st.quad = q /\ st.setting = s => st = o.steps[i]
      BY <1>1, <2>1, <3>1, PlanFacts
    <3>4. (CHOOSE st \in {o.steps[j] : j \in DOMAIN o.steps} :
              st.quad = q /\ st.setting = s) = o.steps[i]
      BY <2>1, <3>1, <3>3
    <3>5. Holds(o, h, i) = o.steps[i].profile /\ Len(o.steps) \in Nat
      BY <1>1, PlanFacts DEF BankAt
    <3> QED
      BY <1>2, <3>1, <3>2, <3>4, <3>5 DEF Holds, Banks, Quad
  <2> QED
    BY <2>2, <2>3
<1>4. Target(o.live.bank, o.steps) \in Banks
  <2>1. PICK t : t = Target(o.live.bank, o.steps)
    OBVIOUS
  <2>2. \A q \in Quads, s \in Settings : t[q][s] \in Values
    BY <1>3, <2>1
  <2>3. t = [q \in Quads |-> [s \in Settings |-> t[q][s]]]
    BY <2>1 DEF Target
  <2> QED
    BY <2>1, <2>2, <2>3 DEF Banks, Quad
<1> QED
  BY <1>2, <1>3, <1>4, BanksEqual

\* With no step written the banks are still as the preflight capture read
\* them, so every expected value is live.
LEMMA NoneWritten ==
    ASSUME NEW o \in Ops, Planned(o), NEW h \in Hardware, BankAt(o, h, 0, 0)
    PROVE  /\ h.bank = o.live.bank
           /\ \A i \in DOMAIN o.steps :
                 o.steps[i].expected = h.bank[o.steps[i].quad][o.steps[i].setting]
<1>1. PICK p \in ValidProfiles : PlanOf(p, o.live, Quads, o.steps)
  BY DEF Planned
<1>2. h.bank \in Banks /\ o.live.bank \in Banks
  BY DEF Hardware, Ops, Live
<1>3. \A i \in 1 .. Len(o.steps) :
         /\ Holds(o, h, i) = o.steps[i].expected
         /\ o.steps[i].expected
               = o.live.bank[o.steps[i].quad][o.steps[i].setting]
  BY <1>1, PlanFacts DEF BankAt
<1>4. \A q \in Quads, s \in Settings : h.bank[q][s] = o.live.bank[q][s]
  BY <1>3 DEF BankAt, Holds, Elsewhere
<1>5. DOMAIN o.steps = 1 .. Len(o.steps)
  BY <1>1, PlanFacts, LenProperties
<1> QED
  BY <1>2, <1>3, <1>4, <1>5, BanksEqual DEF Holds

----------------------------------------------------------------------------
(***************************************************************************)
(*                 5. A bulk application keeps its shape                   *)
(***************************************************************************)
BulkReturns == {"applied", "startup_applied"}
BulkBase(o) ==
    /\ o \in Ops /\ o.kind = "bulk" /\ o.return \in BulkReturns
    /\ Planned(o) /\ o.attempted <= Len(o.steps) /\ o.steps # <<>>

\* Where an application goes, from o: to a gate of its own or back.
BulkTo(l, new, o) ==
    /\ l \in BulkLabels \cup BulkReturns /\ l # "bulk_preflight"
    /\ new \in Ops /\ new.began = o.began /\ new.return = o.return
    /\ l \in BulkLabels => BulkShape(l, new)
    /\ l \notin BulkLabels =>
          l = new.return /\ new.kind = "bulk" /\ new.state # "none"

\* Every step of an apply names a real bank, a setting and two register
\* values.
LEMMA BulkStepFacts ==
    ASSUME NEW o, BulkBase(o)
    PROVE  /\ Len(o.steps) \in Nat /\ Len(o.steps) > 0
           /\ \A i \in 1 .. Len(o.steps) :
                 /\ o.steps[i].quad \in Quads /\ o.steps[i].quad # NoQuad
                 /\ o.steps[i].setting \in Settings
                 /\ o.steps[i].expected \in Values
                 /\ o.steps[i].profile \in Values
<1>1. PICK p \in ValidProfiles : PlanOf(p, o.live, Quads, o.steps)
  BY DEF BulkBase, Planned
<1>2. o.steps \in Seq(BankStep) /\ o.steps # <<>>
  BY <1>1 DEF PlanOf, BulkBase
<1>3. \A i \in 1 .. Len(o.steps) : o.steps[i] \in BankStep
  BY <1>2, ElementOfSeq
<1>4. Len(o.steps) \in Nat /\ Len(o.steps) # 0
  BY <1>2, EmptySeq, LenProperties
<1> QED
  BY <1>3, <1>4, QuadFacts DEF BankStep

\* Where the end of an apply goes, the record has the shape of that label and
\* no write follows ungated.
LEMMA BulkReturnType ==
    ASSUME NEW o, BulkBase(o), BulkReturn(o)
    PROVE  BulkTo(pc', op', o) /\ Budget(pc') = 0
<1>1. /\ pc' = o.return /\ op' \in Ops /\ op'.began = o.began
      /\ op'.return = o.return /\ op'.kind = "bulk" /\ op'.state # "none"
  BY DEF BulkReturn, Go, BulkBase, Ops
<1>2. pc' \in BulkReturns /\ pc' \notin BulkLabels /\ Budget(pc') = 0
  BY <1>1 DEF BulkBase, BulkReturns, BulkLabels, BulkBegin, BulkWriting,
              BulkUndoing, BulkEnding, Budget
<1> QED
  BY <1>1, <1>2 DEF BulkTo, BulkReturns

\* Where the end of the rollback goes, the record has the shape of that label.
LEMMA RollbackEndType ==
    ASSUME NEW o, BulkBase(o), o.rollback, ~o.ok,
           o.safe => o.restored = o.attempted, RollbackEnd(o)
    PROVE  BulkTo(pc', op', o) /\ Budget(pc') = 0
<1>1. PICK done : done = [o EXCEPT !.verified = o.safe /\ o.restored = o.attempted]
  OBVIOUS
<1>2. /\ BulkBase(done) /\ done.rollback /\ ~done.ok /\ done.safe = done.verified
      /\ done.began = o.began /\ done.return = o.return /\ done.owned = o.owned
  BY <1>1 DEF BulkBase, Ops, Planned
<1>3. CASE o.owned
  <2>1. pc' = "bulk_park_gate" /\ op' = done
    BY <1>1, <1>3 DEF RollbackEnd, Go
  <2>2. BulkShape("bulk_park_gate", done)
    BY <1>2, <1>3 DEF BulkShape, BulkBase, BulkReturns, BulkBegin, BulkWriting,
                      BulkUndoing, BulkEnding
  <2> QED
    BY <1>2, <2>1, <2>2 DEF BulkTo, BulkBase, BulkLabels, BulkEnding, Budget
<1>4. CASE ~o.owned
  BY <1>1, <1>2, <1>4, BulkReturnType DEF RollbackEnd, BulkTo
<1> QED
  BY <1>3, <1>4

\* Where the next rollback step goes, the record has the shape of that label.
LEMMA RollbackType ==
    ASSUME NEW o, BulkBase(o), o.rollback, ~o.ok, o.owned, ~o.verified,
           o.next \in 0 .. o.attempted,
           o.safe => o.restored = o.attempted - o.next, Rollback(o)
    PROVE  BulkTo(pc', op', o) /\ Budget(pc') = 0
<1>1. CASE o.next = 0
  BY <1>1, RollbackEndType DEF Rollback, BulkBase, Ops
<1>2. CASE o.next # 0
  <2>1. o.next \in 1 .. o.attempted
    BY <1>2 DEF BulkBase, Ops
  <2>2. /\ op' = o /\ pc' \in {"bulk_undo_bank_gate", "bulk_undo_gate"}
        /\ pc' = "bulk_undo_gate" => o.selected = o.steps[o.next].quad
    BY <1>2 DEF Rollback, Go
  <2>3. BulkShape(pc', o)
    BY <2>1, <2>2 DEF BulkShape, BulkBase, BulkReturns, BulkBegin, BulkWriting,
                      BulkUndoing, BulkEnding
  <2> QED
    BY <2>2, <2>3 DEF BulkTo, BulkBase, BulkLabels, BulkUndoing, Budget
<1> QED
  BY <1>1, <1>2

\* Where an apply goes once its writing is over, the record has the shape of
\* that label.
LEMMA BulkEndType ==
    ASSUME NEW o, BulkBase(o), ~o.rollback => ~o.verified /\ o.restored = 0,
           BulkEnd(o)
    PROVE  BulkTo(pc', op', o) /\ Budget(pc') = 0
<1>1. CASE ~o.ok /\ o.owned /\ o.attempted > 0 /\ ~o.rollback
  <2>1. PICK b : b = [o EXCEPT !.rollback = TRUE, !.retained = FALSE,
                               !.selected = NoQuad, !.next = o.attempted]
    OBVIOUS
  <2>2. /\ b \in Ops /\ b.began = o.began /\ b.return = o.return
        /\ b.kind = o.kind /\ b.live = o.live /\ b.steps = o.steps
        /\ b.attempted = o.attempted /\ b.ok = o.ok /\ b.owned = o.owned
        /\ b.verified = o.verified /\ b.restored = o.restored
        /\ b.rollback /\ b.next = o.attempted
    BY <2>1, QuadFacts DEF BulkBase, Ops
  <2>3. BulkBase(b) /\ b.next \in 0 .. b.attempted
        /\ b.restored = b.attempted - b.next
    BY <1>1, <2>2 DEF BulkBase, Ops, Planned
  <2>4. Rollback(b)
    BY <1>1, <2>1 DEF BulkEnd
  <2> QED
    BY <1>1, <2>2, <2>3, <2>4, RollbackType DEF BulkTo
<1>2. CASE ~(~o.ok /\ o.owned /\ o.attempted > 0 /\ ~o.rollback)
  BY <1>2, BulkReturnType DEF BulkEnd
<1> QED
  BY <1>1, <1>2

\* Where the next forward step goes, the record has the shape of that label.
LEMMA ForwardType ==
    ASSUME NEW o, BulkBase(o), Fresh(o), o.stopVerified,
           o.next \in 1 .. Len(o.steps) + 1, o.attempted = o.next - 1,
           Forward(o)
    PROVE  BulkTo(pc', op', o) /\ Budget(pc') = 0
<1>1. PICK b : b = [o EXCEPT !.retained = o.next > Len(o.steps)]
  OBVIOUS
<1>2. /\ BulkBase(b) /\ Fresh(b) /\ b.stopVerified /\ b.next = o.next
      /\ b.attempted = o.attempted /\ b.steps = o.steps
      /\ b.selected = o.selected /\ b.began = o.began /\ b.return = o.return
  BY <1>1 DEF BulkBase, Ops, Planned, Fresh
<1>3. op' = b /\ pc' = ForwardAt(o)
  BY <1>1 DEF Forward, Go
<1>4. Len(o.steps) \in Nat
  BY BulkStepFacts
<1>5. CASE o.next > Len(o.steps)
  <2>1. pc' = "bulk_park_gate" /\ b.attempted = Len(b.steps)
    BY <1>2, <1>3, <1>4, <1>5 DEF ForwardAt
  <2>2. BulkShape("bulk_park_gate", b)
    BY <1>2, <2>1 DEF BulkShape, BulkBase, BulkReturns, BulkBegin, BulkWriting,
                      BulkUndoing, BulkEnding, Fresh
  <2> QED
    BY <1>2, <1>3, <2>1, <2>2 DEF BulkTo, BulkBase, BulkLabels, BulkEnding, Budget
<1>6. CASE ~(o.next > Len(o.steps))
  <2>1. /\ pc' \in {"bulk_bank_gate", "bulk_write_gate"}
        /\ pc' = "bulk_write_gate" => o.selected = o.steps[o.next].quad
        /\ o.next \in 1 .. Len(o.steps)
    BY <1>3, <1>4, <1>6 DEF ForwardAt
  <2>2. BulkShape(pc', b)
    BY <1>2, <2>1 DEF BulkShape, BulkBase, BulkReturns, BulkBegin, BulkWriting,
                      BulkUndoing, BulkEnding, Fresh
  <2> QED
    BY <1>2, <1>3, <2>1, <2>2 DEF BulkTo, BulkBase, BulkLabels, BulkWriting,
                                  Budget
<1> QED
  BY <1>5, <1>6

----------------------------------------------------------------------------
\* What every step of an operation leaves alone, and that it stays within the
\* writes that its last gate allows.
StepFrame ==
    /\ hw' \in Hardware /\ hw'.daq = hw.daq /\ mvme' = mvme
    /\ faults' \in Nat /\ intrusions' \in Nat
    /\ svc' \in {svc, DetachForForeignDaq}
    /\ hw.daq = 0 => intrusions' = intrusions
    /\ hw.daq = 1 => intrusions' + Budget(pc') <= intrusions + Budget(pc)

\* After any gate two writes at most are still to come.
LEMMA BudgetNat == \A l : Budget(l) \in {0, 1, 2}
BY DEF Budget

\* A gate leaves the module alone and opens a budget only when it read DAQ
\* mode off.
LEMMA GateFrame ==
    ASSUME TypeOK, Gate(TRUE, TRUE), hw.daq = 0 \/ Budget(pc') = 0
    PROVE  StepFrame /\ hw' = hw
<1>1. /\ hw' = hw /\ mvme' = mvme /\ intrusions' = intrusions
      /\ faults' \in {faults, faults + 1} /\ svc' \in {svc, DetachForForeignDaq}
  BY DEF Gate, Failing
<1>2. hw \in Hardware /\ faults \in Nat /\ intrusions \in Nat
  BY DEF TypeOK
<1>3. Budget(pc) \in {0, 1, 2} /\ Budget(pc') \in {0, 1, 2}
  BY BudgetNat
<1> QED
  BY <1>1, <1>2, <1>3 DEF StepFrame, Hardware

\* A read leaves the module alone and opens no budget.
LEMMA ReadFrame ==
    ASSUME TypeOK, Read(TRUE, TRUE, TRUE), svc' = svc, Budget(pc') <= Budget(pc)
    PROVE  StepFrame /\ hw' = hw
<1>1. /\ hw' = hw /\ mvme' = mvme /\ intrusions' = intrusions
      /\ faults' \in {faults, faults + 1}
  BY DEF Read, Failing
<1>2. hw \in Hardware /\ faults \in Nat /\ intrusions \in Nat
  BY DEF TypeOK
<1>3. Budget(pc) \in {0, 1, 2} /\ Budget(pc') \in {0, 1, 2}
  BY BudgetNat
<1> QED
  BY <1>1, <1>2, <1>3 DEF StepFrame, Hardware

Sends ==
    /\ mvme' = mvme /\ faults' \in {faults, faults + 1}
    /\ intrusions' = IF hw.daq = 1 THEN intrusions + 1 ELSE intrusions
\* A write uses up one unit of the budget the last gate opened.
LEMMA StoreFrame ==
    ASSUME TypeOK, hw' \in Hardware, hw'.daq = hw.daq, Sends, svc' = svc,
           Budget(pc') + 1 <= Budget(pc)
    PROVE  StepFrame
<1>2. hw \in Hardware /\ faults \in Nat /\ intrusions \in Nat
  BY DEF TypeOK
<1>3. Budget(pc) \in {0, 1, 2} /\ Budget(pc') \in {0, 1, 2}
  BY BudgetNat
<1> QED
  BY <1>2, <1>3 DEF StepFrame, Hardware, Sends

\* Every step of an application.
BulkStep == StepFrame /\ BulkTo(pc', op', op) /\ cap' = cap

\* What the type invariant says at every label of an apply.
LEMMA BulkFacts ==
    ASSUME TypeInv, pc \in BulkLabels
    PROVE  /\ BulkShape(pc, op) /\ BulkBase(op) /\ hw \in Hardware /\ TypeOK
           /\ op.owned /\ (~op.rollback => ~op.verified /\ op.restored = 0)
<1>1. TypeOK /\ BulkShape(pc, op) /\ op \in Ops /\ hw \in Hardware
  BY DEF TypeInv, Located, TypeOK
<1>2. BulkBase(op) /\ op.owned
  BY <1>1 DEF BulkShape, BulkBase, BulkReturns
<1>3. ASSUME ~op.rollback PROVE ~op.verified /\ op.restored = 0
  BY <1>1, <1>3 DEF BulkShape, BulkLabels, BulkBegin, BulkWriting, BulkUndoing,
                    BulkEnding, Fresh
<1> QED
  BY <1>1, <1>2, <1>3

\* Marking an apply failed or refused keeps its plan, its counts and its duty
\* to roll back.
LEMMA BulkFailedFacts ==
    ASSUME NEW o, BulkBase(o)
    PROVE  \A f \in {Failed(o), Refused(o), [Refused(o) EXCEPT !.safe = FALSE]} :
              /\ BulkBase(f) /\ ~f.ok /\ f.began = o.began /\ f.return = o.return
              /\ f.rollback = o.rollback /\ f.verified = o.verified
              /\ f.restored = o.restored /\ f.attempted = o.attempted
              /\ f.steps = o.steps /\ f.live = o.live
<1>1. SUFFICES ASSUME NEW f, f \in {Failed(o), Refused(o),
                                     [Refused(o) EXCEPT !.safe = FALSE]}
               PROVE  /\ BulkBase(f) /\ ~f.ok /\ f.began = o.began
                      /\ f.return = o.return /\ f.rollback = o.rollback
                      /\ f.verified = o.verified /\ f.restored = o.restored
                      /\ f.attempted = o.attempted
                      /\ f.steps = o.steps /\ f.live = o.live
  OBVIOUS
<1>2. /\ f \in Ops /\ ~f.ok /\ f.began = o.began /\ f.kind = o.kind
      /\ f.return = o.return /\ f.rollback = o.rollback
      /\ f.verified = o.verified /\ f.restored = o.restored
      /\ f.attempted = o.attempted
      /\ f.steps = o.steps /\ f.live = o.live
  <2>1. o \in Ops
    BY DEF BulkBase
  <2>2. CASE f = Failed(o)
    BY <2>1, <2>2 DEF Ops, Failed
  <2>3. CASE f = Refused(o)
    BY <2>1, <2>3 DEF Ops, Refused
  <2>4. CASE f = [Refused(o) EXCEPT !.safe = FALSE]
    <3>1. PICK r : r = Refused(o)
      OBVIOUS
    <3>2. /\ r \in Ops /\ ~r.ok /\ r.began = o.began /\ r.kind = o.kind
          /\ r.return = o.return /\ r.rollback = o.rollback
          /\ r.verified = o.verified /\ r.restored = o.restored
          /\ r.attempted = o.attempted
          /\ r.steps = o.steps /\ r.live = o.live
      BY <2>1, <3>1 DEF Ops, Refused
    <3>3. f = [r EXCEPT !.safe = FALSE]
      BY <2>4, <3>1
    <3> QED
      BY <3>2, <3>3 DEF Ops
  <2> QED
    BY <1>1, <2>2, <2>3, <2>4
<1> QED
  BY <1>2 DEF BulkBase, Planned

\* The three kinds of gates.
LEMMA BulkGates ==
    ASSUME TypeInv, BulkStopGate \/ BulkBankGate \/ BulkWriteGate
    PROVE  BulkStep
<1>1. pc \in BulkLabels /\ Gate(TRUE, TRUE) /\ cap' = cap
  BY DEF BulkStopGate, BulkBankGate, BulkWriteGate, Gate, BulkLabels, BulkBegin,
         BulkWriting
<1>2. \/ /\ hw.daq = 0 /\ op' = op
         /\ \/ pc = "bulk_stop_gate" /\ pc' = "bulk_stop"
            \/ pc = "bulk_bank_gate" /\ pc' = "bulk_select"
            \/ pc = "bulk_write_gate" /\ pc' = "bulk_write"
      \/ BulkEnd(Refused(op))
  BY DEF BulkStopGate, BulkBankGate, BulkWriteGate, Gate, On, Go
<1>3. CASE BulkEnd(Refused(op))
  <2>1. BulkTo(pc', op', Refused(op)) /\ Budget(pc') = 0
    BY <1>1, <1>3, BulkFacts, BulkFailedFacts, BulkEndType
  <2> QED
    BY <1>1, <2>1, BulkFacts, BulkFailedFacts, GateFrame DEF BulkStep, BulkTo
<1>4. CASE ~BulkEnd(Refused(op))
  <2>1. /\ BulkShape(pc', op) /\ pc' \in BulkLabels
    BY <1>1, <1>2, <1>4, BulkFacts
       DEF BulkShape, BulkLabels, BulkBegin, BulkWriting, BulkUndoing, BulkEnding
  <2> QED
    BY <1>1, <1>2, <1>4, <2>1, BulkFacts, GateFrame DEF BulkStep, BulkTo, BulkBase
<1> QED
  BY <1>3, <1>4

\* The gates before a rollback's bank selection and before its write keep the
\* shape and the budget.
LEMMA BulkUndoGates ==
    ASSUME TypeInv, BulkUndoBankGate \/ BulkUndoGate
    PROVE  BulkStep
<1> DEFINE r == [Refused(op) EXCEPT !.safe = FALSE]
<1>1. pc \in BulkUndoing /\ pc \in BulkLabels /\ Gate(TRUE, TRUE) /\ cap' = cap
  BY DEF BulkUndoBankGate, BulkUndoGate, Gate, BulkLabels, BulkUndoing
<1>2. \/ /\ hw.daq = 0 /\ op' = op
         /\ \/ pc = "bulk_undo_bank_gate" /\ pc' = "bulk_undo_select"
            \/ pc = "bulk_undo_gate" /\ pc' = "bulk_undo"
      \/ RollbackEnd(r)
  BY DEF BulkUndoBankGate, BulkUndoGate, Gate, On, Go
<1>3. CASE RollbackEnd(r)
  <2>1. BulkBase(r) /\ ~r.ok /\ r.rollback = op.rollback /\ r.began = op.began
        /\ r.return = op.return
    BY <1>1, BulkFacts, BulkFailedFacts
  <2>2. op.rollback /\ ~r.safe
    BY <1>1, BulkFacts DEF BulkShape, BulkBase, Ops, Refused
  <2> HIDE DEF r
  <2>3. BulkTo(pc', op', r) /\ Budget(pc') = 0
    BY <1>3, <2>1, <2>2, RollbackEndType
  <2> QED
    BY <1>1, <2>1, <2>3, BulkFacts, GateFrame DEF BulkStep, BulkTo
<1>4. CASE ~RollbackEnd(r)
  <2>1. /\ BulkShape(pc', op) /\ pc' \in BulkLabels
    BY <1>1, <1>2, <1>4, BulkFacts
       DEF BulkShape, BulkLabels, BulkBegin, BulkWriting, BulkUndoing, BulkEnding
  <2> QED
    BY <1>1, <1>2, <1>4, <2>1, BulkFacts, GateFrame DEF BulkStep, BulkTo, BulkBase
<1> QED
  BY <1>3, <1>4

\* The gates before the selector is parked and before the resets keep the
\* shape and the budget.
LEMMA BulkEndGates ==
    ASSUME TypeInv, BulkParkGate \/ BulkResetGate
    PROVE  BulkStep
<1>1. pc \in BulkLabels /\ Gate(TRUE, TRUE) /\ cap' = cap
  BY DEF BulkParkGate, BulkResetGate, Gate, BulkLabels, BulkEnding
<1>2. \/ /\ hw.daq = 0 /\ op' = op
         /\ \/ pc = "bulk_park_gate" /\ pc' = "bulk_park"
            \/ pc = "bulk_reset_gate" /\ pc' = "bulk_fifo"
      \/ BulkReturn(Refused(op))
  BY DEF BulkParkGate, BulkResetGate, Gate, On, Go
<1>3. CASE BulkReturn(Refused(op))
  <2>1. BulkTo(pc', op', Refused(op)) /\ Budget(pc') = 0
    BY <1>1, <1>3, BulkFacts, BulkFailedFacts, BulkReturnType
  <2> QED
    BY <1>1, <2>1, BulkFacts, BulkFailedFacts, GateFrame DEF BulkStep, BulkTo
<1>4. CASE ~BulkReturn(Refused(op))
  <2>1. /\ BulkShape(pc', op) /\ pc' \in BulkLabels
    BY <1>1, <1>2, <1>4, BulkFacts
       DEF BulkShape, BulkLabels, BulkBegin, BulkWriting, BulkUndoing, BulkEnding
  <2> QED
    BY <1>1, <1>2, <1>4, <2>1, BulkFacts, GateFrame DEF BulkStep, BulkTo, BulkBase
<1> QED
  BY <1>3, <1>4

\* An application that fails is undone or ends.
LEMMA BulkFails ==
    ASSUME TypeInv, pc \in BulkLabels, BulkEnd(Failed(op))
    PROVE  BulkTo(pc', op', op) /\ Budget(pc') = 0
<1>1. BulkTo(pc', op', Failed(op)) /\ Budget(pc') = 0
  BY BulkFacts, BulkFailedFacts, BulkEndType
<1> QED
  BY <1>1, BulkFacts, BulkFailedFacts DEF BulkTo

\* The preflight of an apply keeps the shape and the budget.
LEMMA BulkPreflightStep ==
    ASSUME TypeInv, BulkPreflight
    PROVE  BulkStep
<1>1. /\ pc = "bulk_preflight" /\ pc \in BulkLabels
      /\ cap' = cap /\ svc' = svc /\ hw' = hw /\ mvme' = mvme
      /\ faults' = faults /\ intrusions' = intrusions
  BY DEF BulkPreflight, BulkLabels, BulkBegin, hwVars, TransactionOnly
<1>2. Read(TRUE, TRUE, TRUE)
  BY <1>1 DEF Read
<1>3. Budget(pc) = 0
  BY <1>1 DEF Budget
<1>4. CASE BulkReturn(Failed(op))
  <2>1. BulkTo(pc', op', Failed(op)) /\ Budget(pc') = 0
    BY <1>1, <1>4, BulkFacts, BulkFailedFacts, BulkReturnType
  <2>2. BulkTo(pc', op', op)
    BY <1>1, <2>1, BulkFacts, BulkFailedFacts DEF BulkTo
  <2> QED
    BY <1>1, <1>2, <1>3, <2>1, <2>2, BulkFacts, ReadFrame DEF BulkStep
<1>5. CASE On("bulk_stop_gate")
  <2>1. pc' = "bulk_stop_gate" /\ op' = op /\ BulkShape(pc', op)
    BY <1>1, <1>5, BulkFacts
       DEF On, Go, BulkShape, BulkBegin, BulkWriting, BulkUndoing, BulkEnding
  <2>2. Budget(pc') = 0 /\ pc' \in BulkLabels
    BY <2>1 DEF Budget, BulkLabels, BulkBegin
  <2> QED
    BY <1>1, <1>2, <1>3, <2>1, <2>2, BulkFacts, ReadFrame
       DEF BulkStep, BulkTo, BulkBase
<1> QED
  BY <1>4, <1>5 DEF BulkPreflight

\* The stop write of an apply keeps the shape and the budget.
LEMMA BulkStopStep ==
    ASSUME TypeInv, BulkStop
    PROVE  BulkStep
<1>1. /\ pc = "bulk_stop" /\ pc \in BulkLabels
      /\ Sends /\ hw' \in {hw, StopAcquisition} /\ cap' = cap /\ svc' = svc
  BY DEF BulkStop, BulkLabels, BulkBegin, Store, Write, Sent,
         Failing, Sends, TransactionOnly
<1>2. Budget(pc) = 1
  BY <1>1 DEF Budget
<1>3. /\ hw' \in Hardware /\ hw'.daq = hw.daq
  BY <1>1, BulkFacts, StopFacts
<1>4. CASE BulkEnd(Failed(op))
  <2>1. BulkTo(pc', op', op) /\ Budget(pc') = 0
    BY <1>1, <1>4, BulkFails
  <2> QED
    BY <1>1, <1>2, <1>3, <2>1, BulkFacts, StoreFrame DEF BulkStep
<1>5. CASE On("bulk_stop_verify")
  <2>1. pc' = "bulk_stop_verify" /\ op' = op /\ BulkShape(pc', op)
    BY <1>1, <1>5, BulkFacts
       DEF On, Go, BulkShape, BulkBegin, BulkWriting, BulkUndoing, BulkEnding
  <2>2. Budget(pc') = 0 /\ pc' \in BulkLabels
    BY <2>1 DEF Budget, BulkLabels, BulkBegin
  <2> QED
    BY <1>1, <1>2, <1>3, <2>1, <2>2, BulkFacts, StoreFrame
       DEF BulkStep, BulkTo, BulkBase
<1> QED
  BY <1>4, <1>5 DEF BulkStop, Store, Write

\* Reading the stop back keeps the shape and the budget.
LEMMA BulkStopVerifyStep ==
    ASSUME TypeInv, BulkStopVerify
    PROVE  BulkStep
<1> DEFINE o == [op EXCEPT !.stopVerified = TRUE, !.leftStopped = TRUE]
<1>1. /\ pc = "bulk_stop_verify" /\ pc \in BulkLabels /\ pc \in BulkBegin
      /\ Read(TRUE, TRUE, TRUE) /\ cap' = cap /\ svc' = svc
  BY DEF BulkStopVerify, BulkLabels, BulkBegin, Read, TransactionOnly
<1>2. Budget(pc) = 0
  BY <1>1 DEF Budget
<1>3. CASE BulkEnd(Failed(op))
  <2>1. BulkTo(pc', op', op) /\ Budget(pc') = 0
    BY <1>1, <1>3, BulkFails
  <2> QED
    BY <1>1, <1>2, <2>1, BulkFacts, ReadFrame DEF BulkStep
<1>4. CASE Forward(o)
  <2>1. Fresh(op) /\ op.next = 1 /\ op.attempted = 0 /\ op \in Ops
    BY <1>1, BulkFacts DEF BulkShape, BulkBase
  <2>2. /\ o \in Ops /\ Fresh(o) /\ o.next = 1 /\ o.attempted = 0
        /\ o.stopVerified /\ o.steps = op.steps /\ o.live = op.live
        /\ o.kind = op.kind /\ o.return = op.return /\ o.began = op.began
    BY <2>1 DEF Ops, Fresh
  <2> HIDE DEF o
  <2>3. BulkBase(o)
    BY <1>1, <2>2, BulkFacts DEF BulkBase, Planned
  <2>4. o.next \in 1 .. Len(o.steps) + 1 /\ o.attempted = o.next - 1
    BY <2>2, <2>3, BulkStepFacts
  <2>5. BulkTo(pc', op', o) /\ Budget(pc') = 0
    BY <1>4, <2>2, <2>3, <2>4, ForwardType
  <2> QED
    BY <1>1, <1>2, <2>2, <2>5, BulkFacts, ReadFrame DEF BulkStep, BulkTo
<1> QED
  BY <1>3, <1>4 DEF BulkStopVerify, Read

\* Selecting a step's bank keeps the shape and spends one write of the gate's
\* budget.
LEMMA BulkSelectStep ==
    ASSUME TypeInv, BulkSelect
    PROVE  BulkStep
<1> DEFINE o == [op EXCEPT !.selected = Step.quad]
<1>1. /\ pc = "bulk_select" /\ pc \in BulkLabels /\ pc \in BulkWriting
      /\ Sends /\ hw' \in {hw, Select(Step.quad)} /\ cap' = cap /\ svc' = svc
  BY DEF BulkSelect, BulkLabels, BulkWriting, Store, Write, Sent,
         Failing, Sends, TransactionOnly
<1>2. Budget(pc) = 1
  BY <1>1 DEF Budget
<1>3. op.next \in 1 .. Len(op.steps)
  BY <1>1, BulkFacts DEF BulkShape
<1>4. Step.quad \in Quads
  BY <1>1, <1>3, BulkFacts, BulkStepFacts DEF Step
<1>5. /\ hw' \in Hardware /\ hw'.daq = hw.daq
  BY <1>1, <1>4, BulkFacts, SelectFacts
<1>6. CASE BulkEnd(Failed(op))
  <2>1. BulkTo(pc', op', op) /\ Budget(pc') = 0
    BY <1>1, <1>6, BulkFails
  <2> QED
    BY <1>1, <1>2, <1>5, <2>1, BulkFacts, StoreFrame DEF BulkStep
<1>7. CASE Go("bulk_write_gate", o)
  <2>1. pc' = "bulk_write_gate" /\ op' = o
    BY <1>7 DEF Go
  <2>2. /\ o \in Ops /\ (Fresh(op) => Fresh(o)) /\ o.next = op.next
        /\ o.attempted = op.attempted /\ o.selected = o.steps[o.next].quad
        /\ o.stopVerified = op.stopVerified /\ o.steps = op.steps
        /\ o.live = op.live /\ o.rollback = op.rollback /\ o.owned = op.owned
        /\ o.kind = op.kind /\ o.return = op.return /\ o.began = op.began
    BY <1>1, <1>4, QuadFacts, BulkFacts DEF BulkBase, Ops, Fresh, Step
  <2> HIDE DEF o
  <2>3. BulkShape("bulk_write_gate", o)
    BY <1>1, <2>2, BulkFacts
       DEF BulkShape, BulkBegin, BulkWriting, BulkUndoing, BulkEnding, Planned
  <2>4. Budget(pc') = 0 /\ pc' \in BulkLabels
    BY <2>1 DEF Budget, BulkLabels, BulkWriting
  <2> QED
    BY <1>1, <1>2, <1>5, <2>1, <2>2, <2>3, <2>4, BulkFacts, StoreFrame
       DEF BulkStep, BulkTo
<1> QED
  BY <1>6, <1>7 DEF BulkSelect, Write

\* Writing a step's value keeps the shape and spends one write of the gate's
\* budget.
LEMMA BulkWriteStep ==
    ASSUME TypeInv, BulkWrite
    PROVE  BulkStep
<1> DEFINE o == [op EXCEPT !.attempted = @ + 1]
           new == SetBanked(Step.setting, Step.profile)
<1>1. /\ pc = "bulk_write" /\ pc \in BulkLabels /\ pc \in BulkWriting
      /\ Sends /\ hw' \in {hw, new} /\ cap' = cap /\ svc' = svc
  BY DEF BulkWrite, BulkLabels, BulkWriting, Store, Write, Sent,
         Failing, Sends, TransactionOnly
<1>2. Budget(pc) = 1
  BY <1>1 DEF Budget
<1>3. op.next \in 1 .. Len(op.steps) /\ op.attempted = op.next - 1
      /\ ~op.rollback /\ ~op.verified /\ op.restored = 0
  BY <1>1, BulkFacts DEF BulkShape, Fresh
<1>4. Step.setting \in Settings /\ Step.profile \in Values
  BY <1>1, <1>3, BulkFacts, BulkStepFacts DEF Step
<1>5. hw' \in Hardware /\ hw'.daq = hw.daq
  BY <1>1, <1>4, BulkFacts, SetBankedFacts
<1>6. /\ o \in Ops /\ (Fresh(op) => Fresh(o)) /\ o.next = op.next
      /\ o.attempted = o.next /\ o.selected = op.selected
      /\ o.stopVerified = op.stopVerified /\ o.steps = op.steps
      /\ o.live = op.live /\ o.rollback = op.rollback /\ o.owned = op.owned
      /\ o.verified = op.verified /\ o.restored = op.restored
      /\ o.kind = op.kind /\ o.return = op.return /\ o.began = op.began
  BY <1>1, <1>3, BulkFacts, BulkStepFacts DEF BulkBase, Ops, Fresh
<1> HIDE DEF o, new
<1>7. BulkBase(o) /\ o.attempted <= Len(o.steps)
  BY <1>1, <1>3, <1>6, BulkFacts, BulkStepFacts DEF BulkBase, Planned
<1>8. CASE BulkEnd(Failed(o))
  <2>1. BulkTo(pc', op', Failed(o)) /\ Budget(pc') = 0
    BY <1>3, <1>6, <1>7, <1>8, BulkFailedFacts, BulkEndType
  <2>2. BulkTo(pc', op', op)
    BY <1>6, <1>7, <2>1, BulkFailedFacts DEF BulkTo
  <2> QED
    BY <1>1, <1>2, <1>5, <2>1, <2>2, BulkFacts, StoreFrame DEF BulkStep
<1>9. CASE Go("bulk_readback", o)
  <2>1. pc' = "bulk_readback" /\ op' = o
    BY <1>9 DEF Go
  <2>3. BulkShape("bulk_readback", o)
    BY <1>1, <1>6, <1>7, BulkFacts
       DEF BulkShape, BulkBegin, BulkWriting, BulkUndoing, BulkEnding, Planned
  <2>4. Budget(pc') = 0 /\ pc' \in BulkLabels
    BY <2>1 DEF Budget, BulkLabels, BulkWriting
  <2> QED
    BY <1>1, <1>2, <1>5, <1>6, <2>1, <2>3, <2>4, BulkFacts, StoreFrame
       DEF BulkStep, BulkTo
<1> QED
  BY <1>8, <1>9 DEF BulkWrite, Store, Write, o, new

\* Reading a written step back keeps the shape and the budget.
LEMMA BulkReadbackStep ==
    ASSUME TypeInv, BulkReadback
    PROVE  BulkStep
<1> DEFINE o == [op EXCEPT !.next = @ + 1]
<1>1. /\ pc = "bulk_readback" /\ pc \in BulkLabels /\ pc \in BulkWriting
      /\ Read(TRUE, TRUE, TRUE) /\ cap' = cap /\ svc' = svc
  BY DEF BulkReadback, BulkLabels, BulkWriting, Read, TransactionOnly
<1>2. Budget(pc) = 0
  BY <1>1 DEF Budget
<1>3. CASE BulkEnd(Failed(op))
  <2>1. BulkTo(pc', op', op) /\ Budget(pc') = 0
    BY <1>1, <1>3, BulkFails
  <2> QED
    BY <1>1, <1>2, <2>1, BulkFacts, ReadFrame DEF BulkStep
<1>4. CASE Forward(o)
  <2>1. /\ Fresh(op) /\ op.next \in 1 .. Len(op.steps) /\ op.attempted = op.next
        /\ op.stopVerified /\ op \in Ops
    BY <1>1, BulkFacts DEF BulkShape, BulkBase, BulkBegin, Fresh
  <2>2. /\ o \in Ops /\ Fresh(o) /\ o.next = op.next + 1
        /\ o.attempted = op.attempted
        /\ o.stopVerified /\ o.steps = op.steps /\ o.live = op.live
        /\ o.kind = op.kind /\ o.return = op.return /\ o.began = op.began
    BY <2>1 DEF Ops, Fresh
  <2> HIDE DEF o
  <2>3. BulkBase(o)
    BY <1>1, <2>2, BulkFacts DEF BulkBase, Planned
  <2>4. o.next \in 1 .. Len(o.steps) + 1 /\ o.attempted = o.next - 1
    BY <2>1, <2>2, <2>3, BulkStepFacts
  <2>5. BulkTo(pc', op', o) /\ Budget(pc') = 0
    BY <1>4, <2>2, <2>3, <2>4, ForwardType
  <2> QED
    BY <1>1, <1>2, <2>2, <2>5, BulkFacts, ReadFrame DEF BulkStep, BulkTo
<1> QED
  BY <1>3, <1>4 DEF BulkReadback, Read

\* Selecting the bank of a step to undo keeps the shape and the budget.
LEMMA BulkUndoSelectStep ==
    ASSUME TypeInv, BulkUndoSelect
    PROVE  BulkStep
<1> DEFINE o == [op EXCEPT !.selected = Step.quad]
           f == [op EXCEPT !.safe = FALSE]
<1>1. /\ pc = "bulk_undo_select" /\ pc \in BulkLabels /\ pc \in BulkUndoing
      /\ Sends /\ hw' \in {hw, Select(Step.quad)} /\ cap' = cap /\ svc' = svc
  BY DEF BulkUndoSelect, BulkLabels, BulkUndoing, Write, Sent, Failing, Sends,
         TransactionOnly
<1>2. Budget(pc) = 1
  BY <1>1 DEF Budget
<1>3. /\ op.next \in 1 .. op.attempted /\ op.attempted <= Len(op.steps)
      /\ op.rollback /\ ~op.ok
  BY <1>1, BulkFacts DEF BulkShape
<1>4. Step.quad \in Quads /\ op.next \in 1 .. Len(op.steps)
  <2>1. op.next \in 1 .. Len(op.steps)
    BY <1>1, <1>3, BulkFacts, BulkStepFacts DEF BulkBase, Ops
  <2> QED
    BY <1>1, <2>1, BulkFacts, BulkStepFacts DEF Step
<1>5. hw' \in Hardware /\ hw'.daq = hw.daq
  BY <1>1, <1>4, BulkFacts, SelectFacts
<1>6. CASE RollbackEnd(f)
  <2>1. /\ f \in Ops /\ ~f.safe /\ f.rollback /\ ~f.ok
        /\ f.attempted = op.attempted /\ f.steps = op.steps /\ f.live = op.live
        /\ f.kind = op.kind /\ f.return = op.return /\ f.began = op.began
    BY <1>1, <1>3, BulkFacts DEF BulkBase, Ops
  <2> HIDE DEF f
  <2>2. BulkBase(f)
    BY <1>1, <2>1, BulkFacts DEF BulkBase, Planned
  <2>3. BulkTo(pc', op', f) /\ Budget(pc') = 0
    BY <1>6, <2>1, <2>2, RollbackEndType
  <2>4. BulkTo(pc', op', op)
    BY <2>1, <2>3 DEF BulkTo
  <2> QED
    BY <1>1, <1>2, <1>5, <2>3, <2>4, BulkFacts, StoreFrame DEF BulkStep
<1>7. CASE Go("bulk_undo_gate", o)
  <2>1. pc' = "bulk_undo_gate" /\ op' = o
    BY <1>7 DEF Go
  <2>2. /\ o \in Ops /\ o.next = op.next /\ o.ok = op.ok
        /\ o.attempted = op.attempted /\ o.selected = o.steps[o.next].quad
        /\ o.verified = op.verified /\ o.safe = op.safe
        /\ o.restored = op.restored /\ o.steps = op.steps
        /\ o.live = op.live /\ o.rollback = op.rollback /\ o.owned = op.owned
        /\ o.kind = op.kind /\ o.return = op.return /\ o.began = op.began
    BY <1>1, <1>4, QuadFacts, BulkFacts DEF BulkBase, Ops, Step
  <2> HIDE DEF o
  <2>3. BulkShape("bulk_undo_gate", o)
    BY <1>1, <2>2, BulkFacts
       DEF BulkShape, BulkBegin, BulkWriting, BulkUndoing, BulkEnding, Planned
  <2>4. Budget(pc') = 0 /\ pc' \in BulkLabels
    BY <2>1 DEF Budget, BulkLabels, BulkUndoing
  <2> QED
    BY <1>1, <1>2, <1>5, <2>1, <2>2, <2>3, <2>4, BulkFacts, StoreFrame
       DEF BulkStep, BulkTo
<1> QED
  BY <1>6, <1>7 DEF BulkUndoSelect, Write

\* A step of a rollback, whether the value is restored or not.
LEMMA BulkUnrestored ==
    ASSUME TypeInv, pc \in {"bulk_undo", "bulk_undo_readback"},
           \/ Unrestored
           \/ Rollback([op EXCEPT !.restored = @ + 1, !.next = @ - 1])
    PROVE  BulkTo(pc', op', op) /\ Budget(pc') = 0
<1>1. pc \in BulkLabels /\ pc \in BulkUndoing
  BY DEF BulkLabels, BulkUndoing
<1>2. /\ op.next \in 1 .. op.attempted /\ op.rollback /\ ~op.ok /\ op.owned
      /\ ~op.verified /\ (op.safe => op.restored = op.attempted - op.next)
      /\ op \in Ops
  BY <1>1, BulkFacts DEF BulkShape, BulkBase
<1>3. PICK o : /\ Rollback(o)
               /\ o \in {[op EXCEPT !.safe = FALSE, !.next = @ - 1],
                         [op EXCEPT !.restored = @ + 1, !.next = @ - 1]}
  BY DEF Unrestored
<1>4. /\ o \in Ops /\ o.next = op.next - 1 /\ o.ok = op.ok
      /\ o.attempted = op.attempted /\ o.verified = op.verified
      /\ (o.safe => op.safe /\ o.restored = op.restored + 1)
      /\ o.steps = op.steps
      /\ o.live = op.live /\ o.rollback = op.rollback /\ o.owned = op.owned
      /\ o.kind = op.kind /\ o.return = op.return /\ o.began = op.began
  <2>1. op.next - 1 \in Nat /\ op.restored + 1 \in Nat
    BY <1>2 DEF Ops
  <2>2. CASE o = [op EXCEPT !.safe = FALSE, !.next = @ - 1]
    BY <1>2, <2>1, <2>2 DEF Ops
  <2>3. CASE o = [op EXCEPT !.restored = @ + 1, !.next = @ - 1]
    BY <1>2, <2>1, <2>3 DEF Ops
  <2> QED
    BY <1>3, <2>2, <2>3
<1>5. BulkBase(o)
  BY <1>1, <1>4, BulkFacts DEF BulkBase, Planned
<1>6. /\ o.next \in 0 .. o.attempted
      /\ o.safe => o.restored = o.attempted - o.next
  BY <1>2, <1>4 DEF Ops
<1>7. BulkTo(pc', op', o) /\ Budget(pc') = 0
  BY <1>2, <1>3, <1>4, <1>5, <1>6, RollbackType
<1> QED
  BY <1>4, <1>7 DEF BulkTo

\* Writing back the value before a step keeps the shape and the budget.
LEMMA BulkUndoStep ==
    ASSUME TypeInv, BulkUndo
    PROVE  BulkStep
<1> DEFINE new == SetBanked(Step.setting, Step.expected)
<1>1. /\ pc = "bulk_undo" /\ pc \in BulkLabels /\ pc \in BulkUndoing
      /\ Sends /\ hw' \in {hw, new} /\ cap' = cap /\ svc' = svc
  BY DEF BulkUndo, BulkLabels, BulkUndoing, Store, Write, Sent, Failing, Sends,
         TransactionOnly
<1>2. Budget(pc) = 1
  BY <1>1 DEF Budget
<1>3. op.next \in 1 .. op.attempted /\ op.attempted <= Len(op.steps)
  BY <1>1, BulkFacts DEF BulkShape
<1>4. op.next \in 1 .. Len(op.steps)
  BY <1>1, <1>3, BulkFacts, BulkStepFacts DEF BulkBase, Ops
<1>5. Step.setting \in Settings /\ Step.expected \in Values
  BY <1>1, <1>4, BulkFacts, BulkStepFacts DEF Step
<1>6. hw' \in Hardware /\ hw'.daq = hw.daq
  BY <1>1, <1>5, BulkFacts, SetBankedFacts
<1>7. CASE Unrestored
  <2>1. BulkTo(pc', op', op) /\ Budget(pc') = 0
    BY <1>1, <1>7, BulkUnrestored
  <2> QED
    BY <1>1, <1>2, <1>6, <2>1, BulkFacts, StoreFrame DEF BulkStep
<1>8. CASE On("bulk_undo_readback")
  <2>1. pc' = "bulk_undo_readback" /\ op' = op /\ BulkShape(pc', op)
    BY <1>1, <1>8, BulkFacts
       DEF On, Go, BulkShape, BulkBegin, BulkWriting, BulkUndoing, BulkEnding
  <2>2. Budget(pc') = 0 /\ pc' \in BulkLabels
    BY <2>1 DEF Budget, BulkLabels, BulkUndoing
  <2> QED
    BY <1>1, <1>2, <1>6, <2>1, <2>2, BulkFacts, StoreFrame
       DEF BulkStep, BulkTo, BulkBase
<1> QED
  BY <1>7, <1>8 DEF BulkUndo, Store, Write

\* Reading an undone step back keeps the shape and the budget.
LEMMA BulkUndoReadbackStep ==
    ASSUME TypeInv, BulkUndoReadback
    PROVE  BulkStep
<1>1. /\ pc = "bulk_undo_readback" /\ pc \in BulkLabels
      /\ Read(TRUE, TRUE, TRUE) /\ cap' = cap /\ svc' = svc
  BY DEF BulkUndoReadback, BulkLabels, BulkUndoing, Read, TransactionOnly
<1>2. Budget(pc) = 0
  BY <1>1 DEF Budget
<1>3. BulkTo(pc', op', op) /\ Budget(pc') = 0
  BY <1>1, BulkUnrestored DEF BulkUndoReadback, Read
<1> QED
  BY <1>1, <1>2, <1>3, BulkFacts, ReadFrame DEF BulkStep

\* Parking the selector after an apply keeps the shape and the budget.
LEMMA BulkParkStep ==
    ASSUME TypeInv, BulkPark
    PROVE  BulkStep
<1>1. /\ pc = "bulk_park" /\ pc \in BulkLabels /\ pc \in BulkEnding
      /\ Sends /\ hw' \in {hw, Select(0)} /\ cap' = cap /\ svc' = svc
  BY DEF BulkPark, BulkLabels, BulkEnding, Write, Sent, Failing, Sends,
         TransactionOnly
<1>2. Budget(pc) = 1
  BY <1>1 DEF Budget
<1>3. hw' \in Hardware /\ hw'.daq = hw.daq
  BY <1>1, BulkFacts, SelectFacts, QuadFacts
<1>4. ASSUME NEW o, o \in {op, [op EXCEPT !.parked = TRUE]}, ParkedAt(o)
      PROVE  BulkTo(pc', op', op) /\ Budget(pc') = 0
  <2>1. /\ o \in Ops /\ o.next = op.next /\ o.ok = op.ok
        /\ o.attempted = op.attempted /\ o.selected = op.selected
        /\ o.verified = op.verified /\ o.safe = op.safe
        /\ o.restored = op.restored /\ o.steps = op.steps
        /\ o.stopVerified = op.stopVerified
        /\ o.live = op.live /\ o.rollback = op.rollback /\ o.owned = op.owned
        /\ o.kind = op.kind /\ o.return = op.return /\ o.began = op.began
    BY <1>1, <1>4, BulkFacts DEF BulkBase, Ops
  <2>2. BulkBase(o)
    BY <1>1, <2>1, BulkFacts DEF BulkBase, Planned
  <2>3. CASE BulkReturn(o)
    <3>1. BulkTo(pc', op', o) /\ Budget(pc') = 0
      BY <2>2, <2>3, BulkReturnType
    <3> QED
      BY <2>1, <3>1 DEF BulkTo
  <2>4. CASE Go("bulk_reset_gate", o)
    <3>1. pc' = "bulk_reset_gate" /\ op' = o
      BY <2>4 DEF Go
    <3>2. BulkShape("bulk_reset_gate", o)
      BY <1>1, <2>1, BulkFacts
         DEF BulkShape, BulkBegin, BulkWriting, BulkUndoing, BulkEnding,
             Planned, Fresh
    <3> QED
      BY <2>1, <3>1, <3>2 DEF BulkTo, Budget, BulkLabels, BulkEnding
  <2> QED
    BY <1>4, <2>3, <2>4 DEF ParkedAt
<1>5. CASE BulkEnd(Failed(op))
  <2>1. BulkTo(pc', op', op) /\ Budget(pc') = 0
    BY <1>1, <1>5, BulkFails
  <2> QED
    BY <1>1, <1>2, <1>3, <2>1, BulkFacts, StoreFrame DEF BulkStep
<1>6. CASE ParkedAt(op) \/ ParkedAt([op EXCEPT !.parked = TRUE])
  <2>1. BulkTo(pc', op', op) /\ Budget(pc') = 0
    BY <1>4, <1>6
  <2> QED
    BY <1>1, <1>2, <1>3, <2>1, BulkFacts, StoreFrame DEF BulkStep
<1> QED
  BY <1>5, <1>6 DEF BulkPark, Write

\* The FIFO reset after an apply keeps the shape and leaves one write, the
\* readout reset.
LEMMA BulkResetFifoStep ==
    ASSUME TypeInv, BulkResetFifo
    PROVE  BulkStep
<1>1. /\ pc = "bulk_fifo" /\ pc \in BulkLabels
      /\ Sends /\ hw' \in {hw, ResetFifo} /\ cap' = cap /\ svc' = svc
  BY DEF BulkResetFifo, BulkLabels, BulkEnding, Write, Sent, Failing, Sends,
         TransactionOnly
<1>2. Budget(pc) = 2
  BY <1>1 DEF Budget
<1>3. hw' \in Hardware /\ hw'.daq = hw.daq
  BY <1>1, BulkFacts, ResetFacts
<1>4. CASE BulkEnd(Failed(op))
  <2>1. BulkTo(pc', op', op) /\ Budget(pc') = 0
    BY <1>1, <1>4, BulkFails
  <2> QED
    BY <1>1, <1>2, <1>3, <2>1, BulkFacts, StoreFrame DEF BulkStep
<1>5. CASE On("bulk_readout")
  <2>1. pc' = "bulk_readout" /\ op' = op /\ BulkShape(pc', op)
    BY <1>1, <1>5, BulkFacts
       DEF On, Go, BulkShape, BulkBegin, BulkWriting, BulkUndoing, BulkEnding
  <2>2. Budget(pc') = 1 /\ pc' \in BulkLabels
    BY <2>1 DEF Budget, BulkLabels, BulkEnding
  <2> QED
    BY <1>1, <1>2, <1>3, <2>1, <2>2, BulkFacts, StoreFrame
       DEF BulkStep, BulkTo, BulkBase
<1> QED
  BY <1>4, <1>5 DEF BulkResetFifo, Write

\* The readout reset after an apply keeps the shape and ends the budget.
LEMMA BulkResetReadoutStep ==
    ASSUME TypeInv, BulkResetReadout
    PROVE  BulkStep
<1> DEFINE o == [op EXCEPT !.reset = TRUE]
<1>1. /\ pc = "bulk_readout" /\ pc \in BulkLabels
      /\ Sends /\ hw' \in {hw, ResetReadout} /\ cap' = cap /\ svc' = svc
  BY DEF BulkResetReadout, BulkLabels, BulkEnding, Write, Sent, Failing, Sends,
         TransactionOnly
<1>2. Budget(pc) = 1
  BY <1>1 DEF Budget
<1>3. hw' \in Hardware /\ hw'.daq = hw.daq
  BY <1>1, BulkFacts, ResetFacts
<1>4. CASE BulkEnd(Failed(op))
  <2>1. BulkTo(pc', op', op) /\ Budget(pc') = 0
    BY <1>1, <1>4, BulkFails
  <2> QED
    BY <1>1, <1>2, <1>3, <2>1, BulkFacts, StoreFrame DEF BulkStep
<1>5. CASE BulkEnd(o)
  <2>1. /\ o \in Ops /\ o.rollback = op.rollback /\ o.verified = op.verified
        /\ o.restored = op.restored
        /\ o.attempted = op.attempted /\ o.steps = op.steps /\ o.live = op.live
        /\ o.kind = op.kind /\ o.return = op.return /\ o.began = op.began
    BY <1>1, BulkFacts DEF BulkBase, Ops
  <2> HIDE DEF o
  <2>2. BulkBase(o)
    BY <1>1, <2>1, BulkFacts DEF BulkBase, Planned
  <2>3. BulkTo(pc', op', o) /\ Budget(pc') = 0
    BY <1>1, <1>5, <2>1, <2>2, BulkFacts, BulkEndType
  <2>4. BulkTo(pc', op', op)
    BY <2>1, <2>3 DEF BulkTo
  <2> QED
    BY <1>1, <1>2, <1>3, <2>3, <2>4, BulkFacts, StoreFrame DEF BulkStep
<1> QED
  BY <1>4, <1>5 DEF BulkResetReadout, Write

\* Every step of an apply is taken at one of its labels and keeps the shape
\* and the budget.
LEMMA BulkNextStep ==
    ASSUME TypeInv, BulkNext
    PROVE  BulkStep /\ pc \in BulkLabels
<1>1. BulkStep
  BY BulkGates, BulkUndoGates, BulkEndGates, BulkPreflightStep, BulkStopStep,
     BulkStopVerifyStep, BulkSelectStep, BulkWriteStep, BulkReadbackStep,
     BulkUndoSelectStep, BulkUndoStep, BulkUndoReadbackStep, BulkParkStep,
     BulkResetFifoStep, BulkResetReadoutStep DEF BulkNext
<1>2. pc \in BulkLabels
  BY DEF BulkNext, BulkPreflight, BulkStopGate, BulkStop, BulkStopVerify,
         BulkBankGate, BulkSelect, BulkWriteGate, BulkWrite, BulkReadback,
         BulkUndoBankGate, BulkUndoSelect, BulkUndoGate, BulkUndo,
         BulkUndoReadback, BulkParkGate, BulkPark, BulkResetGate,
         BulkResetFifo, BulkResetReadout, BulkLabels, BulkBegin, BulkWriting,
         BulkUndoing, BulkEnding
<1> QED
  BY <1>1, <1>2

----------------------------------------------------------------------------
(***************************************************************************)
(*                    6. A repair keeps its shape                          *)
(***************************************************************************)
FixBase(o) ==
    /\ o \in Ops /\ o.kind = "repair" /\ o.return = "applied"
    /\ o.steps \in Seq(BankStep) /\ Len(o.steps) = 1 /\ o.next = 1
    /\ o.safe /\ o.attempted \in {0, 1}
    /\ o.steps[1].expected = o.live.bank[o.steps[1].quad][o.steps[1].setting]
    /\ o.retained => o.attempted = 1
    /\ (o.verified => ~o.ok)
FixTo(l, new, o) ==
    /\ l \in FixLabels \cup {"applied"}
    /\ new \in Ops /\ new.began = o.began
    /\ l \in FixLabels => FixShape(l, new)
    /\ l = "applied" => new.kind = "repair" /\ new.state # "none"
FixStep == StepFrame /\ FixTo(pc', op', op) /\ cap' = cap

\* What the type invariant says at every label of a single repair, whose one
\* step is the first of its list.
LEMMA FixFacts ==
    ASSUME TypeInv, pc \in FixLabels
    PROVE  /\ FixShape(pc, op) /\ FixBase(op) /\ hw \in Hardware /\ TypeOK
           /\ op.owned /\ Step = op.steps[1] /\ Step \in BankStep
           /\ Step.quad \in Quads /\ Step.setting \in Settings
           /\ Step.expected \in Values /\ Step.profile \in Values
<1>1. TypeOK /\ FixShape(pc, op) /\ op \in Ops /\ hw \in Hardware
  BY DEF TypeInv, Located, TypeOK
<1>2. FixBase(op) /\ op.owned
  BY <1>1 DEF FixShape, FixBase
<1>3. Step = op.steps[1] /\ Step \in BankStep
  BY <1>2, ElementOfSeq DEF FixBase, Step
<1> QED
  BY <1>1, <1>2, <1>3 DEF BankStep

\* Marking a repair failed or refused keeps its step and the run it began
\* under.
LEMMA FixFailedFacts ==
    ASSUME NEW o, FixBase(o)
    PROVE  \A f \in {Failed(o), Refused(o)} :
              FixBase(f) /\ ~f.ok /\ f.began = o.began
<1>1. SUFFICES ASSUME NEW f, f = Failed(o) \/ f = Refused(o)
               PROVE  FixBase(f) /\ ~f.ok /\ f.began = o.began
  OBVIOUS
<1>2. CASE f = Failed(o)
  BY <1>2 DEF FixBase, Ops, Failed
<1>3. CASE f = Refused(o)
  BY <1>3 DEF FixBase, Ops, Refused
<1> QED
  BY <1>1, <1>2, <1>3

\* Where a repair goes on: back, or to what is left to do.
LEMMA RepairReturnType ==
    ASSUME NEW o, FixBase(o), RepairReturn(o)
    PROVE  FixTo(pc', op', o) /\ Budget(pc') = 0
<1>1. /\ pc' = "applied" /\ op' \in Ops /\ op'.began = o.began
      /\ op'.kind = "repair" /\ op'.state # "none"
  BY DEF RepairReturn, Go, FixBase, Ops
<1>2. pc' \notin FixLabels /\ Budget(pc') = 0
  BY <1>1 DEF FixLabels, FixBegin, FixWriting, FixUndoing, FixEnding, FixReset,
              Budget
<1> QED
  BY <1>1, <1>2 DEF FixTo

\* Where a repair goes next, to its verification, its resets or its park, the
\* record has the shape of that label.
LEMMA RepairGoesOn ==
    ASSUME NEW o, FixBase(o), o.ok => o.retained,
           RepairVerifyAt(o) \/ RepairResetAt(o) \/ RepairParkAt(o)
    PROVE  FixTo(pc', op', o) /\ Budget(pc') = 0
<1>1. CASE RepairReturn(o)
  BY <1>1, RepairReturnType
<1>2. CASE ~RepairReturn(o)
  <2>1. /\ op' = o /\ o.owned
        /\ pc' \in {"fix_verify_gate", "fix_fifo_gate", "fix_park_gate"}
        /\ pc' = "fix_fifo_gate" => o.attempted > 0
    BY <1>2 DEF RepairVerifyAt, RepairResetAt, RepairParkAt, Go
  <2>2. FixShape(pc', o)
    BY <2>1 DEF FixBase, FixShape, FixBegin, FixWriting, FixUndoing, FixEnding,
                FixReset
  <2> QED
    BY <2>1, <2>2 DEF FixTo, FixBase, FixLabels, FixEnding, FixReset, Budget
<1> QED
  BY <1>1, <1>2

\* The gates of a repair.
LEMMA RepairGates ==
    ASSUME TypeInv,
           \/ RepairGate \/ RepairStopGate \/ RepairFifoGate
           \/ RepairReadoutGate \/ RepairVerifyGate
    PROVE  FixStep
<1>1. pc \in FixLabels /\ Gate(TRUE, TRUE) /\ cap' = cap
  BY DEF RepairGate, RepairStopGate, RepairFifoGate, RepairReadoutGate,
         RepairVerifyGate, Gate, FixLabels, FixBegin, FixEnding, FixReset
<1>2. \/ /\ hw.daq = 0 /\ op' = op
         /\ \/ pc = "fix_gate" /\ pc' = "fix_identity"
            \/ pc = "fix_stop_gate" /\ pc' = "fix_stop"
            \/ pc = "fix_fifo_gate" /\ pc' = "fix_fifo"
            \/ pc = "fix_readout_gate" /\ pc' = "fix_readout"
            \/ pc = "fix_verify_gate" /\ pc' = "fix_verify"
      \/ RepairReturn(Refused(op))
  BY DEF RepairGate, RepairStopGate, RepairFifoGate, RepairReadoutGate,
         RepairVerifyGate, Gate, On, Go
<1>3. CASE RepairReturn(Refused(op))
  <2>1. FixTo(pc', op', Refused(op)) /\ Budget(pc') = 0
    BY <1>1, <1>3, FixFacts, FixFailedFacts, RepairReturnType
  <2>2. FixTo(pc', op', op)
    BY <1>1, <2>1, FixFacts, FixFailedFacts DEF FixTo
  <2> QED
    BY <1>1, <2>1, <2>2, FixFacts, GateFrame DEF FixStep
<1>4. CASE ~RepairReturn(Refused(op))
  <2>1. FixShape(pc', op) /\ pc' \in FixLabels
    BY <1>1, <1>2, <1>4, FixFacts
       DEF FixShape, FixLabels, FixBegin, FixWriting, FixUndoing, FixEnding,
           FixReset
  <2> QED
    BY <1>1, <1>2, <1>4, <2>1, FixFacts, GateFrame
       DEF FixStep, FixTo, FixBase, FixLabels, FixBegin, FixWriting, FixUndoing,
           FixEnding, FixReset
<1> QED
  BY <1>3, <1>4

\* The gates before a repair's writes keep the shape and the budget.
LEMMA RepairWriteGates ==
    ASSUME TypeInv,
           RepairBankGate \/ RepairWriteGate \/ RepairUndoGate \/ RepairParkGate
    PROVE  FixStep
<1>1. pc \in FixLabels /\ Gate(TRUE, TRUE) /\ cap' = cap
  BY DEF RepairBankGate, RepairWriteGate, RepairUndoGate, RepairParkGate, Gate,
         FixLabels, FixBegin, FixWriting, FixUndoing, FixEnding
<1>2. \/ /\ hw.daq = 0
         /\ \/ op' = op /\ pc = "fix_bank_gate" /\ pc' = "fix_select"
            \/ op' = op /\ pc = "fix_write_gate" /\ pc' = "fix_write"
            \/ op' = op /\ pc = "fix_park_gate" /\ pc' = "fix_park"
            \/ /\ op' = [op EXCEPT !.rollback = TRUE]
               /\ pc = "fix_undo_gate" /\ pc' = "fix_undo"
      \/ RepairParkAt(Refused(op)) \/ RepairResetAt(Refused(op))
  BY DEF RepairBankGate, RepairWriteGate, RepairUndoGate, RepairParkGate, Gate,
         On, Go
<1>3. CASE RepairParkAt(Refused(op)) \/ RepairResetAt(Refused(op))
  <2>1. FixTo(pc', op', Refused(op)) /\ Budget(pc') = 0
    BY <1>1, <1>3, FixFacts, FixFailedFacts, RepairGoesOn
  <2>2. FixTo(pc', op', op)
    BY <1>1, <2>1, FixFacts, FixFailedFacts DEF FixTo
  <2> QED
    BY <1>1, <2>1, <2>2, FixFacts, GateFrame DEF FixStep
<1>4. CASE ~(RepairParkAt(Refused(op)) \/ RepairResetAt(Refused(op)))
  <2>1. FixShape(pc', op') /\ pc' \in FixLabels /\ op' \in Ops
        /\ op'.began = op.began
    <3>1. CASE op' = op
      BY <1>1, <1>2, <1>4, <3>1, FixFacts
         DEF FixShape, FixBase, FixLabels, FixBegin, FixWriting, FixUndoing,
             FixEnding, FixReset
    <3>2. CASE /\ op' = [op EXCEPT !.rollback = TRUE]
               /\ pc = "fix_undo_gate" /\ pc' = "fix_undo"
      BY <1>1, <3>2, FixFacts
         DEF FixShape, FixBase, FixLabels, FixBegin, FixWriting, FixUndoing,
             FixEnding, FixReset, Ops
    <3> QED
      BY <1>2, <1>4, <3>1, <3>2
  <2>2. pc' # "applied"
    BY <1>2, <1>4
  <2> QED
    BY <1>1, <1>2, <1>4, <2>1, <2>2, FixFacts, GateFrame DEF FixStep, FixTo
<1> QED
  BY <1>3, <1>4

\* The readings of a repair.
LEMMA RepairReads ==
    ASSUME TypeInv, RepairIdentity \/ RepairStopVerify \/ RepairRead
                      \/ RepairReadback \/ RepairUndoReadback \/ RepairVerify
    PROVE  FixStep
<1>1. /\ pc \in FixLabels /\ Read(TRUE, TRUE, TRUE) /\ cap' = cap /\ svc' = svc
      /\ Budget(pc) = 0
  BY DEF RepairIdentity, RepairStopVerify, RepairRead, RepairReadback,
         RepairUndoReadback, RepairVerify, Read, FixLabels, FixBegin,
         FixWriting, FixUndoing, FixEnding, TransactionOnly, Budget
<1> DEFINE stopped == [op EXCEPT !.stopVerified = TRUE]
           left == [op EXCEPT !.leftStopped = TRUE]
           kept == [op EXCEPT !.retained = TRUE]
           undone == [op EXCEPT !.verified = TRUE]
<1>2. \/ op' = stopped /\ pc' = "fix_bank_gate"
         /\ pc \in {"fix_identity", "fix_stop_verify"}
      \/ op' = op /\ pc' = "fix_stop_gate" /\ pc = "fix_identity"
      \/ op' = op /\ pc' = "fix_write_gate" /\ pc = "fix_read"
      \/ op' = Failed(op) /\ pc' = "fix_undo_gate" /\ pc = "fix_readback"
      \/ RepairParkAt(kept) /\ pc = "fix_readback"
      \/ RepairParkAt(undone) /\ pc = "fix_undo_readback"
      \/ RepairParkAt(op) /\ pc = "fix_undo_readback"
      \/ RepairReturn(left) \/ RepairReturn(Failed(op))
      \/ RepairParkAt(Failed(op))
  BY DEF RepairIdentity, RepairStopVerify, RepairRead, RepairReadback,
         RepairUndoReadback, RepairVerify, Read, On, Go
<1>3. FixTo(pc', op', op) /\ Budget(pc') = 0
  <2>1. ASSUME NEW o, RepairReturn(o), FixBase(o), o.began = op.began
        PROVE  FixTo(pc', op', op) /\ Budget(pc') = 0
    BY <2>1, RepairReturnType DEF FixTo
  <2>2. ASSUME NEW o, RepairParkAt(o), FixBase(o), o.began = op.began,
               o.ok => o.retained
        PROVE  FixTo(pc', op', op) /\ Budget(pc') = 0
    BY <2>2, RepairGoesOn DEF FixTo
  <2>3. /\ FixBase(left) /\ left.began = op.began
        /\ FixBase(Failed(op)) /\ Failed(op).began = op.began /\ ~Failed(op).ok
    <3>1. FixBase(left) /\ left.began = op.began
      BY <1>1, FixFacts DEF FixBase, Ops
    <3> QED
      BY <1>1, <3>1, FixFacts, FixFailedFacts
  <2>4. pc = "fix_readback" => FixBase(kept) /\ kept.began = op.began
                                /\ kept.retained
    BY <1>1, FixFacts DEF FixBase, FixShape, Ops
  <2>5. pc = "fix_undo_readback" =>
           FixBase(undone) /\ undone.began = op.began /\ ~undone.ok /\ ~op.ok
    BY <1>1, FixFacts DEF FixBase, FixShape, Ops, FixUndoing
  <2>6. CASE \/ op' = stopped /\ pc' = "fix_bank_gate"
                /\ pc \in {"fix_identity", "fix_stop_verify"}
             \/ op' = op /\ pc' = "fix_stop_gate" /\ pc = "fix_identity"
             \/ op' = op /\ pc' = "fix_write_gate" /\ pc = "fix_read"
             \/ op' = Failed(op) /\ pc' = "fix_undo_gate" /\ pc = "fix_readback"
    <3>1. op' \in Ops /\ op'.began = op.began
      <4>1. op \in Ops /\ op' \in {op, stopped, Failed(op)}
        BY <1>1, <2>6, FixFacts DEF FixBase
      <4>2. /\ stopped \in Ops /\ stopped.began = op.began
        BY <4>1 DEF Ops
      <4>3. /\ Failed(op) \in Ops /\ Failed(op).began = op.began
        BY <4>1 DEF Ops, Failed
      <4> QED
        BY <4>1, <4>2, <4>3
    <3>2. FixShape(pc', op')
      BY <1>1, <2>6, FixFacts
         DEF FixShape, FixBase, FixBegin, FixWriting, FixUndoing, FixEnding,
             FixReset, Ops, Fresh, Failed
    <3> QED
      BY <2>6, <3>1, <3>2 DEF FixTo, FixLabels, FixBegin, FixWriting,
                              FixUndoing, Budget
  <2> QED
    BY <1>1, <1>2, <2>1, <2>2, <2>3, <2>4, <2>5, <2>6, FixFacts
<1> QED
  BY <1>1, <1>3, FixFacts, ReadFrame DEF FixStep

\* The writes of a repair.
LEMMA RepairWrites ==
    ASSUME TypeInv, RepairStop \/ RepairSelect \/ RepairWrite \/ RepairUndo
                      \/ RepairPark \/ RepairResetFifo \/ RepairResetReadout
    PROVE  FixStep
<1> DEFINE chosen == [op EXCEPT !.selected = Step.quad]
           tried == [op EXCEPT !.attempted = 1]
           parked == [op EXCEPT !.parked = TRUE]
           reset == [op EXCEPT !.reset = TRUE]
<1>1. /\ pc \in FixLabels /\ Sends /\ cap' = cap /\ svc' = svc
      /\ Budget(pc) = 1
  BY DEF RepairStop, RepairSelect, RepairWrite, RepairUndo, RepairPark,
         RepairResetFifo, RepairResetReadout, Store, Write, Sent, Failing,
         Sends, FixLabels, FixBegin, FixWriting, FixUndoing, FixEnding,
         FixReset, TransactionOnly, Budget
<1>2. hw' \in Hardware /\ hw'.daq = hw.daq
  <2>1. hw' \in {hw, StopAcquisition, Select(Step.quad), Select(0),
                 SetBanked(Step.setting, Step.profile),
                 SetBanked(Step.setting, Step.expected),
                 ResetFifo, ResetReadout}
    BY DEF RepairStop, RepairSelect, RepairWrite, RepairUndo, RepairPark,
           RepairResetFifo, RepairResetReadout, Store, Write
  <2>2. /\ Step.quad \in Quads /\ 0 \in Quads /\ hw \in Hardware
        /\ Step.setting \in Settings
        /\ Step.expected \in Values /\ Step.profile \in Values
    BY <1>1, FixFacts, QuadFacts
  <2>3. ASSUME NEW h, h = SetBanked(Step.setting, Step.profile)
                        \/ h = SetBanked(Step.setting, Step.expected)
        PROVE  h \in Hardware /\ h.daq = hw.daq
    BY <2>2, <2>3, SetBankedFacts
  <2>4. ASSUME NEW h, h = Select(Step.quad) \/ h = Select(0)
        PROVE  h \in Hardware /\ h.daq = hw.daq
    BY <2>2, <2>4, SelectFacts
  <2>5. ASSUME NEW h, h \in {hw, StopAcquisition, ResetFifo, ResetReadout}
        PROVE  h \in Hardware /\ h.daq = hw.daq
    BY <2>2, <2>5, StopFacts, ResetFacts
  <2> QED
    BY <2>1, <2>3, <2>4, <2>5
<1>3. \/ op' = op /\ pc' = "fix_stop_verify" /\ pc = "fix_stop"
      \/ op' = chosen /\ pc' = "fix_read" /\ pc = "fix_select"
      \/ op' = tried /\ pc' = "fix_readback" /\ pc = "fix_write"
      \/ op' = Failed(tried) /\ pc' = "fix_undo_gate" /\ pc = "fix_write"
      \/ op' = op /\ pc' = "fix_undo_readback" /\ pc = "fix_undo"
      \/ op' = op /\ pc' = "fix_readout_gate" /\ pc = "fix_fifo"
      \/ op' = Failed(op) /\ pc' = "fix_readout_gate" /\ pc = "fix_fifo"
      \/ RepairReturn(Failed(op)) \/ RepairParkAt(Failed(op))
      \/ RepairResetAt(Failed(op)) \/ RepairVerifyAt(Failed(op))
      \/ RepairParkAt(op) /\ pc = "fix_undo"
      \/ RepairResetAt(parked) /\ pc = "fix_park"
      \/ RepairVerifyAt(reset) /\ pc = "fix_readout"
  BY DEF RepairStop, RepairSelect, RepairWrite, RepairUndo, RepairPark,
         RepairResetFifo, RepairResetReadout, Store, Write, On, Go
<1>4. FixTo(pc', op', op) /\ Budget(pc') = 0
  <2>1. ASSUME NEW o, FixBase(o), o.began = op.began, o.ok => o.retained,
               RepairVerifyAt(o) \/ RepairResetAt(o) \/ RepairParkAt(o)
        PROVE  FixTo(pc', op', op) /\ Budget(pc') = 0
    BY <2>1, RepairGoesOn DEF FixTo
  <2>2. FixBase(Failed(op)) /\ Failed(op).began = op.began /\ ~Failed(op).ok
    BY <1>1, FixFacts, FixFailedFacts
  <2>3. RepairReturn(Failed(op)) => FixTo(pc', op', op) /\ Budget(pc') = 0
    BY <2>2, RepairReturnType DEF FixTo
  <2>4. pc = "fix_undo" => FixBase(op) /\ ~op.ok
    BY <1>1, FixFacts DEF FixShape, FixUndoing
  <2>5. pc = "fix_park" =>
           FixBase(parked) /\ parked.began = op.began
             /\ (parked.ok => parked.retained)
    BY <1>1, FixFacts DEF FixShape, FixBase, FixEnding, Ops
  <2>6. pc = "fix_readout" =>
           FixBase(reset) /\ reset.began = op.began
             /\ (reset.ok => reset.retained)
    BY <1>1, FixFacts DEF FixShape, FixBase, FixEnding, FixReset, Ops
  <2>7. CASE \/ op' = op /\ pc' = "fix_stop_verify" /\ pc = "fix_stop"
             \/ op' = op /\ pc' = "fix_undo_readback" /\ pc = "fix_undo"
             \/ op' = op /\ pc' = "fix_readout_gate" /\ pc = "fix_fifo"
    BY <1>1, <2>7, FixFacts
       DEF FixTo, FixBase, FixShape, FixLabels, FixBegin, FixWriting,
           FixUndoing, FixEnding, FixReset, Budget
  <2>8. CASE op' = Failed(op) /\ pc' = "fix_readout_gate" /\ pc = "fix_fifo"
    <3>1. op' \in Ops /\ op'.began = op.began
      BY <1>1, <2>8, FixFacts DEF FixBase, Ops, Failed
    <3>2. FixShape(pc', op')
      BY <1>1, <2>8, FixFacts
         DEF FixShape, FixBase, FixBegin, FixWriting, FixUndoing, FixEnding,
             FixReset, Ops, Failed
    <3> QED
      BY <2>8, <3>1, <3>2 DEF FixTo, FixLabels, FixEnding, FixReset, Budget
  <2>9. CASE op' = chosen /\ pc' = "fix_read" /\ pc = "fix_select"
    <3>1. op' \in Ops /\ op'.began = op.began
      BY <1>1, <2>9, FixFacts, QuadFacts DEF FixBase, Ops
    <3>2. FixShape(pc', op')
      BY <1>1, <2>9, FixFacts
         DEF FixShape, FixBase, FixBegin, FixWriting, FixUndoing, FixEnding,
             FixReset, Ops, Fresh
    <3> QED
      BY <2>9, <3>1, <3>2 DEF FixTo, FixLabels, FixWriting, Budget
  <2>10. CASE op' = tried /\ pc' = "fix_readback" /\ pc = "fix_write"
    <3>1. op' \in Ops /\ op'.began = op.began
      BY <1>1, <2>10, FixFacts DEF FixBase, Ops
    <3>2. FixShape(pc', op')
      BY <1>1, <2>10, FixFacts
         DEF FixShape, FixBase, FixBegin, FixWriting, FixUndoing, FixEnding,
             FixReset, Ops, Fresh
    <3> QED
      BY <2>10, <3>1, <3>2 DEF FixTo, FixLabels, Budget
  <2>11. CASE op' = Failed(tried) /\ pc' = "fix_undo_gate" /\ pc = "fix_write"
    <3>1. op' \in Ops /\ op'.began = op.began
      BY <1>1, <2>11, FixFacts DEF FixBase, Ops, Failed
    <3>2. FixShape(pc', op')
      BY <1>1, <2>11, FixFacts
         DEF FixShape, FixBase, FixBegin, FixWriting, FixUndoing, FixEnding,
             FixReset, Ops, Fresh, Failed
    <3> QED
      BY <2>11, <3>1, <3>2 DEF FixTo, FixLabels, FixUndoing, Budget
  <2> HIDE DEF chosen, tried, parked, reset
  <2> QED
    BY <1>1, <1>3, <2>1, <2>2, <2>3, <2>4, <2>5, <2>6, <2>7, <2>8, <2>9,
       <2>10, <2>11
<1> QED
  BY <1>1, <1>2, <1>4, FixFacts, StoreFrame DEF FixStep

\* Every step of a repair is taken at one of its labels and keeps the shape
\* and the budget.
LEMMA RepairNextStep ==
    ASSUME TypeInv, RepairNext
    PROVE  FixStep /\ pc \in FixLabels
<1>1. FixStep
  BY RepairGates, RepairWriteGates, RepairReads, RepairWrites DEF RepairNext
<1>2. pc \in FixLabels
  BY DEF RepairNext, RepairGate, RepairIdentity, RepairStopGate, RepairStop,
         RepairStopVerify, RepairBankGate, RepairSelect, RepairRead,
         RepairWriteGate, RepairWrite, RepairReadback, RepairUndoGate,
         RepairUndo, RepairUndoReadback, RepairParkGate, RepairPark,
         RepairFifoGate, RepairResetFifo, RepairReadoutGate,
         RepairResetReadout, RepairVerifyGate, RepairVerify, FixLabels,
         FixBegin, FixWriting, FixUndoing, FixEnding, FixReset
<1> QED
  BY <1>1, <1>2

----------------------------------------------------------------------------
(***************************************************************************)
(*             7. The startup preparation keeps its shape                  *)
(***************************************************************************)
PrepBase(o) ==
    /\ o \in Ops /\ o.kind = "prepare" /\ o.return = "startup_prepared"
    /\ o.steps \in Seq(PrepStep) /\ o.attempted <= Len(o.steps)
    /\ (o.verified => ~o.ok)
PrepTo(l, new, o) ==
    /\ l \in PrepLabels \cup {"startup_prepared"}
    /\ new \in Ops /\ new.began = o.began
    /\ l \in PrepLabels => PrepShape(l, new)
    /\ l = "startup_prepared" => new.kind = "prepare" /\ new.state # "none"
PrepStepTaken == StepFrame /\ PrepTo(pc', op', op) /\ cap' = cap

\* What the type invariant says at every label of a preparation.
LEMMA PrepFacts ==
    ASSUME TypeInv, pc \in PrepLabels
    PROVE  /\ PrepShape(pc, op) /\ PrepBase(op) /\ hw \in Hardware /\ TypeOK
           /\ op.owned /\ Len(op.steps) \in Nat
           /\ \A i \in 1 .. Len(op.steps) :
                 /\ op.steps[i].setting \in ContractSettings
                 /\ op.steps[i].expected \in {0, 1}
                 /\ op.steps[i].profile \in {0, 1}
<1>1. TypeOK /\ PrepShape(pc, op) /\ op \in Ops /\ hw \in Hardware
  BY DEF TypeInv, Located, TypeOK
<1>2. PrepBase(op) /\ op.owned
  <2>1. op.verified => ~op.ok
    BY <1>1 DEF PrepShape, PrepLabels, Fresh, PrepUndoing
  <2> QED
    BY <1>1, <2>1 DEF PrepShape, PrepBase
<1>3. Len(op.steps) \in Nat
  BY <1>2, LenProperties DEF PrepBase
<1>4. \A i \in 1 .. Len(op.steps) : op.steps[i] \in PrepStep
  BY <1>2, ElementOfSeq DEF PrepBase
<1> QED
  BY <1>1, <1>2, <1>3, <1>4 DEF PrepStep, ContractValue

\* Marking a preparation failed or refused keeps its counts and the run it
\* began under.
LEMMA PrepFailedFacts ==
    ASSUME NEW o, PrepBase(o)
    PROVE  \A f \in {Failed(o), Refused(o)} :
              /\ PrepBase(f) /\ ~f.ok /\ f.began = o.began
              /\ f.verified = o.verified /\ f.restored = o.restored
<1>1. SUFFICES ASSUME NEW f, f = Failed(o) \/ f = Refused(o)
               PROVE  /\ PrepBase(f) /\ ~f.ok /\ f.began = o.began
                      /\ f.verified = o.verified /\ f.restored = o.restored
  OBVIOUS
<1>2. CASE f = Failed(o)
  BY <1>2 DEF PrepBase, Ops, Failed
<1>3. CASE f = Refused(o)
  BY <1>3 DEF PrepBase, Ops, Refused
<1> QED
  BY <1>1, <1>2, <1>3

\* Where the preparation goes on.
LEMMA PreparationReturnType ==
    ASSUME NEW o, PrepBase(o), PreparationReturn(o)
    PROVE  PrepTo(pc', op', o) /\ Budget(pc') = 0
<1>1. /\ pc' = "startup_prepared" /\ op' \in Ops /\ op'.began = o.began
      /\ op'.kind = "prepare" /\ op'.state # "none"
  BY DEF PreparationReturn, Go, PrepBase, Ops
<1>2. pc' \notin PrepLabels /\ Budget(pc') = 0
  BY <1>1 DEF PrepLabels, PrepBegin, PrepWriting, PrepReset, PrepUndoing,
              PrepEnding, Budget
<1> QED
  BY <1>1, <1>2 DEF PrepTo

\* Where a preparation goes to check the stop, the record has the shape of
\* that label.
LEMMA StoppedAtType ==
    ASSUME NEW o, PrepBase(o), StoppedAt(o)
    PROVE  PrepTo(pc', op', o) /\ Budget(pc') = 0
<1>1. CASE PreparationReturn(o)
  BY <1>1, PreparationReturnType
<1>2. CASE ~PreparationReturn(o)
  <2>1. op' = o /\ o.owned /\ pc' = "prep_stopped_gate"
    BY <1>2 DEF StoppedAt, Go
  <2>2. PrepShape(pc', o)
    BY <2>1 DEF PrepBase, PrepShape, PrepBegin, PrepWriting, PrepReset,
                PrepUndoing, PrepEnding
  <2> QED
    BY <2>1, <2>2 DEF PrepTo, PrepBase, PrepLabels, PrepEnding, Budget
<1> QED
  BY <1>1, <1>2

\* Where the next undo of a preparation goes, the record has the shape of that
\* label.
LEMMA PreparationUndoType ==
    ASSUME NEW o, PrepBase(o), o.rollback, ~o.ok, ~o.verified,
           o.next \in 0 .. o.attempted,
           o.safe => o.restored = o.attempted - o.next, PreparationUndo(o)
    PROVE  PrepTo(pc', op', o) /\ Budget(pc') = 0
<1>1. CASE o.next = 0 \/ ~o.owned
  <2>1. PICK e : e = [o EXCEPT !.verified = o.safe /\ o.restored = o.attempted]
    OBVIOUS
  <2>2. PrepBase(e) /\ e.began = o.began
    BY <2>1 DEF PrepBase, Ops
  <2>3. StoppedAt(e)
    BY <1>1, <2>1 DEF PreparationUndo
  <2> QED
    BY <2>2, <2>3, StoppedAtType DEF PrepTo
<1>2. CASE ~(o.next = 0 \/ ~o.owned)
  <2>1. /\ op' = o /\ pc' = "prep_undo_gate" /\ o.owned
        /\ o.next \in 1 .. o.attempted
    BY <1>2 DEF PreparationUndo, Go, PrepBase, Ops
  <2>2. PrepShape(pc', o)
    BY <2>1 DEF PrepBase, PrepShape, PrepBegin, PrepWriting, PrepReset,
                PrepUndoing, PrepEnding
  <2> QED
    BY <2>1, <2>2 DEF PrepTo, PrepBase, PrepLabels, PrepUndoing, Budget
<1> QED
  BY <1>1, <1>2

\* Where a preparation goes once its writing is over, the record has the shape
\* of that label.
LEMMA PreparationEndType ==
    ASSUME NEW o, PrepBase(o), ~o.verified, o.restored = 0, PreparationEnd(o)
    PROVE  PrepTo(pc', op', o) /\ Budget(pc') = 0
<1>1. CASE ~o.ok /\ o.attempted > 0
  <2>1. PICK b : b = [o EXCEPT !.rollback = TRUE, !.safe = o.owned,
                               !.next = o.attempted]
    OBVIOUS
  <2>2. /\ PrepBase(b) /\ b.began = o.began /\ b.rollback /\ ~b.ok /\ ~b.verified
        /\ b.next = b.attempted /\ b.restored = 0 /\ b.attempted \in Nat
    BY <1>1, <2>1 DEF PrepBase, Ops
  <2>3. PreparationUndo(b)
    BY <1>1, <2>1 DEF PreparationEnd
  <2> QED
    BY <2>2, <2>3, PreparationUndoType DEF PrepTo
<1>2. CASE ~(~o.ok /\ o.attempted > 0)
  BY <1>2, StoppedAtType DEF PreparationEnd
<1> QED
  BY <1>1, <1>2

\* Where the next contract write goes, the record has the shape of that label.
LEMMA PreparationForwardType ==
    ASSUME NEW o, PrepBase(o), Fresh(o), o.next \in 1 .. Len(o.steps) + 1,
           o.attempted = o.next - 1, PreparationForward(o)
    PROVE  PrepTo(pc', op', o) /\ Budget(pc') = 0
<1>1. Len(o.steps) \in Nat
  BY LenProperties DEF PrepBase
<1>2. \/ op' = o /\ pc' = "prep_reset_gate" /\ o.attempted = Len(o.steps)
      \/ op' = o /\ pc' = "prep_write_gate" /\ o.next \in 1 .. Len(o.steps)
  BY <1>1 DEF PreparationForward, Go
<1>3. PrepShape(pc', o)
  BY <1>1, <1>2 DEF PrepBase, PrepShape, PrepBegin, PrepWriting, PrepReset,
                    PrepUndoing, PrepEnding, Fresh
<1> QED
  BY <1>2, <1>3 DEF PrepTo, PrepBase, PrepLabels, PrepWriting, PrepReset, Budget

\* A preparation that fails before its rollback.
LEMMA PreparationFails ==
    ASSUME TypeInv, pc \in PrepBegin \cup PrepWriting \cup PrepReset,
           NEW o, o \in {op, [op EXCEPT !.attempted = @ + 1]}, PrepBase(o),
           PreparationEnd(Failed(o)) \/ PreparationEnd(Refused(o))
    PROVE  PrepTo(pc', op', op) /\ Budget(pc') = 0
<1>1. pc \in PrepLabels
  BY DEF PrepLabels
<1>2. Fresh(op) /\ op \in Ops
  BY <1>1, PrepFacts DEF PrepShape, PrepBase
<1>3. PICK e : e \in {Failed(o), Refused(o)} /\ PreparationEnd(e)
  OBVIOUS
<1>4. ~o.verified /\ o.restored = 0 /\ o.began = op.began
  BY <1>2 DEF Fresh, Ops
<1>5. PrepBase(e) /\ ~e.verified /\ e.restored = 0 /\ e.began = op.began
  BY <1>3, <1>4, PrepFailedFacts
<1> QED
  BY <1>3, <1>5, PreparationEndType DEF PrepTo

\* The mismatches: what the contract asks for and the module does not have.
LEMMA PreparationStepsFacts ==
    ASSUME hw \in Hardware
    PROVE  LET steps == PreparationSteps IN
           /\ steps \in Seq(PrepStep) /\ Len(steps) \in Nat
           /\ \A i \in 1 .. Len(steps) :
                 /\ steps[i].setting \in ContractSettings
                 /\ steps[i].expected = hw[steps[i].setting]
                 /\ steps[i].profile = ContractValue
           /\ \A i, j \in 1 .. Len(steps) :
                 i # j => steps[i].setting # steps[j].setting
           /\ \A g \in ContractSettings : hw[g] # ContractValue =>
                 \E i \in 1 .. Len(steps) : steps[i].setting = g
<1> DEFINE st(g) == [quad |-> NoQuad, setting |-> g, expected |-> hw[g],
                     profile |-> ContractValue]
<1>1. \A g \in ContractSettings :
         /\ st(g) \in PrepStep /\ st(g).setting = g /\ st(g).expected = hw[g]
         /\ st(g).profile = ContractValue
  BY DEF Hardware, PrepStep, ContractSettings
<1>2. /\ Preparation("mblt") = IF hw.mblt = ContractValue THEN <<>> ELSE <<st("mblt")>>
      /\ Preparation("irq") = IF hw.irq = ContractValue THEN <<>> ELSE <<st("irq")>>
  BY DEF Preparation
<1>3. PICK a, b : a = st("mblt") /\ b = st("irq")
  OBVIOUS
<1>4. /\ a \in PrepStep /\ a.setting = "mblt" /\ a.expected = hw["mblt"]
      /\ a.profile = ContractValue
      /\ b \in PrepStep /\ b.setting = "irq" /\ b.expected = hw["irq"]
      /\ b.profile = ContractValue
  BY <1>1, <1>3 DEF ContractSettings
<1>5. ContractSettings = {"mblt", "irq"} /\ hw["mblt"] = hw.mblt
      /\ hw["irq"] = hw.irq
  BY DEF ContractSettings
<1>6. PICK steps : steps = PreparationSteps
  OBVIOUS
<1> HIDE DEF st
<1>7. CASE hw.mblt = ContractValue /\ hw.irq = ContractValue
  <2>1. steps = <<>>
    BY <1>2, <1>6, <1>7 DEF PreparationSteps
  <2>2. steps \in Seq(PrepStep) /\ Len(steps) = 0
    BY <2>1
  <2> QED
    BY <1>5, <1>6, <1>7, <2>2
<1>8. CASE hw.mblt = ContractValue /\ hw.irq # ContractValue
  <2>1. steps = <<b>>
    <3>1. <<b>> \in Seq(PrepStep)
      BY <1>4
    <3>2. <<>> \o <<b>> = <<b>> /\ <<b>> \o <<>> = <<b>>
      BY <3>1, ConcatEmptySeq
    <3> QED
      BY <1>2, <1>3, <1>6, <1>8, <3>2 DEF PreparationSteps
  <2>2. steps \in Seq(PrepStep) /\ Len(steps) = 1 /\ steps[1] = b
    BY <1>4, <2>1
  <2> QED
    BY <1>4, <1>5, <1>6, <1>8, <2>2
<1>9. CASE hw.mblt # ContractValue /\ hw.irq = ContractValue
  <2>1. steps = <<a>>
    <3>1. <<a>> \in Seq(PrepStep)
      BY <1>4
    <3>2. <<>> \o <<a>> = <<a>> /\ <<a>> \o <<>> = <<a>>
      BY <3>1, ConcatEmptySeq
    <3> QED
      BY <1>2, <1>3, <1>6, <1>9, <3>2 DEF PreparationSteps
  <2>2. steps \in Seq(PrepStep) /\ Len(steps) = 1 /\ steps[1] = a
    BY <1>4, <2>1
  <2> QED
    BY <1>4, <1>5, <1>6, <1>9, <2>2
<1>10. CASE hw.mblt # ContractValue /\ hw.irq # ContractValue
  <2>1. steps = <<a>> \o <<b>>
    BY <1>2, <1>3, <1>6, <1>10 DEF PreparationSteps
  <2>2. /\ steps \in Seq(PrepStep) /\ Len(steps) = 2 /\ steps[1] = a
        /\ steps[2] = b
    BY <1>4, <2>1
  <2> QED
    BY <1>4, <1>5, <1>6, <1>10, <2>2
<1> QED
  BY <1>7, <1>8, <1>9, <1>10

\* The gates of the preparation.
LEMMA PrepareGates ==
    ASSUME TypeInv, PrepareStopGate \/ PrepareWriteGate \/ PrepareResetGate
                      \/ PrepareFinalGate
    PROVE  PrepStepTaken
<1>1. /\ pc \in PrepBegin \cup PrepWriting \cup PrepReset /\ pc \in PrepLabels
      /\ Gate(TRUE, TRUE) /\ cap' = cap
  BY DEF PrepareStopGate, PrepareWriteGate, PrepareResetGate, PrepareFinalGate,
         Gate, PrepLabels, PrepBegin, PrepWriting, PrepReset
<1>2. \/ /\ hw.daq = 0 /\ op' = op
         /\ \/ pc = "prep_stop_gate" /\ pc' = "prep_stop"
            \/ pc = "prep_write_gate" /\ pc' = "prep_write"
            \/ pc = "prep_reset_gate" /\ pc' = "prep_fifo"
            \/ pc = "prep_final_gate" /\ pc' = "prep_final"
      \/ PreparationEnd(Refused(op))
  BY DEF PrepareStopGate, PrepareWriteGate, PrepareResetGate, PrepareFinalGate,
         Gate, On, Go
<1>3. CASE PreparationEnd(Refused(op))
  <2>1. PrepTo(pc', op', op) /\ Budget(pc') = 0
    BY <1>1, <1>3, PrepFacts, PreparationFails
  <2> QED
    BY <1>1, <2>1, PrepFacts, GateFrame DEF PrepStepTaken
<1>4. CASE ~PreparationEnd(Refused(op))
  <2>1. PrepTo(pc', op', op)
    BY <1>1, <1>2, <1>4, PrepFacts
       DEF PrepTo, PrepBase, PrepShape, PrepLabels, PrepBegin, PrepWriting,
           PrepReset, PrepUndoing, PrepEnding
  <2> QED
    BY <1>1, <1>2, <1>4, <2>1, PrepFacts, GateFrame DEF PrepStepTaken
<1> QED
  BY <1>3, <1>4

\* The gate before a preparation and the gate before its last check keep the
\* shape and the budget.
LEMMA PrepareEndGates ==
    ASSUME TypeInv, PrepareGate \/ PrepareStoppedGate
    PROVE  PrepStepTaken
<1>1. pc \in PrepLabels /\ Gate(TRUE, TRUE) /\ cap' = cap
  BY DEF PrepareGate, PrepareStoppedGate, Gate, PrepLabels, PrepBegin, PrepEnding
<1>2. \/ /\ hw.daq = 0 /\ op' = op
         /\ \/ pc = "prep_gate" /\ pc' = "prep_read"
            \/ pc = "prep_stopped_gate" /\ pc' = "prep_stopped"
      \/ PreparationReturn(Refused(op))
  BY DEF PrepareGate, PrepareStoppedGate, Gate, On, Go
<1>3. CASE PreparationReturn(Refused(op))
  <2>1. PrepTo(pc', op', Refused(op)) /\ Budget(pc') = 0
    BY <1>1, <1>3, PrepFacts, PrepFailedFacts, PreparationReturnType
  <2>2. PrepTo(pc', op', op)
    BY <1>1, <2>1, PrepFacts, PrepFailedFacts DEF PrepTo
  <2> QED
    BY <1>1, <2>1, <2>2, PrepFacts, GateFrame DEF PrepStepTaken
<1>4. CASE ~PreparationReturn(Refused(op))
  <2>1. PrepTo(pc', op', op)
    BY <1>1, <1>2, <1>4, PrepFacts
       DEF PrepTo, PrepBase, PrepShape, PrepLabels, PrepBegin, PrepWriting,
           PrepReset, PrepUndoing, PrepEnding
  <2> QED
    BY <1>1, <1>2, <1>4, <2>1, PrepFacts, GateFrame DEF PrepStepTaken
<1> QED
  BY <1>3, <1>4

\* The steps of the rollback.
LEMMA PrepareUndoes ==
    ASSUME TypeInv, pc \in PrepUndoing,
           NEW o, o \in {[Refused(op) EXCEPT !.safe = FALSE],
                         [op EXCEPT !.safe = FALSE, !.next = @ - 1],
                         [op EXCEPT !.restored = @ + 1, !.next = @ - 1]},
           PreparationUndo(o)
    PROVE  PrepTo(pc', op', op) /\ Budget(pc') = 0
<1>1. pc \in PrepLabels
  BY DEF PrepLabels
<1>2. /\ op.next \in 1 .. op.attempted /\ op.rollback /\ ~op.ok
      /\ ~op.verified /\ (op.safe => op.restored = op.attempted - op.next)
      /\ PrepBase(op) /\ op \in Ops
  BY <1>1, PrepFacts DEF PrepShape, PrepBase
<1>3. op.next - 1 \in Nat /\ op.restored + 1 \in Nat
  BY <1>2 DEF Ops
<1>4. /\ PrepBase(o) /\ o.began = op.began /\ o.rollback /\ ~o.ok /\ ~o.verified
      /\ o.attempted = op.attempted /\ o.next \in {op.next, op.next - 1}
      /\ o.safe => /\ op.safe /\ o.next = op.next - 1
                   /\ o.restored = op.restored + 1
  <2>1. CASE o = [Refused(op) EXCEPT !.safe = FALSE]
    BY <1>2, <2>1 DEF PrepBase, Ops, Refused
  <2>2. CASE o = [op EXCEPT !.safe = FALSE, !.next = @ - 1]
    BY <1>2, <1>3, <2>2 DEF PrepBase, Ops
  <2>3. CASE o = [op EXCEPT !.restored = @ + 1, !.next = @ - 1]
    BY <1>2, <1>3, <2>3 DEF PrepBase, Ops
  <2> QED
    BY <2>1, <2>2, <2>3
<1>5. /\ o.next \in 0 .. o.attempted
      /\ o.safe => o.restored = o.attempted - o.next
  BY <1>2, <1>4 DEF Ops
<1> QED
  BY <1>4, <1>5, PreparationUndoType DEF PrepTo

\* The undo of a contract write (gate, write, readback) keeps the shape and
\* the budget.
LEMMA PrepareUndoSteps ==
    ASSUME TypeInv, PrepareUndoGate \/ PrepareUndo \/ PrepareUndoReadback
    PROVE  PrepStepTaken
<1>1. pc \in PrepLabels /\ pc \in PrepUndoing /\ cap' = cap
  BY DEF PrepareUndoGate, PrepareUndo, PrepareUndoReadback, PrepLabels,
         PrepUndoing, TransactionOnly
<1>2. CASE PrepareUndoGate
  <2>1. Gate(TRUE, TRUE)
    BY <1>2 DEF PrepareUndoGate, Gate
  <2>2. CASE PreparationUndo([Refused(op) EXCEPT !.safe = FALSE])
    <3>1. PrepTo(pc', op', op) /\ Budget(pc') = 0
      BY <1>1, <2>2, PrepareUndoes
    <3> QED
      BY <1>1, <2>1, <3>1, PrepFacts, GateFrame DEF PrepStepTaken
  <2>3. CASE hw.daq = 0 /\ On("prep_undo")
    <3>1. PrepTo(pc', op', op)
      BY <1>1, <2>3, PrepFacts
         DEF PrepTo, PrepBase, PrepShape, PrepLabels, PrepBegin, PrepWriting,
             PrepReset, PrepUndoing, PrepEnding, On, Go
    <3> QED
      BY <1>1, <2>1, <2>3, <3>1, PrepFacts, GateFrame DEF PrepStepTaken
  <2> QED
    BY <1>2, <2>2, <2>3 DEF PrepareUndoGate, Gate
<1>3. CASE PrepareUndo
  <2> DEFINE new == SetGlobal(Step.setting, Step.expected)
  <2>1. Sends /\ hw' \in {hw, new} /\ svc' = svc /\ pc = "prep_undo"
    BY <1>3 DEF PrepareUndo, Store, Write, Sent, Failing, Sends, TransactionOnly
  <2>2. Step.setting \in ContractSettings /\ Step.expected \in {0, 1}
    <3>1. op.next \in 1 .. Len(op.steps)
      BY <1>1, PrepFacts DEF PrepShape, PrepBase, Ops
    <3> QED
      BY <1>1, <3>1, PrepFacts DEF Step
  <2>3. hw' \in Hardware /\ hw'.daq = hw.daq
    BY <1>1, <2>1, <2>2, PrepFacts, SetGlobalFacts
  <2>4. Budget(pc) = 1
    BY <2>1 DEF Budget
  <2>5. CASE NotRestored
    <3>1. PrepTo(pc', op', op) /\ Budget(pc') = 0
      BY <1>1, <2>5, PrepareUndoes DEF NotRestored
    <3> QED
      BY <1>1, <2>1, <2>3, <2>4, <3>1, PrepFacts, StoreFrame DEF PrepStepTaken
  <2>6. CASE On("prep_undo_readback")
    <3>1. PrepTo(pc', op', op) /\ Budget(pc') = 0
      BY <1>1, <2>6, PrepFacts
         DEF PrepTo, PrepBase, PrepShape, PrepLabels, PrepBegin, PrepWriting,
             PrepReset, PrepUndoing, PrepEnding, On, Go, Budget
    <3> QED
      BY <1>1, <2>1, <2>3, <2>4, <3>1, PrepFacts, StoreFrame DEF PrepStepTaken
  <2> QED
    BY <1>3, <2>5, <2>6 DEF PrepareUndo, Store, Write
<1>4. CASE PrepareUndoReadback
  <2>1. Read(TRUE, TRUE, TRUE) /\ svc' = svc
    BY <1>4 DEF PrepareUndoReadback, Read, TransactionOnly
  <2>2. PrepTo(pc', op', op) /\ Budget(pc') = 0
    BY <1>1, <1>4, PrepareUndoes DEF PrepareUndoReadback, Read, NotRestored
  <2> QED
    BY <1>1, <2>1, <2>2, PrepFacts, ReadFrame, BudgetNat DEF PrepStepTaken
<1> QED
  BY <1>2, <1>3, <1>4

\* The readings of the preparation.
LEMMA PrepareReads ==
    ASSUME TypeInv, PrepareRead \/ PrepareStopVerify \/ PrepareReadback
                      \/ PrepareFinal \/ PrepareStopped
    PROVE  PrepStepTaken
<1> DEFINE found == [op EXCEPT !.steps = PreparationSteps]
           stopped == [op EXCEPT !.stopVerified = TRUE]
           next == [op EXCEPT !.next = @ + 1]
           left == [op EXCEPT !.leftStopped = TRUE]
           running == [Failed(op) EXCEPT !.leftStopped = FALSE]
<1>1. /\ pc \in PrepLabels /\ Read(TRUE, TRUE, TRUE) /\ cap' = cap /\ svc' = svc
      /\ Budget(pc) = 0
  BY DEF PrepareRead, PrepareStopVerify, PrepareReadback, PrepareFinal,
         PrepareStopped, Read, PrepLabels, PrepBegin, PrepWriting, PrepReset,
         PrepEnding, TransactionOnly, Budget
<1>2. \/ pc = "prep_read" /\ op' = found /\ pc' = "prep_stop_gate"
      \/ PreparationReturn(Failed(op))
      \/ pc = "prep_stop_verify" /\ PreparationForward(stopped)
      \/ pc = "prep_readback" /\ PreparationForward(next)
      \/ pc = "prep_final" /\ PreparationEnd(op)
      \/ /\ pc \in PrepBegin \cup PrepWriting \cup PrepReset
         /\ PreparationEnd(Failed(op))
      \/ PreparationReturn(left) \/ PreparationReturn(running)
  BY DEF PrepareRead, PrepareStopVerify, PrepareReadback, PrepareFinal,
         PrepareStopped, Read, PrepBegin, PrepWriting, PrepReset, Go
<1>3. PrepTo(pc', op', op) /\ Budget(pc') = 0
  <2>a. PrepBase(op) /\ op \in Ops /\ PrepShape(pc, op) /\ Len(op.steps) \in Nat
    BY <1>1, PrepFacts DEF PrepBase
  <2>1. ASSUME NEW o, PrepBase(o), o.began = op.began, PreparationReturn(o)
        PROVE  PrepTo(pc', op', op) /\ Budget(pc') = 0
    BY <2>1, PreparationReturnType DEF PrepTo
  <2>2. PreparationReturn(Failed(op)) => PrepTo(pc', op', op) /\ Budget(pc') = 0
    BY <2>a, <2>1, PrepFailedFacts
  <2>3. PreparationReturn(left) => PrepTo(pc', op', op) /\ Budget(pc') = 0
    <3>1. PrepBase(left) /\ left.began = op.began
      BY <2>a DEF PrepBase, Ops
    <3> HIDE DEF left
    <3> QED
      BY <2>1, <3>1
  <2>4. PreparationReturn(running) => PrepTo(pc', op', op) /\ Budget(pc') = 0
    <3>1. PrepBase(running) /\ running.began = op.began
      BY <2>a DEF PrepBase, Ops, Failed
    <3> HIDE DEF running
    <3> QED
      BY <2>1, <3>1
  <2>5. CASE pc = "prep_read" /\ op' = found /\ pc' = "prep_stop_gate"
    <3>1. PreparationSteps \in Seq(PrepStep) /\ Len(PreparationSteps) \in Nat
      BY <1>1, PrepFacts, PreparationStepsFacts
    <3>2. Fresh(op) /\ op.next = 1 /\ op.attempted = 0
      BY <2>5, <2>a DEF PrepShape, PrepBegin
    <3>3. /\ op' \in Ops /\ op'.began = op.began /\ Fresh(op') /\ op'.next = 1
          /\ op'.attempted = 0 /\ op'.steps = PreparationSteps
          /\ op'.kind = op.kind /\ op'.return = op.return /\ op'.owned
      BY <2>5, <2>a, <3>1, <3>2 DEF Ops, Fresh
    <3>4. PrepShape(pc', op')
      BY <2>5, <2>a, <3>1, <3>3
         DEF PrepShape, PrepBegin, PrepWriting, PrepReset, PrepUndoing,
             PrepEnding, Fresh
    <3> QED
      BY <2>5, <3>3, <3>4 DEF PrepTo, PrepLabels, PrepBegin, Budget
  <2>6. CASE pc = "prep_stop_verify" /\ PreparationForward(stopped)
    <3>1. Fresh(op) /\ op.next = 1 /\ op.attempted = 0
      BY <2>6, <2>a DEF PrepShape, PrepBegin
    <3>2. /\ PrepBase(stopped) /\ stopped.began = op.began /\ Fresh(stopped)
          /\ stopped.next = 1 /\ stopped.attempted = 0
          /\ stopped.steps = op.steps
      BY <2>a, <3>1 DEF PrepBase, Ops, Fresh
    <3> HIDE DEF stopped
    <3>3. stopped.next \in 1 .. Len(stopped.steps) + 1
      BY <2>a, <3>2
    <3> QED
      BY <2>6, <3>2, <3>3, PreparationForwardType DEF PrepTo
  <2>7. CASE pc = "prep_readback" /\ PreparationForward(next)
    <3>1. Fresh(op) /\ op.next \in 1 .. Len(op.steps) /\ op.attempted = op.next
      BY <2>7, <2>a DEF PrepShape, PrepWriting
    <3>2. /\ PrepBase(next) /\ next.began = op.began /\ Fresh(next)
          /\ next.next = op.next + 1 /\ next.attempted = op.attempted
          /\ next.steps = op.steps
      BY <2>a, <3>1 DEF PrepBase, Ops, Fresh
    <3> HIDE DEF next
    <3>3. next.next \in 1 .. Len(next.steps) + 1 /\ next.attempted = next.next - 1
      BY <2>a, <3>1, <3>2
    <3> QED
      BY <2>7, <3>2, <3>3, PreparationForwardType DEF PrepTo
  <2>8. CASE pc = "prep_final" /\ PreparationEnd(op)
    <3>1. ~op.verified /\ op.restored = 0
      BY <2>8, <2>a DEF PrepShape, PrepReset, Fresh
    <3> QED
      BY <2>8, <2>a, <3>1, PreparationEndType DEF PrepTo
  <2>9. CASE /\ pc \in PrepBegin \cup PrepWriting \cup PrepReset
             /\ PreparationEnd(Failed(op))
    BY <2>9, <2>a, PreparationFails
  <2> QED
    BY <1>2, <2>2, <2>3, <2>4, <2>5, <2>6, <2>7, <2>8, <2>9
<1> QED
  BY <1>1, <1>3, PrepFacts, ReadFrame DEF PrepStepTaken

\* The writes of the preparation.
LEMMA PrepareWrites ==
    ASSUME TypeInv, PrepareStop \/ PrepareWrite \/ PrepareResetFifo
                      \/ PrepareResetReadout
    PROVE  PrepStepTaken
<1> DEFINE sent == [op EXCEPT !.stopSent = TRUE]
           tried == [op EXCEPT !.attempted = @ + 1]
           reset == [op EXCEPT !.reset = TRUE]
<1>1. /\ pc \in PrepLabels /\ pc \in PrepBegin \cup PrepWriting \cup PrepReset
      /\ Sends /\ cap' = cap /\ svc' = svc
      /\ pc \in {"prep_stop", "prep_write", "prep_fifo", "prep_readout"}
  BY DEF PrepareStop, PrepareWrite, PrepareResetFifo, PrepareResetReadout,
         Store, Write, Sent, Failing, Sends, PrepLabels, PrepBegin,
         PrepWriting, PrepReset, TransactionOnly
<1>a. PrepBase(op) /\ op \in Ops /\ PrepShape(pc, op) /\ Len(op.steps) \in Nat
      /\ hw \in Hardware /\ Fresh(op)
  BY <1>1, PrepFacts DEF PrepBase, PrepShape
<1>b. pc = "prep_write" =>
         /\ op.next \in 1 .. Len(op.steps) /\ op.attempted = op.next - 1
         /\ Step.setting \in ContractSettings /\ Step.profile \in {0, 1}
  <2>1. pc = "prep_write" =>
           op.next \in 1 .. Len(op.steps) /\ op.attempted = op.next - 1
    BY <1>a DEF PrepShape, PrepWriting
  <2> QED
    BY <1>1, <2>1, PrepFacts DEF Step
<1>2. hw' \in Hardware /\ hw'.daq = hw.daq
  <2>1. \/ hw' \in {hw, StopAcquisition, ResetFifo, ResetReadout}
        \/ pc = "prep_write" /\ hw' = SetGlobal(Step.setting, Step.profile)
    BY DEF PrepareStop, PrepareWrite, PrepareResetFifo, PrepareResetReadout,
           Store, Write
  <2>2. ASSUME NEW h, h \in {hw, StopAcquisition, ResetFifo, ResetReadout}
        PROVE  h \in Hardware /\ h.daq = hw.daq
    BY <1>a, <2>2, StopFacts, ResetFacts
  <2>3. pc = "prep_write" => /\ SetGlobal(Step.setting, Step.profile) \in Hardware
                             /\ SetGlobal(Step.setting, Step.profile).daq = hw.daq
    BY <1>a, <1>b, SetGlobalFacts
  <2> QED
    BY <2>1, <2>2, <2>3
<1>3. \/ pc = "prep_stop" /\ op' = sent /\ pc' = "prep_stop_verify"
      \/ pc = "prep_write" /\ op' = tried /\ pc' = "prep_readback"
      \/ pc = "prep_fifo" /\ op' = op /\ pc' = "prep_readout"
      \/ pc = "prep_readout" /\ op' = reset /\ pc' = "prep_final_gate"
      \/ PreparationEnd(Failed(op))
      \/ pc = "prep_write" /\ PreparationEnd(Failed(tried))
  BY DEF PrepareStop, PrepareWrite, PrepareResetFifo, PrepareResetReadout,
         Store, Write, On, Go
<1>4. PrepTo(pc', op', op) /\ Budget(pc') + 1 <= Budget(pc)
  <2>1. Budget(pc) = IF pc = "prep_fifo" THEN 2 ELSE 1
    BY <1>1 DEF Budget
  <2>2. CASE PreparationEnd(Failed(op))
    BY <1>1, <1>a, <2>1, <2>2, PreparationFails
  <2>3. pc = "prep_write" =>
           /\ PrepBase(tried) /\ tried.began = op.began /\ Fresh(tried)
           /\ tried.next = op.next /\ tried.attempted = op.next
           /\ tried.steps = op.steps
    <3>1. pc = "prep_write" => op.attempted + 1 \in Nat /\ op.attempted + 1 = op.next
      BY <1>a, <1>b DEF Ops
    <3> QED
      BY <1>a, <1>b, <3>1 DEF PrepBase, Ops, Fresh
  <2>4. CASE pc = "prep_write" /\ PreparationEnd(Failed(tried))
    BY <1>1, <1>a, <2>1, <2>3, <2>4, PreparationFails
  <2>5. CASE pc = "prep_stop" /\ op' = sent /\ pc' = "prep_stop_verify"
    <3>1. /\ op' \in Ops /\ op'.began = op.began /\ Fresh(op')
          /\ op'.next = op.next /\ op'.attempted = op.attempted
          /\ op'.steps = op.steps /\ op'.kind = op.kind
          /\ op'.return = op.return /\ op'.owned = op.owned
      BY <1>a, <2>5 DEF Ops, Fresh
    <3>2. PrepShape(pc', op')
      BY <1>a, <2>5, <3>1
         DEF PrepShape, PrepBegin, PrepWriting, PrepReset, PrepUndoing,
             PrepEnding
    <3> QED
      BY <2>1, <2>5, <3>1, <3>2 DEF PrepTo, PrepLabels, PrepBegin, Budget
  <2>6. CASE pc = "prep_write" /\ op' = tried /\ pc' = "prep_readback"
    <3>1. op'.owned
      BY <2>3, <2>6 DEF Fresh
    <3>2. PrepShape(pc', op')
      BY <1>a, <1>b, <2>3, <2>6, <3>1
         DEF PrepShape, PrepBase, PrepBegin, PrepWriting, PrepReset,
             PrepUndoing, PrepEnding
    <3> QED
      BY <2>1, <2>3, <2>6, <3>2 DEF PrepTo, PrepBase, PrepLabels, PrepWriting,
                                    Budget
  <2>7. CASE pc = "prep_fifo" /\ op' = op /\ pc' = "prep_readout"
    BY <1>a, <2>1, <2>7
       DEF PrepTo, PrepShape, PrepLabels, PrepBegin, PrepWriting, PrepReset,
           PrepUndoing, PrepEnding, Budget
  <2>8. CASE pc = "prep_readout" /\ op' = reset /\ pc' = "prep_final_gate"
    <3>1. /\ op' \in Ops /\ op'.began = op.began /\ Fresh(op')
          /\ op'.next = op.next /\ op'.attempted = op.attempted
          /\ op'.steps = op.steps /\ op'.kind = op.kind
          /\ op'.return = op.return /\ op'.owned = op.owned
      BY <1>a, <2>8 DEF Ops, Fresh
    <3>2. PrepShape(pc', op')
      BY <1>a, <2>8, <3>1
         DEF PrepShape, PrepBegin, PrepWriting, PrepReset, PrepUndoing,
             PrepEnding
    <3> QED
      BY <2>1, <2>8, <3>1, <3>2 DEF PrepTo, PrepLabels, PrepReset, Budget
  <2> QED
    BY <1>3, <2>2, <2>4, <2>5, <2>6, <2>7, <2>8
<1> QED
  BY <1>1, <1>2, <1>4, PrepFacts, StoreFrame DEF PrepStepTaken

\* Every step of a preparation is taken at one of its labels and keeps the
\* shape and the budget.
LEMMA PreparationNextStep ==
    ASSUME TypeInv, PreparationNext
    PROVE  PrepStepTaken /\ pc \in PrepLabels
<1>1. PrepStepTaken
  BY PrepareGates, PrepareEndGates, PrepareUndoSteps, PrepareReads,
     PrepareWrites DEF PreparationNext
<1>2. pc \in PrepLabels
  BY DEF PreparationNext, PrepareGate, PrepareRead, PrepareStopGate,
         PrepareStop, PrepareStopVerify, PrepareWriteGate, PrepareWrite,
         PrepareReadback, PrepareResetGate, PrepareResetFifo,
         PrepareResetReadout, PrepareFinalGate, PrepareFinal, PrepareUndoGate,
         PrepareUndo, PrepareUndoReadback, PrepareStoppedGate, PrepareStopped,
         PrepLabels, PrepBegin, PrepWriting, PrepReset, PrepUndoing, PrepEnding
<1> QED
  BY <1>1, <1>2

----------------------------------------------------------------------------
(***************************************************************************)
(*                    8. A capture keeps its shape                         *)
(***************************************************************************)
CapAt(l, c) ==
    /\ l \in CapLabels /\ ~c.complete
    /\ l \in {"cap_gate", "cap_globals"} => c.quad = 0 /\ c.ok
    /\ l \in {"cap_bank", "cap_select", "cap_read"} => c.quad \in Quads /\ c.ok
    /\ l \in {"cap_park_gate", "cap_park"} /\ c.ok => c.quad = QuadCount
CapStep ==
    /\ StepFrame /\ op' = op /\ cap' \in Caps /\ cap'.return = cap.return
    /\ CapAt(pc', cap') \/ pc' = cap.return

\* What the type invariant says at every label of a capture.
LEMMA CapFacts ==
    ASSUME TypeInv, pc \in CapLabels
    PROVE  CapAt(pc, cap) /\ cap \in Caps /\ hw \in Hardware /\ TypeOK
           /\ cap.return \in CapReturns
BY DEF TypeInv, TypeOK, Located, CapShape, CapAt, Caps

\* A capture returns to the label its caller named, with no write pending.
LEMMA CaptureReturnFacts ==
    ASSUME cap \in Caps, NEW b \in BOOLEAN, CaptureReturn(b)
    PROVE  /\ cap' \in Caps /\ cap'.return = cap.return /\ pc' = cap.return
           /\ Budget(pc') = 0
<1>1. cap' \in Caps /\ cap'.return = cap.return /\ pc' = cap.return
  BY DEF CaptureReturn, Caps
<1>2. cap.return \in CapReturns
  BY DEF Caps
<1> QED
  BY <1>1, <1>2 DEF CapReturns, Budget

\* The gates of a capture keep its shape and the budget.
LEMMA CaptureGates ==
    ASSUME TypeInv, CaptureGate \/ CaptureBankGate \/ CaptureParkGate
    PROVE  CapStep
<1>1. pc \in CapLabels /\ Gate(TRUE, TRUE) /\ op' = op
  BY DEF CaptureGate, CaptureBankGate, CaptureParkGate, Gate, GateOnly, CapLabels
<1>2. \/ /\ hw.daq = 0 /\ cap' = cap
         /\ \/ pc = "cap_gate" /\ pc' = "cap_globals"
            \/ pc = "cap_bank" /\ pc' = "cap_select"
            \/ pc = "cap_park_gate" /\ pc' = "cap_park"
      \/ CaptureReturn(FALSE)
  BY DEF CaptureGate, CaptureBankGate, CaptureParkGate, Gate, CaptureGo
<1>3. CASE CaptureReturn(FALSE)
  BY <1>1, <1>3, CapFacts, CaptureReturnFacts, GateFrame DEF CapStep
<1>4. CASE ~CaptureReturn(FALSE)
  <2>1. CapAt(pc', cap)
    BY <1>1, <1>2, <1>4, CapFacts DEF CapAt, CapLabels
  <2> QED
    BY <1>1, <1>2, <1>4, <2>1, CapFacts, GateFrame DEF CapStep
<1> QED
  BY <1>3, <1>4

\* A capture that fails goes on to park the selector and still knows its
\* caller.
LEMMA CaptureFailsFacts ==
    ASSUME cap \in Caps, ~cap.complete, CaptureFails("cap_park_gate")
    PROVE  /\ cap' \in Caps /\ cap'.return = cap.return /\ CapAt(pc', cap')
           /\ Budget(pc') = 0
BY DEF CaptureFails, Caps, CapAt, CapLabels, Budget

\* Reading the global registers keeps the shape of the capture and the budget.
LEMMA CaptureGlobalsStep ==
    ASSUME TypeInv, CaptureGlobals
    PROVE  CapStep
<1>1. /\ pc = "cap_globals" /\ pc \in CapLabels /\ Read(TRUE, TRUE, TRUE)
      /\ op' = op /\ svc' = svc /\ Budget(pc) = 1
  BY DEF CaptureGlobals, Read, CaptureOnly, CapLabels, Budget
<1>2. CASE CaptureReturn(FALSE)
  <2>1. /\ cap' \in Caps /\ cap'.return = cap.return /\ pc' = cap.return
        /\ Budget(pc') = 0
    BY <1>1, <1>2, CapFacts, CaptureReturnFacts
  <2> QED
    BY <1>1, <2>1, CapFacts, ReadFrame DEF CapStep
<1>3. CASE pc' = "cap_select" /\ cap' = [cap EXCEPT !.irq = hw.irq]
  <2>1. /\ cap' \in Caps /\ cap'.return = cap.return /\ ~cap'.complete
        /\ cap'.quad = 0 /\ cap'.ok
    BY <1>1, <1>3, CapFacts DEF Caps, CapAt, Hardware
  <2>2. CapAt(pc', cap') /\ Budget(pc') = 1
    BY <1>3, <2>1, QuadFacts DEF CapAt, CapLabels, Budget
  <2> QED
    BY <1>1, <2>1, <2>2, CapFacts, ReadFrame DEF CapStep
<1> QED
  BY <1>2, <1>3 DEF CaptureGlobals, Read

\* Selecting the next bank to read keeps the shape and spends one write of the
\* gate's budget.
LEMMA CaptureSelectStep ==
    ASSUME TypeInv, CaptureSelect
    PROVE  CapStep
<1>1. /\ pc = "cap_select" /\ pc \in CapLabels /\ Sends
      /\ hw' \in {hw, Select(cap.quad)}
      /\ op' = op /\ svc' = svc /\ Budget(pc) = 1
  BY DEF CaptureSelect, Write, Sent, Failing, Sends, CaptureOnly, CapLabels, Budget
<1>2. cap.quad \in Quads /\ cap.ok /\ ~cap.complete
  BY <1>1, CapFacts DEF CapAt
<1>3. hw' \in Hardware /\ hw'.daq = hw.daq
  BY <1>1, <1>2, CapFacts, SelectFacts
<1>4. CASE CaptureFails("cap_park_gate")
  BY <1>1, <1>2, <1>3, <1>4, CapFacts, CaptureFailsFacts, StoreFrame DEF CapStep
<1>5. CASE CaptureGo("cap_read")
  <2>1. CapAt(pc', cap') /\ Budget(pc') = 0 /\ cap' = cap
    BY <1>2, <1>5 DEF CapAt, CapLabels, Budget, CaptureGo
  <2> QED
    BY <1>1, <1>3, <2>1, CapFacts, StoreFrame DEF CapStep
<1> QED
  BY <1>4, <1>5 DEF CaptureSelect, Write

\* The reading of one quad.
LEMMA CaptureReadFacts ==
    ASSUME cap \in Caps, hw \in Hardware, cap.quad \in Quads, cap.ok,
           ~cap.complete,
           cap' = [cap EXCEPT !.quad = @ + 1,
                              !.bank[cap.quad] = hw.bank[hw.selector]],
           pc' = IF cap.quad + 1 \in Quads THEN "cap_bank" ELSE "cap_park_gate"
    PROVE  /\ cap' \in Caps /\ cap'.return = cap.return /\ CapAt(pc', cap')
           /\ Budget(pc') = 0 /\ cap'.quad = cap.quad + 1 /\ cap'.irq = cap.irq
           /\ cap'.ok
           /\ cap'.bank = [cap.bank EXCEPT ![cap.quad] = hw.bank[hw.selector]]
<1>1. hw.bank[hw.selector] \in Quad /\ cap.bank \in Banks
  BY DEF Hardware, Caps, Banks
<1>2. PICK b \in Banks : b = [cap.bank EXCEPT ![cap.quad] = hw.bank[hw.selector]]
  BY <1>1 DEF Banks
<1>3. PICK n \in 0 .. QuadCount : n = cap.quad + 1
  BY QuadFacts DEF Quads
<1>4. cap' = [[cap EXCEPT !.quad = n] EXCEPT !.bank = b]
  BY <1>2, <1>3 DEF Caps
<1>5. /\ cap' \in Caps /\ cap'.return = cap.return /\ cap'.quad = n
      /\ cap'.bank = b /\ cap'.ok /\ ~cap'.complete /\ cap'.irq = cap.irq
  BY <1>4 DEF Caps
<1>6. n \in Quads \/ n = QuadCount
  BY <1>3, QuadFacts DEF Quads
<1> QED
  BY <1>2, <1>3, <1>5, <1>6 DEF CapAt, CapLabels, Budget

\* Reading a bank keeps the shape of the capture and the budget.
LEMMA CaptureReadStep ==
    ASSUME TypeInv, CaptureRead
    PROVE  CapStep
<1>1. /\ pc = "cap_read" /\ pc \in CapLabels /\ Read(TRUE, TRUE, TRUE)
      /\ op' = op /\ svc' = svc /\ Budget(pc) = 0
  BY DEF CaptureRead, Read, CaptureOnly, CapLabels, Budget
<1>2. cap.quad \in Quads /\ cap.ok /\ ~cap.complete /\ cap \in Caps
      /\ hw \in Hardware /\ TypeOK
  BY <1>1, CapFacts DEF CapAt
<1>3. CASE CaptureFails("cap_park_gate")
  BY <1>1, <1>2, <1>3, CaptureFailsFacts, ReadFrame DEF CapStep
<1>4. CASE ~CaptureFails("cap_park_gate")
  BY <1>1, <1>2, <1>4, CaptureReadFacts, ReadFrame DEF CapStep, CaptureRead, Read
<1> QED
  BY <1>3, <1>4

\* Parking the selector keeps the shape and spends one write of the gate's
\* budget.
LEMMA CaptureParkStep ==
    ASSUME TypeInv, CapturePark
    PROVE  CapStep
<1>1. /\ pc = "cap_park" /\ pc \in CapLabels /\ Sends
      /\ hw' \in {hw, Select(0)}
      /\ op' = op /\ svc' = svc /\ Budget(pc) = 1
  BY DEF CapturePark, Write, Sent, Failing, Sends, CaptureOnly, CapLabels, Budget
<1>2. hw' \in Hardware /\ hw'.daq = hw.daq
  BY <1>1, CapFacts, SelectFacts, QuadFacts
<1>3. PICK b \in BOOLEAN : CaptureReturn(b)
  <2>1. cap.ok \in BOOLEAN
    BY <1>1, CapFacts DEF Caps
  <2> QED
    BY <2>1 DEF CapturePark, Write
<1> QED
  BY <1>1, <1>2, <1>3, CapFacts, CaptureReturnFacts, StoreFrame DEF CapStep

\* Every step of a capture is taken at one of its labels and keeps the shape
\* and the budget.
LEMMA CaptureNextStep ==
    ASSUME TypeInv, CaptureNext
    PROVE  CapStep /\ pc \in CapLabels
<1>1. CapStep
  BY CaptureGates, CaptureGlobalsStep, CaptureSelectStep, CaptureReadStep,
     CaptureParkStep DEF CaptureNext
<1>2. pc \in CapLabels
  BY DEF CaptureNext, CaptureGate, CaptureGlobals, CaptureBankGate,
         CaptureSelect, CaptureRead, CaptureParkGate, CapturePark, CapLabels
<1> QED
  BY <1>1, <1>2

----------------------------------------------------------------------------
(***************************************************************************)
(*              9. Every step keeps the types and the shapes               *)
(***************************************************************************)
LEMMA DetachFacts ==
    ASSUME TypeOK, svc' \in {svc, DetachForForeignDaq}
    PROVE  /\ svc' \in Services
           /\ svc'.fresh => svc' = svc
           /\ svc'.startupPassed => svc' = svc
           /\ svc'.profile = svc.profile /\ svc'.captured = svc.captured
BY DEF TypeOK, Services, DetachForForeignDaq

\* The labels of the operations are different ones.
LEMMA LabelFacts ==
    /\ \A l \in BulkLabels : l \notin FixLabels \cup PrepLabels \cup CapLabels
          \cup Quiet \cup DOMAIN EndKinds \cup {"captured"} \cup StartupLabels
    /\ \A l \in FixLabels : l \notin BulkLabels \cup PrepLabels \cup CapLabels
          \cup Quiet \cup DOMAIN EndKinds \cup {"captured"} \cup StartupLabels
    /\ \A l \in PrepLabels : l \notin BulkLabels \cup FixLabels \cup CapLabels
          \cup Quiet \cup DOMAIN EndKinds \cup {"captured"} \cup StartupLabels
    /\ \A l \in CapLabels : l \notin BulkLabels \cup FixLabels \cup PrepLabels
          \cup Quiet \cup DOMAIN EndKinds \cup {"captured"} \cup StartupLabels
    /\ \A l \in Quiet \cup DOMAIN EndKinds \cup {"captured"} \cup StartupLabels :
          l \notin BulkLabels \cup FixLabels \cup PrepLabels \cup CapLabels
    /\ DOMAIN EndKinds = {"applied", "startup_applied", "startup_prepared"}
    /\ EndKinds["applied"] = {"bulk", "repair"}
    /\ EndKinds["startup_applied"] = {"bulk"}
    /\ EndKinds["startup_prepared"] = {"prepare"}
BY DEF BulkLabels, BulkBegin, BulkWriting, BulkUndoing, BulkEnding, FixLabels,
       FixBegin, FixWriting, FixUndoing, FixEnding, FixReset, PrepLabels,
       PrepBegin, PrepWriting, PrepReset, PrepUndoing, PrepEnding, CapLabels,
       Quiet, StartupLabels, EndKinds

\* A step within the frame keeps the count of writes under a foreign run
\* within the budget.
LEMMA IntrusionKept ==
    ASSUME TypeOK, IntrusionInv, StepFrame
    PROVE  IntrusionInv'
<1>1. Budget(pc) \in {0, 1, 2} /\ Budget(pc') \in {0, 1, 2}
  BY BudgetNat
<1>2. intrusions \in Nat /\ intrusions' \in Nat /\ hw' \in Hardware
      /\ hw'.daq = hw.daq /\ mvme' = mvme /\ mvme \in Mvme
  BY DEF StepFrame, TypeOK
<1>3. CASE mvme = "running"
  <2>1. hw.daq = 1 /\ intrusions + Budget(pc) <= 2
    BY <1>3 DEF IntrusionInv
  <2>2. intrusions' + Budget(pc') <= intrusions + Budget(pc)
    BY <2>1 DEF StepFrame
  <2>3. intrusions' + Budget(pc') <= 2 /\ intrusions' <= 2
    BY <1>1, <1>2, <2>1, <2>2
  <2> QED
    BY <1>2, <1>3, <2>1, <2>3 DEF IntrusionInv
<1>4. CASE mvme # "running"
  <2>1. hw.daq = 0 /\ intrusions' = intrusions
    BY <1>4 DEF IntrusionInv, StepFrame
  <2> QED
    BY <1>2, <1>4, <2>1 DEF IntrusionInv
<1> QED
  BY <1>3, <1>4

\* A step of a transaction keeps the invariant if it keeps the shape.
LEMMA TransactionKept ==
    ASSUME TypeInv, StepFrame, cap' = cap, op' \in Ops, op'.began = op.began,
           pc \in BulkLabels \cup FixLabels \cup PrepLabels,
           pc' \in BulkLabels \cup FixLabels \cup PrepLabels \cup DOMAIN EndKinds,
           pc' \in BulkLabels => BulkShape(pc', op'),
           pc' \in FixLabels => FixShape(pc', op'),
           pc' \in PrepLabels => PrepShape(pc', op'),
           pc' \in DOMAIN EndKinds =>
              op'.kind \in EndKinds[pc'] /\ op'.state # "none",
           InStartup' => InStartup
    PROVE  TypeInv'
<1>1. TypeOK /\ Located
  BY DEF TypeInv
<1>2. svc' \in {svc, DetachForForeignDaq} /\ mvme' = mvme
  BY DEF StepFrame
<1>3. /\ svc' \in Services /\ (svc'.fresh => svc' = svc)
      /\ (svc'.startupPassed => svc' = svc)
  BY <1>1, <1>2, DetachFacts
<1>4. /\ pc \notin CapLabels \cup Quiet \cup {"captured"}
      /\ pc' \notin CapLabels \cup Quiet \cup {"captured"}
  BY LabelFacts, Zenon DEF Quiet, CapLabels
<1>5. TypeOK'
  <2>1. pc' \in Labels
    BY LabelFacts DEF Labels, StartupLabels
  <2> QED
    BY <1>1, <1>3, <2>1 DEF TypeOK, StepFrame
<1>6. pc # "idle" /\ pc' # "idle" /\ ~svc.startupPassed
  BY <1>1, <1>4 DEF Located, Quiet
<1>7. InStartup' => ~svc'.fresh
  BY <1>1, <1>3 DEF Located
<1>8. Located'
  BY <1>1, <1>2, <1>3, <1>4, <1>6, <1>7 DEF Located, CapShape
<1> QED
  BY <1>5, <1>8 DEF TypeInv

\* A step of an apply keeps the type invariant.
LEMMA BulkKept ==
    ASSUME TypeInv, BulkNext
    PROVE  TypeInv' /\ StepFrame
<1>1. pc \in BulkLabels /\ StepFrame /\ BulkTo(pc', op', op) /\ cap' = cap
  BY BulkNextStep DEF BulkStep
<1>2. op.return \in BulkReturns /\ BulkShape(pc, op)
  BY <1>1, BulkFacts DEF BulkBase
<1>3. op'.return = op.return /\ op'.began = op.began /\ op' \in Ops
  BY <1>1 DEF BulkTo
<1>4. CASE pc' \in BulkLabels
  <2>1. BulkShape(pc', op')
    BY <1>1, <1>4 DEF BulkTo
  <2>2. InStartup' => InStartup
    BY <1>1, <1>3, <1>4, LabelFacts DEF InStartup
  <2> QED
    BY <1>1, <1>3, <1>4, <2>1, <2>2, TransactionKept, LabelFacts
<1>5. CASE pc' \notin BulkLabels
  <2>1. pc' \in BulkReturns /\ pc' = op.return /\ op'.kind = "bulk"
        /\ op'.state # "none"
    BY <1>1, <1>3, <1>5 DEF BulkTo
  <2>2. pc' \in DOMAIN EndKinds /\ op'.kind \in EndKinds[pc']
    BY <2>1, LabelFacts DEF BulkReturns
  <2>3. pc' \notin FixLabels \cup PrepLabels \cup CapLabels
    BY <2>2, LabelFacts
  <2>4. InStartup' => InStartup
    BY <1>1, <1>5, <2>1, <2>3 DEF InStartup, StartupLabels, BulkReturns
  <2> QED
    BY <1>1, <1>3, <1>5, <2>1, <2>2, <2>3, <2>4, TransactionKept
<1> QED
  BY <1>1, <1>4, <1>5

\* A step of a repair keeps the type invariant.
LEMMA RepairKept ==
    ASSUME TypeInv, RepairNext
    PROVE  TypeInv' /\ StepFrame
<1>1. pc \in FixLabels /\ StepFrame /\ FixTo(pc', op', op) /\ cap' = cap
  BY RepairNextStep DEF FixStep
<1>2. op'.began = op.began /\ op' \in Ops /\ pc' \in FixLabels \cup {"applied"}
  BY <1>1 DEF FixTo
<1>3. ~InStartup'
  BY <1>2, LabelFacts DEF InStartup, StartupLabels
<1>4. CASE pc' \in FixLabels
  <2>1. FixShape(pc', op')
    BY <1>1, <1>4 DEF FixTo
  <2> QED
    BY <1>1, <1>2, <1>3, <1>4, <2>1, TransactionKept, LabelFacts
<1>5. CASE pc' = "applied"
  <2>1. op'.kind = "repair" /\ op'.state # "none"
    BY <1>1, <1>5 DEF FixTo
  <2>2. pc' \notin BulkLabels \cup FixLabels \cup PrepLabels
    BY <1>5, LabelFacts
  <2> QED
    BY <1>1, <1>2, <1>3, <1>5, <2>1, <2>2, TransactionKept, LabelFacts
<1> QED
  BY <1>1, <1>2, <1>4, <1>5

\* A step of a preparation keeps the type invariant.
LEMMA PreparationKept ==
    ASSUME TypeInv, PreparationNext
    PROVE  TypeInv' /\ StepFrame
<1>1. pc \in PrepLabels /\ StepFrame /\ PrepTo(pc', op', op) /\ cap' = cap
  BY PreparationNextStep DEF PrepStepTaken
<1>2. op'.began = op.began /\ op' \in Ops
      /\ pc' \in PrepLabels \cup {"startup_prepared"}
  BY <1>1 DEF PrepTo
<1>3. InStartup
  BY <1>1 DEF InStartup
<1>4. CASE pc' \in PrepLabels
  <2>1. PrepShape(pc', op')
    BY <1>1, <1>4 DEF PrepTo
  <2> QED
    BY <1>1, <1>2, <1>3, <1>4, <2>1, TransactionKept, LabelFacts
<1>5. CASE pc' = "startup_prepared"
  <2>1. op'.kind = "prepare" /\ op'.state # "none"
    BY <1>1, <1>5 DEF PrepTo
  <2>2. pc' \notin BulkLabels \cup FixLabels \cup PrepLabels
    BY <1>5, LabelFacts
  <2> QED
    BY <1>1, <1>2, <1>3, <1>5, <2>1, <2>2, TransactionKept, LabelFacts
<1> QED
  BY <1>1, <1>2, <1>4, <1>5

\* A step of a capture keeps the type invariant.
LEMMA CaptureKept ==
    ASSUME TypeInv, CaptureNext
    PROVE  TypeInv' /\ StepFrame
<1>1. pc \in CapLabels /\ CapStep
  BY CaptureNextStep
<1>2. /\ StepFrame /\ op' = op /\ cap' \in Caps /\ cap'.return = cap.return
      /\ CapAt(pc', cap') \/ pc' = cap.return
      /\ svc' \in {svc, DetachForForeignDaq} /\ mvme' = mvme
  BY <1>1 DEF CapStep, StepFrame
<1>3. TypeOK /\ Located /\ CapShape /\ cap.return \in CapReturns \ {"idle"}
  BY <1>1 DEF TypeInv, TypeOK, Located, CapShape, Caps
<1>4. /\ svc' \in Services /\ (svc'.fresh => svc' = svc)
      /\ (svc'.startupPassed => svc' = svc)
  BY <1>2, <1>3, DetachFacts
<1>5. pc \notin Quiet /\ pc # "idle" /\ ~svc.startupPassed /\ ~svc'.startupPassed
  BY <1>1, <1>3, <1>4, LabelFacts DEF Located, Quiet
<1>6. pc' \in CapLabels \/ pc' \in CapReturns \ {"idle"}
  BY <1>2, <1>3 DEF CapAt
<1>7. TypeOK'
  <2>1. pc' \in Labels
    BY <1>6 DEF Labels, CapReturns, BulkLabels, BulkBegin, StartupLabels
  <2> QED
    BY <1>2, <1>3, <1>4, <2>1 DEF TypeOK, StepFrame
<1>8. CASE pc' \in CapLabels
  <2>1. CapAt(pc', cap')
    BY <1>2, <1>3, <1>8 DEF CapReturns, CapLabels
  <2>2. CapShape'
    BY <1>1, <1>2, <1>3, <2>1 DEF CapShape, CapAt
  <2>3. InStartup' => InStartup
    BY <1>1, <1>2, <1>8, LabelFacts DEF InStartup
  <2>4. (pc' = "captured" \/ InStartup'
          \/ (pc' \in CapLabels /\ cap'.return = "captured")) => ~svc'.fresh
    BY <1>1, <1>2, <1>3, <1>4, <1>8, <2>3, LabelFacts DEF Located
  <2>5. pc' \notin BulkLabels \cup FixLabels \cup PrepLabels \cup Quiet
                    \cup DOMAIN EndKinds
    BY <1>8, LabelFacts
  <2>6. Located'
    BY <1>2, <1>3, <1>4, <1>5, <2>2, <2>4, <2>5 DEF Located
  <2> QED
    BY <1>2, <1>7, <2>6 DEF TypeInv
<1>9. CASE pc' \notin CapLabels
  <2>1. pc' = cap.return
    BY <1>2, <1>9 DEF CapAt
  <2>2. /\ pc' \notin FixLabels \cup PrepLabels \cup Quiet \cup DOMAIN EndKinds
        /\ pc' \in BulkLabels => pc' = "bulk_preflight"
    <3>1. pc' \in {"captured", "bulk_preflight", "startup_captured",
                   "startup_final"}
      BY <1>3, <2>1 DEF CapReturns
    <3> QED
      BY <3>1 DEF BulkLabels, BulkBegin, BulkWriting, BulkUndoing, BulkEnding,
           FixLabels, FixBegin, FixWriting, FixUndoing, FixEnding, FixReset,
           PrepLabels, PrepBegin, PrepWriting, PrepReset, PrepUndoing,
           PrepEnding, Quiet, EndKinds
  <2>3. pc' \in BulkLabels => BulkShape(pc', op')
    BY <1>1, <1>2, <1>3, <2>1, <2>2 DEF CapShape
  <2>4. InStartup' => InStartup
    BY <1>1, <1>2, <1>3, <1>9, <2>1, <2>2 DEF InStartup, StartupLabels,
                                              CapReturns
  <2>5. (pc' = "captured" \/ InStartup') => ~svc'.fresh
    BY <1>1, <1>3, <1>4, <2>1, <2>4 DEF Located
  <2>6. Located'
    BY <1>2, <1>3, <1>4, <1>5, <1>9, <2>2, <2>3, <2>5 DEF Located, CapShape
  <2> QED
    BY <1>2, <1>7, <2>6 DEF TypeInv
<1> QED
  BY <1>8, <1>9

----------------------------------------------------------------------------
\* The commands.
ServiceFrame ==
    /\ hw' = hw /\ mvme' = mvme /\ intrusions' = intrusions
    /\ faults' \in Nat /\ Budget(pc') = 0

\* A step of the service, which writes nothing itself, keeps the bound on
\* writes under a foreign run.
LEMMA ServiceIntrusion ==
    ASSUME TypeOK, IntrusionInv, ServiceFrame
    PROVE  IntrusionInv'
<1>1. Budget(pc) \in {0, 1, 2}
  BY BudgetNat
<1>2. intrusions + Budget(pc) <= 2 => intrusions + 0 <= 2
  BY <1>1 DEF TypeOK
<1> QED
  BY <1>2 DEF IntrusionInv, ServiceFrame

\* What a command starts from.
LEMMA ServiceFacts ==
    ASSUME TypeOK
    PROVE  /\ NoOp \in Ops /\ Captured \in Live
           /\ NoCapture \in Caps
           /\ svc.profile \in Configuration /\ svc.profile \in Profiles
           /\ svc.captured \in Live
<1>1. Captured \in Live
  BY DEF TypeOK, Caps, Captured, Live
<1>2. <<>> \in Seq(BankStep)
  OBVIOUS
<1>3. NoOp \in Ops
  BY <1>1, <1>2, QuadFacts DEF TypeOK, NoOp, Ops, OpReturns
<1>4. NoCapture \in Caps
  <2>1. (CHOOSE b \in LiveBanks : TRUE) \in LiveBanks
    BY DEF TypeOK
  <2>2. (CHOOSE b \in LiveBanks : TRUE) \in Banks
    BY <2>1, HardwareAssumption
  <2> QED
    BY <2>2, QuadFacts DEF NoCapture, Caps, CapReturns
<1> QED
  BY <1>1, <1>3, <1>4, ServiceAssumption DEF TypeOK, Services

\* A capture begins.
LEMMA CaptureBegins ==
    ASSUME TypeInv, NEW r \in CapReturns \ {"idle"}, Capture(r)
    PROVE  /\ pc' = "cap_gate" /\ cap' \in Caps /\ cap'.return = r
           /\ cap'.quad = 0 /\ cap'.ok /\ ~cap'.complete
BY ServiceFacts DEF Capture, TypeInv, Caps, NoCapture

\* Starting a capture keeps the type invariant, whoever asked for it.
LEMMA CaptureBeginsKept ==
    ASSUME TypeInv, NEW r \in CapReturns \ {"idle"}, Capture(r), ServiceFrame,
           op' \in Ops, op'.began \in {op.began, mvme}, svc' \in Services,
           ~svc'.startupPassed,
           r # "bulk_preflight" => ~svc'.fresh,
           r = "bulk_preflight" => BulkShape(r, op'),
           r = "bulk_preflight" /\ op'.return = "startup_applied" => ~svc'.fresh
    PROVE  TypeInv'
<1>1. TypeOK /\ Located
  BY DEF TypeInv
<1>2. /\ pc' = "cap_gate" /\ cap' \in Caps /\ cap'.return = r
      /\ cap'.quad = 0 /\ cap'.ok /\ ~cap'.complete
  BY CaptureBegins
<1>3. pc' \in CapLabels
  BY <1>2 DEF CapLabels
<1>4. pc' \notin BulkLabels \cup FixLabels \cup PrepLabels \cup Quiet
                  \cup DOMAIN EndKinds \cup {"captured"} \cup StartupLabels
  BY <1>3, LabelFacts
<1>5. TypeOK'
  BY <1>1, <1>2, <1>3 DEF TypeOK, ServiceFrame, Labels
<1>6. CapShape'
  BY <1>2 DEF CapShape
<1>7. InStartup' => ~svc'.fresh
  BY <1>2, <1>3, <1>4 DEF InStartup
<1>8. /\ mvme' = "away" => op'.began = "away"
      /\ mvme' = "running" => op'.began # "stopped"
  BY <1>1 DEF Located, ServiceFrame
<1>9. Located'
  BY <1>2, <1>4, <1>6, <1>7, <1>8 DEF Located
<1> QED
  BY <1>5, <1>9 DEF TypeInv

\* A command ends, or none has begun.
LEMMA QuietKept ==
    ASSUME TypeInv, ServiceFrame, pc' \in Quiet, op' = op, cap' = cap,
           svc' \in Services,
           svc'.fresh => svc'.captured = Captured,
           svc'.startupPassed =>
               pc' = "idle" /\ svc'.captured.bank = svc'.profile.bank
    PROVE  TypeInv'
<1>1. TypeOK /\ Located
  BY DEF TypeInv
<1>2. pc' \notin BulkLabels \cup FixLabels \cup PrepLabels \cup CapLabels
  BY LabelFacts
<1>3. pc' \notin DOMAIN EndKinds \cup {"captured"} \cup StartupLabels
  BY LabelFacts DEF Quiet, StartupLabels
<1>4. TypeOK'
  BY <1>1 DEF TypeOK, ServiceFrame, Labels
<1>5. CapShape' /\ ~InStartup'
  BY <1>2, <1>3 DEF CapShape, InStartup
<1>6. Captured' = Captured
  BY DEF Captured
<1>7. Located'
  BY <1>1, <1>2, <1>3, <1>5, <1>6 DEF Located, ServiceFrame
<1> QED
  BY <1>4, <1>7 DEF TypeInv

\* A command is taken when idle, leaves the module alone, and finds a fresh
\* capture to be a captured one.
LEMMA CommandFacts ==
    ASSUME TypeInv, Command
    PROVE  /\ TypeOK /\ pc = "idle" /\ hw' = hw /\ mvme' = mvme
           /\ faults' = faults /\ intrusions' = intrusions /\ svc \in Services
           /\ svc.commands + 1 \in Nat
           /\ faults' \in Nat
           /\ svc.fresh => svc.captured = Captured
BY DEF TypeInv, TypeOK, Located, Command, hwVars, Services, Quiet

\* The capture command keeps the type invariant.
LEMMA CaptureConfigurationKept ==
    ASSUME TypeInv, CaptureConfiguration
    PROVE  TypeInv' /\ ServiceFrame
<1>1. Command /\ Capture("captured") /\ op' = op
  BY DEF CaptureConfiguration
<1>2. svc' \in Services /\ ~svc'.fresh /\ ~svc'.startupPassed
  BY <1>1, CommandFacts DEF CaptureConfiguration, Counted, Services
<1>3. ServiceFrame /\ op' \in Ops
  BY <1>1, CommandFacts DEF ServiceFrame, Capture, Budget, TypeOK
<1>4. "captured" \in CapReturns \ {"idle"} /\ "captured" # "bulk_preflight"
  BY DEF CapReturns
<1> QED
  BY <1>1, <1>2, <1>3, <1>4, CaptureBeginsKept

\* The end of the capture command keeps the type invariant.
LEMMA CaptureConfigurationEndsKept ==
    ASSUME TypeInv, CaptureConfigurationEnds
    PROVE  TypeInv' /\ ServiceFrame
<1>1. TypeOK /\ ~svc.startupPassed
  BY DEF CaptureConfigurationEnds, TypeInv, Located
<1>2. /\ svc' \in Services /\ svc'.captured = Captured /\ ~svc'.startupPassed
  <2>1. cap.complete \in BOOLEAN /\ Captured \in Live /\ svc \in Services
    BY <1>1, ServiceFacts DEF TypeOK, Caps
  <2> QED
    BY <1>1, <2>1 DEF CaptureConfigurationEnds, Services
<1>3. ServiceFrame /\ pc' \in Quiet /\ op' = op /\ cap' = cap
  BY <1>1 DEF CaptureConfigurationEnds, ServiceFrame, hwVars, Budget, Quiet,
              TypeOK
<1> QED
  BY <1>2, <1>3, QuietKept

\* Loading a profile keeps the type invariant.
LEMMA LoadProfileKept ==
    ASSUME TypeInv, LoadProfile
    PROVE  TypeInv' /\ ServiceFrame
<1>1. Command /\ pc' = pc /\ op' = op /\ cap' = cap
  BY DEF LoadProfile
<1>2. PICK p \in Profiles :
         svc' = Counted([svc EXCEPT !.profile = p, !.startupPassed = FALSE])
  BY DEF LoadProfile
<1>3. /\ svc' \in Services /\ ~svc'.startupPassed /\ svc'.fresh = svc.fresh
      /\ svc'.captured = svc.captured
  BY <1>1, <1>2, CommandFacts DEF Counted, Services
<1>4. ServiceFrame /\ pc' \in Quiet
  BY <1>1, CommandFacts DEF ServiceFrame, Budget, Quiet
<1> QED
  BY <1>1, <1>3, <1>4, CommandFacts, QuietKept

\* The startup audit (command, gate, end) keeps the type invariant.
LEMMA AuditKept ==
    ASSUME TypeInv,
           RunStartupAudit \/ RunStartupAuditGate \/ RunStartupAuditEnds
    PROVE  TypeInv' /\ ServiceFrame
<1>1. TypeOK /\ pc \in Quiet /\ op' = op /\ cap' = cap /\ pc' \in Quiet
  BY DEF TypeInv, RunStartupAudit, Command, RunStartupAuditGate,
         RunStartupAuditEnds, Gate, Quiet
<1>2. svc.fresh => svc.captured = Captured
  BY <1>1 DEF TypeInv, Located
<1>3. ServiceFrame
  <2>1. hw' = hw /\ mvme' = mvme /\ intrusions' = intrusions
        /\ faults' \in {faults, faults + 1}
    BY DEF RunStartupAudit, Command, RunStartupAuditGate, RunStartupAuditEnds,
           Gate, Read, Failing, hwVars
  <2>2. Budget(pc') = 0
    BY <1>1 DEF Quiet, Budget
  <2> QED
    BY <1>1, <2>1, <2>2 DEF ServiceFrame, TypeOK
<1>4. /\ svc' \in Services /\ ~svc'.startupPassed
      /\ svc'.fresh => svc.fresh /\ svc'.captured = svc.captured
  <2>1. CASE RunStartupAudit
    BY <2>1, CommandFacts DEF RunStartupAudit, Counted, Services
  <2>2. CASE RunStartupAuditGate
    <3>1. svc' \in {svc, DetachForForeignDaq} /\ ~svc.startupPassed
      BY <2>2 DEF RunStartupAuditGate, Gate, TypeInv, Located
    <3> QED
      BY <1>1, <3>1, DetachFacts
  <2>3. CASE RunStartupAuditEnds
    <3>1. svc' \in {svc, [svc EXCEPT !.audited = TRUE]} /\ ~svc.startupPassed
      BY <2>3 DEF RunStartupAuditEnds, Read, TypeInv, Located
    <3> QED
      BY <1>1, <3>1 DEF TypeOK, Services
  <2> QED
    BY <2>1, <2>2, <2>3
<1> QED
  BY <1>1, <1>2, <1>3, <1>4, QuietKept

\* A transaction begins with a gate of its own.
LEMMA TransactionBegins ==
    ASSUME TypeInv, ServiceFrame, op' \in Ops, op'.began = mvme, cap' = cap,
           svc' \in Services, ~svc'.startupPassed,
           \/ pc' = "fix_gate" /\ FixShape(pc', op')
           \/ pc' = "prep_gate" /\ PrepShape(pc', op') /\ ~svc'.fresh
    PROVE  TypeInv'
<1>1. TypeOK /\ Located
  BY DEF TypeInv
<1>2. pc' \in FixLabels \/ pc' \in PrepLabels
  BY DEF FixLabels, FixBegin, PrepLabels, PrepBegin
<1>3. pc' \notin BulkLabels \cup CapLabels \cup Quiet \cup DOMAIN EndKinds
                  \cup {"captured"} \cup StartupLabels
  BY <1>2, LabelFacts
<1>4. /\ pc' = "fix_gate" => pc' \notin PrepLabels
      /\ pc' = "prep_gate" => pc' \notin FixLabels
  BY DEF FixLabels, FixBegin, FixWriting, FixUndoing, FixEnding, FixReset,
         PrepLabels, PrepBegin, PrepWriting, PrepReset, PrepUndoing, PrepEnding
<1>5. TypeOK'
  BY <1>1, <1>2 DEF TypeOK, ServiceFrame, Labels
<1>6. CapShape' /\ (InStartup' => ~svc'.fresh)
  BY <1>3, <1>4 DEF CapShape, InStartup
<1>7. Located'
  BY <1>1, <1>3, <1>4, <1>6 DEF Located, ServiceFrame
<1> QED
  BY <1>5, <1>7 DEF TypeInv

\* Applying one row keeps the type invariant: a repair begins with its one
\* step.
LEMMA ApplyProfileRowKept ==
    ASSUME TypeInv, ApplyProfileRow
    PROVE  TypeInv' /\ ServiceFrame
<1>1. Command /\ svc' = Counted(svc) /\ cap' = cap
  BY DEF ApplyProfileRow
<1>a. PICK d \in BankedDifferences(svc.profile, svc.captured) :
         Repair(svc.captured,
                 [quad |-> d[1], setting |-> d[2],
                  expected |-> svc.captured.bank[d[1]][d[2]],
                  profile |-> svc.profile.bank[d[1]][d[2]]], "applied")
  BY DEF ApplyProfileRow
<1>2. d \in Quads \X Settings
  BY DEF BankedDifferences
<1>3. PICK st : st = [quad |-> d[1], setting |-> d[2],
                      expected |-> svc.captured.bank[d[1]][d[2]],
                      profile |-> svc.profile.bank[d[1]][d[2]]]
  OBVIOUS
<1>4. /\ st \in BankStep
      /\ st.expected = svc.captured.bank[st.quad][st.setting]
  <2>1. TypeOK /\ d[1] \in Quads /\ d[2] \in Settings
    BY <1>2 DEF TypeInv
  <2>2. svc.captured.bank \in Banks /\ svc.profile.bank \in Banks
    BY <2>1, ServiceFacts DEF Live, Configuration
  <2>3. /\ svc.captured.bank[d[1]][d[2]] \in Values
        /\ svc.profile.bank[d[1]][d[2]] \in Values
    BY <2>1, <2>2 DEF Banks, Quad
  <2> QED
    BY <1>3, <2>1, <2>3 DEF BankStep
<1>5. <<st>> \in Seq(BankStep) /\ Len(<<st>>) = 1 /\ <<st>>[1] = st
  BY <1>4
<1>6. /\ pc' = "fix_gate"
      /\ op' = [NoOp EXCEPT !.kind = "repair", !.live = svc.captured,
                            !.steps = <<st>>, !.return = "applied"]
  BY <1>a, <1>3 DEF Repair, Go
<1>7. TypeOK /\ NoOp \in Ops /\ svc.captured \in Live
  BY ServiceFacts DEF TypeInv
<1>8. /\ op' \in Ops /\ op'.kind = "repair" /\ op'.live = svc.captured
      /\ op'.steps = <<st>> /\ op'.return = "applied" /\ op'.next = 1
      /\ op'.owned /\ op'.safe /\ op'.attempted = 0 /\ op'.ok
      /\ ~op'.rollback /\ ~op'.verified /\ op'.restored = 0 /\ ~op'.retained
      /\ op'.selected = NoQuad /\ op'.began = mvme
  <2>1. op' \in Ops
    BY <1>5, <1>6, <1>7 DEF Ops, OpReturns
  <2> QED
    BY <1>6, <2>1 DEF NoOp
<1>9. FixShape(pc', op')
  <2>1. /\ pc' \in FixBegin /\ pc' \notin FixWriting \cup FixUndoing
        /\ pc' \notin FixReset \cup FixEnding /\ pc' # "fix_readback"
    BY <1>6 DEF FixBegin, FixWriting, FixUndoing, FixEnding, FixReset
  <2> QED
    BY <1>4, <1>5, <1>8, <2>1 DEF FixShape, Fresh
<1>10. svc' \in Services /\ ~svc'.startupPassed
  <2>1. svc' \in Services /\ svc'.startupPassed = svc.startupPassed
    BY <1>1, CommandFacts DEF Counted, Services
  <2>2. svc.captured.bank # svc.profile.bank
    BY <1>a DEF BankedDifferences, DiffersAt
  <2> QED
    BY <2>1, <2>2 DEF TypeInv, Located
<1>11. ServiceFrame
  BY <1>1, <1>6, CommandFacts DEF ServiceFrame, Budget
<1> QED
  BY <1>1, <1>6, <1>8, <1>9, <1>10, <1>11, TransactionBegins

\* A bulk application begins with a capture.
LEMMA BulkBegins ==
    ASSUME TypeInv, NEW live \in Live, NEW p \in ValidProfiles,
           NEW steps, steps = Steps(p, live), steps # <<>>,
           NEW r \in BulkReturns, BulkApply(live, steps, r)
    PROVE  /\ op' \in Ops /\ op'.began = mvme /\ op'.return = r
           /\ op'.live = live /\ op'.steps = steps /\ op'.kind = "bulk"
           /\ op'.safe /\ op'.state = "none"
           /\ BulkShape("bulk_preflight", op') /\ Capture("bulk_preflight")
           /\ p.bank # live.bank
<1>1. PlanOf(p, live, Quads, steps)
  <2>1. p.bank \in Banks /\ live.bank \in Banks
    BY ServiceAssumption DEF ValidProfiles, Configuration, Live
  <2> QED
    BY <2>1, StepsPlan
<1>2. steps \in Seq(BankStep) /\ Len(steps) \in Nat
  BY <1>1, LenProperties DEF PlanOf
<1>3. TypeOK /\ NoOp \in Ops
  BY ServiceFacts DEF TypeInv
<1>4. /\ op' = [NoOp EXCEPT !.kind = "bulk", !.live = live, !.steps = steps,
                            !.return = r]
      /\ Capture("bulk_preflight")
  BY DEF BulkApply
<1>5. op' \in Ops
  BY <1>2, <1>3, <1>4 DEF Ops, OpReturns, BulkReturns
<1>6. /\ op'.kind = "bulk" /\ op'.live = live
      /\ op'.steps = steps /\ op'.return = r /\ op'.next = 1
      /\ op'.owned /\ op'.safe /\ op'.attempted = 0 /\ op'.ok
      /\ ~op'.rollback /\ ~op'.verified /\ op'.restored = 0
      /\ op'.selected = NoQuad /\ op'.began = mvme /\ op'.state = "none"
  BY <1>4, <1>5 DEF NoOp
<1>7. BulkShape("bulk_preflight", op')
  BY <1>1, <1>2, <1>6
     DEF BulkShape, BulkReturns, Planned, BulkBegin, BulkWriting, BulkUndoing,
         BulkEnding, Fresh
<1>8. p.bank # live.bank
  <2>1. Len(steps) > 0
    BY <1>2, EmptySeq
  <2>2. PICK st : st = steps[1]
    OBVIOUS
  <2>3. st \in Elements(steps)
    BY <1>2, <2>1, <2>2 DEF Elements
  <2>4. /\ st.expected # st.profile
        /\ \E q \in Quads, s \in Settings : st = StepFor(p, live, q, s)
    BY <1>1, <2>3 DEF PlanOf
  <2> QED
    BY <2>4 DEF StepFor
<1> QED
  BY <1>4, <1>5, <1>6, <1>7, <1>8

\* Applying all differences keeps the type invariant: the apply begins with
\* its plan.
LEMMA ApplyAllDifferencesKept ==
    ASSUME TypeInv, ApplyAllDifferences
    PROVE  TypeInv' /\ ServiceFrame
<1>1. Command /\ svc' = Counted(svc)
  BY DEF ApplyAllDifferences
<1>2. PICK steps : /\ steps = Steps(svc.profile, svc.captured) /\ steps # <<>>
                   /\ BulkApply(svc.captured, steps, "applied")
  BY DEF ApplyAllDifferences
<1>3. svc.captured \in Live /\ svc.profile \in ValidProfiles
  BY ServiceFacts DEF TypeInv, ApplyAllDifferences, ApplicationPlanned, ValidProfiles
<1>4. /\ op' \in Ops /\ op'.began = mvme /\ op'.return = "applied"
      /\ BulkShape("bulk_preflight", op') /\ Capture("bulk_preflight")
      /\ svc.profile.bank # svc.captured.bank
  BY <1>2, <1>3, BulkBegins DEF BulkReturns
<1>5. svc' \in Services /\ ~svc'.startupPassed
  <2>1. svc' \in Services /\ svc'.startupPassed = svc.startupPassed
    BY <1>1, CommandFacts DEF Counted, Services
  <2> QED
    BY <1>4, <2>1 DEF TypeInv, Located
<1>6. ServiceFrame
  BY <1>1, <1>4, CommandFacts DEF ServiceFrame, Budget, Capture
<1>7. "bulk_preflight" \in CapReturns \ {"idle"}
  BY DEF CapReturns
<1> QED
  BY <1>4, <1>5, <1>6, <1>7, CaptureBeginsKept

\* The end of an apply or repair command keeps the type invariant.
LEMMA ApplyEndsKept ==
    ASSUME TypeInv, ApplyEnds
    PROVE  TypeInv' /\ ServiceFrame
<1>1. TypeOK /\ svc \in Services
  BY DEF TypeInv, TypeOK
<1>2. svc' \in Services /\ ~svc'.fresh /\ ~svc'.startupPassed
  BY <1>1 DEF ApplyEnds, Services
<1>3. ServiceFrame /\ pc' \in Quiet /\ op' = op /\ cap' = cap
  BY <1>1 DEF ApplyEnds, ServiceFrame, hwVars, Budget, Quiet, TypeOK
<1> QED
  BY <1>2, <1>3, QuietKept

\* Beginning a deterministic startup keeps the type invariant.
LEMMA RunDeterministicStartupKept ==
    ASSUME TypeInv, RunDeterministicStartup
    PROVE  TypeInv' /\ ServiceFrame
<1>1. Command /\ cap' = cap /\ Prepare("startup_prepared")
  BY DEF RunDeterministicStartup
<1>2. svc' \in Services /\ ~svc'.fresh /\ ~svc'.startupPassed
  BY <1>1, CommandFacts DEF RunDeterministicStartup, Counted, Services
<1>3. /\ pc' = "prep_gate"
      /\ op' = [NoOp EXCEPT !.kind = "prepare", !.return = "startup_prepared"]
  BY <1>1 DEF Prepare, Go
<1>4. TypeOK /\ NoOp \in Ops
  BY ServiceFacts DEF TypeInv
<1>5. op' \in Ops
  BY <1>3, <1>4 DEF Ops, OpReturns
<1>6. /\ op'.kind = "prepare" /\ op'.return = "startup_prepared"
      /\ op'.next = 1 /\ op'.steps = <<>>
      /\ op'.owned /\ op'.safe /\ op'.attempted = 0 /\ op'.ok
      /\ ~op'.rollback /\ ~op'.verified /\ op'.restored = 0
      /\ op'.began = mvme
  BY <1>3, <1>5 DEF NoOp
<1>7. PrepShape(pc', op')
  <2>1. <<>> \in Seq(PrepStep) /\ Len(<<>>) = 0
    OBVIOUS
  <2>2. /\ pc' \in PrepBegin /\ pc' \notin PrepWriting \cup PrepReset
        /\ pc' \notin PrepUndoing \cup PrepEnding
    BY <1>3 DEF PrepBegin, PrepWriting, PrepReset, PrepUndoing, PrepEnding
  <2> QED
    BY <1>6, <2>1, <2>2 DEF PrepShape, Fresh
<1>8. ServiceFrame
  BY <1>1, <1>3, CommandFacts DEF ServiceFrame, Budget
<1> QED
  BY <1>1, <1>2, <1>3, <1>5, <1>6, <1>7, <1>8, TransactionBegins

\* The continuations of the startup.
LEMMA StartupFailsKept ==
    ASSUME TypeInv, StartupFails, UNCHANGED hwVars
    PROVE  TypeInv' /\ ServiceFrame
<1>1. TypeOK /\ svc \in Services
  BY DEF TypeInv, TypeOK
<1>2. svc' \in Services /\ ~svc'.fresh /\ ~svc'.startupPassed
  BY <1>1 DEF StartupFails, Services
<1>3. ServiceFrame /\ pc' \in Quiet /\ op' = op /\ cap' = cap
  BY <1>1 DEF StartupFails, ServiceFrame, hwVars, Budget, Quiet, TypeOK
<1> QED
  BY <1>2, <1>3, QuietKept

\* The captures inside a startup keep the type invariant.
LEMMA StartupCapturesKept ==
    ASSUME TypeInv, InStartup, pc # "idle",
           NEW r \in {"startup_captured", "startup_final"}, StartupCaptures(r),
           UNCHANGED hwVars
    PROVE  TypeInv' /\ ServiceFrame
<1>1. /\ TypeOK /\ svc' = svc /\ ~svc.fresh /\ ~svc.startupPassed /\ op' = op
      /\ Capture(r) /\ svc \in Services /\ op \in Ops
  BY DEF TypeInv, TypeOK, Located, StartupCaptures
<1>2. ServiceFrame
  BY <1>1 DEF ServiceFrame, hwVars, Capture, Budget, TypeOK
<1>3. r \in CapReturns \ {"idle"} /\ r # "bulk_preflight"
  BY DEF CapReturns
<1> QED
  BY <1>1, <1>2, <1>3, CaptureBeginsKept

\* The startup's steps after preparation, capture and apply keep the type
\* invariant.
LEMMA StartupKept ==
    ASSUME TypeInv, StartupPrepared \/ StartupCaptured \/ StartupApplied
    PROVE  TypeInv' /\ ServiceFrame
<1>1. /\ InStartup /\ pc # "idle" /\ UNCHANGED hwVars
  BY DEF StartupPrepared, StartupCaptured, StartupApplied, InStartup,
         StartupLabels
<1>2. CASE \/ StartupFails
           \/ \E r \in {"startup_captured", "startup_final"} : StartupCaptures(r)
  BY <1>1, <1>2, StartupFailsKept, StartupCapturesKept
<1>3. CASE /\ BulkApply(Captured, Steps(svc.profile, Captured), "startup_applied")
           /\ svc' = svc /\ Steps(svc.profile, Captured) # <<>>
           /\ ApplicationPlanned(svc.profile, Captured)
  <2>1. Captured \in Live /\ svc.profile \in ValidProfiles
    BY <1>3, ServiceFacts DEF TypeInv, ApplicationPlanned, ValidProfiles
  <2>2. PICK live, steps : live = Captured /\ steps = Steps(svc.profile, Captured)
    OBVIOUS
  <2>3. /\ op' \in Ops /\ op'.began = mvme
        /\ BulkShape("bulk_preflight", op') /\ Capture("bulk_preflight")
    BY <1>3, <2>1, <2>2, BulkBegins DEF BulkReturns
  <2>4. TypeOK /\ svc' \in Services /\ ~svc'.fresh /\ ~svc'.startupPassed
    BY <1>1, <1>3 DEF TypeInv, TypeOK, Located
  <2>5. ServiceFrame
    BY <1>1, <2>3, <2>4 DEF ServiceFrame, hwVars, Capture, Budget, TypeOK
  <2>6. "bulk_preflight" \in CapReturns \ {"idle"}
    BY DEF CapReturns
  <2> QED
    BY <2>3, <2>4, <2>5, <2>6, CaptureBeginsKept
<1> QED
  BY <1>2, <1>3 DEF StartupPrepared, StartupCaptured, StartupApplied

\* The startup's verdict on its last capture keeps the type invariant.
LEMMA StartupFinalKept ==
    ASSUME TypeInv, StartupFinal
    PROVE  TypeInv' /\ ServiceFrame
<1>1. CASE StartupFails
  BY <1>1, StartupFailsKept DEF StartupFinal
<1>2. CASE ~StartupFails
  <2>1. /\ SameConfiguration(svc.profile, Captured) /\ pc' = "idle"
        /\ svc' = [svc EXCEPT !.startupPassed = TRUE, !.captured = Captured,
                              !.complete = TRUE, !.fresh = TRUE]
        /\ op' = op /\ cap' = cap /\ UNCHANGED hwVars
    BY <1>2 DEF StartupFinal
  <2>2. TypeOK /\ Captured \in Live /\ svc.profile \in Configuration
    BY ServiceFacts DEF TypeInv
  <2>3. Captured.bank = svc.profile.bank
    <3>1. \A q \in Quads, s \in Settings :
             svc.profile.bank[q][s] = Captured.bank[q][s]
      <4>1. BankedDifferences(svc.profile, Captured) = {}
        BY <2>1 DEF SameConfiguration
      <4>2. SUFFICES ASSUME NEW q \in Quads, NEW s \in Settings,
                            svc.profile.bank[q][s] # Captured.bank[q][s]
                     PROVE  FALSE
        OBVIOUS
      <4>3. <<q, s>> \in BankedDifferences(svc.profile, Captured)
        BY <4>2 DEF BankedDifferences, DiffersAt
      <4> QED
        BY <4>1, <4>3
    <3> QED
      BY <2>2, <3>1, BanksEqual DEF Live, Configuration
  <2>4. /\ svc' \in Services /\ svc'.captured = Captured
        /\ svc'.profile = svc.profile
    BY <2>1, <2>2 DEF TypeOK, Services
  <2>5. ServiceFrame /\ pc' \in Quiet
    BY <2>1, <2>2 DEF ServiceFrame, hwVars, Budget, Quiet, TypeOK
  <2> QED
    BY <2>1, <2>3, <2>4, <2>5, QuietKept
<1> QED
  BY <1>1, <1>2

\* Every step of the service keeps the type invariant.
LEMMA ServiceKept ==
    ASSUME TypeInv, ServiceNext
    PROVE  TypeInv' /\ ServiceFrame
BY CaptureConfigurationKept, CaptureConfigurationEndsKept, LoadProfileKept,
   AuditKept, ApplyProfileRowKept, ApplyAllDifferencesKept, ApplyEndsKept,
   RunDeterministicStartupKept, StartupKept, StartupFinalKept DEF ServiceNext

\* MVME starts and stops.
LEMMA MvmeKept ==
    ASSUME TypeInv, IntrusionInv, MvmeStart \/ MvmeStop
    PROVE  TypeInv' /\ IntrusionInv'
<1>1. /\ faults' = faults /\ intrusions' = intrusions /\ pc' = pc /\ op' = op
      /\ cap' = cap /\ svc' = svc
  BY DEF MvmeStart, MvmeStop
<1>2. TypeOK /\ Located /\ hw \in Hardware /\ op.began \in Mvme
  BY DEF TypeInv, TypeOK, Ops
<1>3. \/ /\ mvme = "away" /\ mvme' = "running" /\ hw' \in Hardware /\ hw'.daq = 1
      \/ /\ mvme = "running" /\ mvme' = "stopped" /\ hw' \in Hardware
         /\ hw'.daq = 0
  <2>1. CASE MvmeStart
    <3>1. PICK b \in LiveBanks :
             hw' = [hw EXCEPT !.daq = 1, !.acq = 1, !.selector = 0, !.bank = b]
      BY <2>1 DEF MvmeStart
    <3>2. b \in Banks /\ 0 \in Quads
      BY HardwareAssumption, QuadFacts
    <3> QED
      BY <1>2, <2>1, <3>1, <3>2 DEF MvmeStart, Hardware
  <2>2. CASE MvmeStop
    BY <1>2, <2>2 DEF MvmeStop, Hardware
  <2> QED
    BY <2>1, <2>2
<1>4. TypeOK'
  BY <1>1, <1>2, <1>3 DEF TypeOK, Mvme
<1>5. InStartup' = InStartup /\ Captured' = Captured
  BY <1>1 DEF InStartup, Captured
<1>6. CapShape'
  BY <1>1, <1>2 DEF Located, CapShape
<1>7. Located'
  BY <1>1, <1>2, <1>3, <1>5, <1>6 DEF Located
<1>8. IntrusionInv'
  <2>1. Budget(pc) \in {0, 1, 2}
    BY BudgetNat
  <2> QED
    BY <1>1, <1>3, <2>1 DEF IntrusionInv
<1> QED
  BY <1>4, <1>7, <1>8 DEF TypeInv

\* The initial states satisfy the type invariant, and no write has met a
\* foreign run.
LEMMA TypeInit ==
    ASSUME Init
    PROVE  TypeInv /\ IntrusionInv
<1>1. /\ hw \in Hardware /\ hw.daq = 0 /\ mvme = "away" /\ faults = 0
      /\ intrusions = 0 /\ LiveBanks # {}
  BY HardwareAssumption, QuadFacts DEF Init, HardwareInit, Hardware
<1>2. NoCapture \in Caps /\ NoCapture.return = "idle"
  <2>1. (CHOOSE b \in LiveBanks : TRUE) \in Banks
    BY <1>1, HardwareAssumption
  <2> QED
    BY <2>1, QuadFacts DEF NoCapture, Caps, CapReturns
<1>3. Captured \in Live
  BY <1>2 DEF Init, Captured, Caps, Live
<1>4. op \in Ops /\ op.began = mvme
  <2>1. <<>> \in Seq(BankStep)
    OBVIOUS
  <2> QED
    BY <1>1, <1>3, <2>1, QuadFacts DEF Init, NoOp, Ops, OpReturns, Mvme
<1>5. svc \in Services /\ ~svc.fresh /\ ~svc.startupPassed
  <2>1. svc \in [ownership : {"open"}, audited : {FALSE}, complete : {FALSE},
                 fresh : {FALSE}, captured : {Captured}, profile : Profiles,
                 startupPassed : {FALSE}, commands : {0}]
    BY DEF Init
  <2>2. /\ {"open"} \subseteq {"open", "lost"} /\ {FALSE} \subseteq BOOLEAN
        /\ {Captured} \subseteq Live /\ {0} \subseteq Nat
    BY <1>3
  <2>3. svc \in Services
    BY <2>1, <2>2 DEF Services
  <2>4. svc.fresh = FALSE /\ svc.startupPassed = FALSE
    BY <2>1
  <2> QED
    BY <2>3, <2>4
<1>6. pc = "idle" /\ pc \in Quiet /\ cap \in Caps
  BY <1>2 DEF Init, Quiet
<1>7. TypeOK
  BY <1>1, <1>4, <1>5, <1>6 DEF TypeOK, Labels, Mvme
<1>8. /\ pc \notin BulkLabels \cup FixLabels \cup PrepLabels \cup CapLabels
      /\ pc \notin DOMAIN EndKinds \cup {"captured"} \cup StartupLabels
  BY <1>6, LabelFacts DEF StartupLabels
<1>9. CapShape /\ ~InStartup
  BY <1>8 DEF CapShape, InStartup
<1>10. Located
  BY <1>1, <1>4, <1>5, <1>8, <1>9 DEF Located
<1>11. IntrusionInv
  BY <1>1 DEF IntrusionInv
<1> QED
  BY <1>7, <1>10, <1>11 DEF TypeInv

\* Every step keeps the type invariant and the bound on writes under a foreign
\* run.
LEMMA TypeKept ==
    ASSUME TypeInv, IntrusionInv, [Next]_vars
    PROVE  TypeInv' /\ IntrusionInv'
<1>1. TypeOK
  BY DEF TypeInv
<1>2. CASE BulkNext \/ RepairNext \/ PreparationNext \/ CaptureNext
  BY <1>1, <1>2, BulkKept, RepairKept, PreparationKept, CaptureKept, IntrusionKept
<1>3. CASE ServiceNext
  BY <1>1, <1>3, ServiceKept, ServiceIntrusion
<1>4. CASE MvmeStart \/ MvmeStop
  BY <1>4, MvmeKept
<1>5. CASE UNCHANGED vars
  <2>1. /\ hw' = hw /\ mvme' = mvme /\ faults' = faults
        /\ intrusions' = intrusions /\ pc' = pc /\ op' = op /\ cap' = cap
        /\ svc' = svc
    BY <1>5 DEF vars
  <2> QED
    BY <2>1 DEF TypeInv, TypeOK, Located, CapShape, InStartup, Captured,
                IntrusionInv
<1> QED
  BY <1>2, <1>3, <1>4, <1>5 DEF Next, Done

\* Once MVME runs, FIDGET sends no more than the two writes that follow one
\* gate: a capture, an application, a repair, the preparation and their
\* rollbacks look at the DAQ mode before every further write
\* (CheckApplyOwnershipGate).
THEOREM BoundedIntrusion == Spec => []IntrusionIsBounded
<1>1. Init => TypeInv /\ IntrusionInv
  BY TypeInit
<1>2. TypeInv /\ IntrusionInv /\ [Next]_vars => TypeInv' /\ IntrusionInv'
  BY TypeKept
<1>3. TypeInv /\ IntrusionInv => IntrusionIsBounded
  BY DEF IntrusionInv, IntrusionIsBounded
<1> QED
  BY <1>1, <1>2, <1>3, PTL DEF Spec

----------------------------------------------------------------------------
(***************************************************************************)
(*            10. What an application does to the banks                    *)
(***************************************************************************)
\* Nothing more than one step is half done.
LEMMA BankWeaker ==
    ASSUME NEW o, NEW h, NEW k \in Int, NEW m \in Int, NEW j \in Int, NEW n \in Int,
           BankAt(o, h, k, m), j <= k, m <= n, Len(o.steps) \in Nat
    PROVE  BankAt(o, h, j, n)
BY DEF BankAt

\* How far a plan is written depends on its steps, its live values and the
\* banks only.
LEMMA BankUnchanged ==
    ASSUME NEW o, NEW b, NEW h, NEW g, NEW k, NEW m, BankAt(o, h, k, m),
           b.steps = o.steps, b.live = o.live, g.bank = h.bank
    PROVE  BankAt(b, g, k, m)
BY DEF BankAt, Holds, Elsewhere

\* The write of a step, of the new value or of the old one.
LEMMA BankWritten ==
    ASSUME op \in Ops, Planned(op), op.next \in 1 .. Len(op.steps),
           BankAt(op, hw, op.next - 1, op.next),
           hw.selector = op.steps[op.next].quad,
           NEW v \in {op.steps[op.next].expected, op.steps[op.next].profile},
           \A q \in Quads, t \in Settings :
              hw'.bank[q][t] =
                 IF q = hw.selector /\ t = op.steps[op.next].setting
                   THEN v ELSE hw.bank[q][t]
    PROVE  BankAt(op, hw', op.next - 1, op.next)
<1>1. PICK p \in ValidProfiles : PlanOf(p, op.live, Quads, op.steps)
  BY DEF Planned
<1>0. PICK n \in 1 .. Len(op.steps) : n = op.next
  OBVIOUS
<1>2. /\ Len(op.steps) \in Nat
      /\ \A i \in 1 .. Len(op.steps) :
            op.steps[i].quad \in Quads /\ op.steps[i].setting \in Settings
      /\ \A i, j \in 1 .. Len(op.steps) :
            i # j /\ op.steps[i].quad = op.steps[j].quad =>
               op.steps[i].setting # op.steps[j].setting
  BY <1>1, PlanFacts DEF BankStep
<1>3. Holds(op, hw', n) = v
  BY <1>0, <1>2 DEF Holds
<1>4. ASSUME NEW i \in 1 .. Len(op.steps), i # n
      PROVE  Holds(op, hw', i) = Holds(op, hw, i)
  <2>1. op.steps[i].quad \in Quads /\ op.steps[i].setting \in Settings
    BY <1>2
  <2>2. ~(/\ op.steps[i].quad = hw.selector
          /\ op.steps[i].setting = op.steps[op.next].setting)
    BY <1>0, <1>2, <1>4
  <2> QED
    BY <2>1, <2>2 DEF Holds
<1>5. \A q \in Quads, s \in Settings :
         Elsewhere(op, q, s) => hw'.bank[q][s] = hw.bank[q][s]
  BY <1>0, <1>2 DEF Elsewhere
<1>6. ASSUME NEW i \in 1 .. Len(op.steps)
      PROVE  /\ i <= n - 1 => Holds(op, hw', i) = op.steps[i].profile
             /\ i > n => Holds(op, hw', i) = op.steps[i].expected
             /\ Holds(op, hw', i) \in {op.steps[i].expected, op.steps[i].profile}
  BY <1>0, <1>2, <1>3, <1>4 DEF BankAt
<1> QED
  BY <1>0, <1>5, <1>6 DEF BankAt

\* A value that has been read back.
LEMMA BankReadBack ==
    ASSUME NEW o, NEW h, Len(o.steps) \in Nat, NEW n \in 1 .. Len(o.steps),
           BankAt(o, h, n - 1, n)
    PROVE  /\ Holds(o, h, n) = o.steps[n].profile => BankAt(o, h, n, n)
           /\ Holds(o, h, n) = o.steps[n].expected => BankAt(o, h, n - 2, n - 1)
<1>1. ASSUME Holds(o, h, n) = o.steps[n].profile
      PROVE  BankAt(o, h, n, n)
  BY <1>1 DEF BankAt
<1>2. ASSUME Holds(o, h, n) = o.steps[n].expected
      PROVE  BankAt(o, h, n - 2, n - 1)
  BY <1>2 DEF BankAt
<1> QED
  BY <1>1, <1>2

\* What the order of the two coupled writes is for: with at most one step half
\* done, a pair that was valid is valid.
LEMMA PairValid ==
    ASSUME NEW o \in Ops, Planned(o), NEW h \in Hardware,
           NEW k \in Int, NEW m \in Int, m <= k + 1, BankAt(o, h, k, m),
           NEW q \in Quads, Coupled(o.live.bank[q])
    PROVE  Coupled(h.bank[q])
<1>1. PICK p \in ValidProfiles : PlanOf(p, o.live, Quads, o.steps)
  BY DEF Planned
<1>2. PICK lc, lb, nc, nb, hc, hb :
         /\ lc = o.live.bank[q][Constrained] /\ lb = o.live.bank[q][Boundary]
         /\ nc = p.bank[q][Constrained] /\ nb = p.bank[q][Boundary]
         /\ hc = h.bank[q][Constrained] /\ hb = h.bank[q][Boundary]
  OBVIOUS
<1>3. Constrained \in Settings /\ Boundary \in Settings /\ Constrained # Boundary
  BY DEF Constrained, Boundary, Settings
<1>4. /\ lc \in Nat /\ lb \in Nat /\ nc \in Nat /\ nb \in Nat
      /\ hc \in Nat /\ hb \in Nat
  <2>1. o.live.bank \in Banks /\ p.bank \in Banks /\ h.bank \in Banks
    BY <1>1, PlanFacts DEF Hardware
  <2> QED
    BY <1>2, <1>3, <2>1, PlanAssumption DEF Banks, Quad, Values
<1>5. lc <= lb /\ nc <= nb
  BY <1>1, <1>2, PlanFacts DEF Coupled, DependencySatisfied
<1>6. Len(o.steps) \in Nat
  BY <1>1, PlanFacts
<1>7. ASSUME NEW s \in Settings, ~Elsewhere(o, q, s)
      PROVE  \E i \in 1 .. Len(o.steps) :
                /\ o.steps[i].quad = q /\ o.steps[i].setting = s
                /\ h.bank[q][s] \in {o.live.bank[q][s], p.bank[q][s]}
                /\ h.bank[q][s] # p.bank[q][s] => i > k
                /\ h.bank[q][s] # o.live.bank[q][s] => i <= m
  <2>1. PICK i \in 1 .. Len(o.steps) :
           o.steps[i].quad = q /\ o.steps[i].setting = s
    BY <1>7 DEF Elsewhere
  <2>2. /\ o.steps[i].expected = o.live.bank[q][s]
        /\ o.steps[i].profile = p.bank[q][s]
    BY <1>1, <2>1, PlanFacts
  <2>3. Holds(o, h, i) = h.bank[q][s]
    BY <2>1 DEF Holds
  <2> QED
    BY <1>6, <2>1, <2>2, <2>3 DEF BankAt
<1>8. ASSUME NEW s \in Settings, Elsewhere(o, q, s)
      PROVE  /\ h.bank[q][s] = o.live.bank[q][s]
             /\ h.bank[q][s] = p.bank[q][s]
  BY <1>1, <1>8, PlanFacts DEF BankAt
<1>9. hc \in {lc, nc} /\ hb \in {lb, nb}
  BY <1>2, <1>3, <1>7, <1>8
<1>10. SUFFICES ASSUME ~(hc <= hb) PROVE FALSE
  BY <1>2 DEF Coupled, DependencySatisfied
<1>11. CASE nc <= lb
  <2>1. hc # nc /\ hb # lb
    BY <1>4, <1>5, <1>9, <1>10, <1>11
  <2>2. PICK i \in 1 .. Len(o.steps) :
           o.steps[i].quad = q /\ o.steps[i].setting = Constrained /\ i > k
    BY <1>2, <1>3, <1>7, <1>8, <2>1
  <2>3. PICK j \in 1 .. Len(o.steps) :
           o.steps[j].quad = q /\ o.steps[j].setting = Boundary /\ j <= m
    BY <1>2, <1>3, <1>7, <1>8, <2>1
  <2>4. j < i \/ i = j
    BY <1>6, <2>2, <2>3
  <2>5. i # j
    BY <1>3, <2>2, <2>3
  <2>6. Precedes(p, o.live, q, Boundary, Constrained)
    BY <1>1, <2>2, <2>3, <2>4, <2>5 DEF PlanOf, Ordered
  <2> QED
    BY <1>2, <1>11, <2>6 DEF Precedes, Constrained, Boundary
<1>12. CASE ~(nc <= lb)
  <2>1. hc # lc /\ hb # nb
    BY <1>4, <1>5, <1>9, <1>10, <1>12
  <2>2. PICK i \in 1 .. Len(o.steps) :
           o.steps[i].quad = q /\ o.steps[i].setting = Boundary /\ i > k
    BY <1>2, <1>3, <1>7, <1>8, <2>1
  <2>3. PICK j \in 1 .. Len(o.steps) :
           o.steps[j].quad = q /\ o.steps[j].setting = Constrained /\ j <= m
    BY <1>2, <1>3, <1>7, <1>8, <2>1
  <2>4. j < i \/ i = j
    BY <1>6, <2>2, <2>3
  <2>5. i # j
    BY <1>3, <2>2, <2>3
  <2>6. Precedes(p, o.live, q, Constrained, Boundary)
    BY <1>1, <2>2, <2>3, <2>4, <2>5 DEF PlanOf, Ordered
  <2> QED
    BY <1>2, <1>12, <2>6 DEF Precedes, Constrained, Boundary
<1> QED
  BY <1>11, <1>12

----------------------------------------------------------------------------
(***************************************************************************)
(*              11. A bulk application and the module                      *)
(***************************************************************************)
\* What stays of the transaction from step to step.
Kin(new, o) ==
    /\ new.live = o.live /\ new.steps = o.steps /\ new.kind = o.kind
    /\ new.safe => o.safe

\* What the registers say at the next label of an application, or at its end.
BulkHolds(l, o, h) ==
    /\ l \in BulkLabels => BulkSays(l, o, h)
    /\ l \in BulkReturns =>
          /\ o.state = "passed" =>
                /\ BankAt(o, h, Len(o.steps), Len(o.steps))
                /\ h.selector = 0 /\ h.acq = 0 /\ h.readout = "clean"
          /\ o.state = "failed" /\ o.verified => BankAt(o, h, 0, 0)
BulkLeft(o) == BulkHolds(pc', op', hw') /\ Kin(op', o)

\* The end of an application.
LEMMA BulkReturnSays ==
    ASSUME NEW o, BulkBase(o), BulkReturn(o),
           BulkPassed(o) =>
              /\ BankAt(o, hw', Len(o.steps), Len(o.steps))
              /\ hw'.selector = 0 /\ hw'.acq = 0 /\ hw'.readout = "clean",
           o.verified => BankAt(o, hw', 0, 0)
    PROVE  BulkLeft(o)
<1>1. /\ pc' = o.return /\ op' \in Ops /\ Kin(op', o)
      /\ op'.verified = o.verified
      /\ op'.state = "passed" => BulkPassed(o)
  BY DEF BulkReturn, Go, BulkBase, Ops, Kin
<1>2. pc' \notin BulkLabels
  BY <1>1 DEF BulkBase, BulkReturns, BulkLabels, BulkBegin, BulkWriting,
              BulkUndoing, BulkEnding
<1>3. op'.state = "passed" => BankAt(op', hw', Len(op'.steps), Len(op'.steps))
  BY <1>1, BankUnchanged DEF Kin
<1>4. op'.verified => BankAt(op', hw', 0, 0)
  BY <1>1, BankUnchanged DEF Kin
<1> QED
  BY <1>1, <1>2, <1>3, <1>4 DEF BulkLeft, BulkHolds

\* The end of a rollback, and a rollback that goes on.
LEMMA RollbackEndSays ==
    ASSUME NEW o, BulkBase(o), o.rollback, ~o.ok, RollbackEnd(o),
           o.safe /\ o.restored = o.attempted => BankAt(o, hw', 0, 0),
           o.stopVerified => hw'.acq = 0
    PROVE  BulkLeft(o)
<1>1. PICK done : done = [o EXCEPT !.verified = o.safe /\ o.restored = o.attempted]
  OBVIOUS
<1>2. /\ BulkBase(done) /\ done.rollback /\ ~done.ok /\ Kin(done, o)
      /\ done.owned = o.owned /\ done.stopVerified = o.stopVerified
      /\ done.verified = (o.safe /\ o.restored = o.attempted)
  BY <1>1 DEF BulkBase, Ops, Planned, Kin
<1>3. done.verified => BankAt(done, hw', 0, 0)
  BY <1>2, BankUnchanged DEF Kin
<1>4. CASE o.owned
  <2>1. pc' = "bulk_park_gate" /\ op' = done
    BY <1>1, <1>4 DEF RollbackEnd, Go
  <2>2. BulkSays("bulk_park_gate", done, hw')
    BY <1>2, <1>3 DEF BulkSays, BulkBegin, BulkWriting, BulkUndoing, BulkEnding
  <2> QED
    BY <1>2, <2>1, <2>2 DEF BulkLeft, BulkHolds, BulkReturns
<1>5. CASE ~o.owned
  <2>1. BulkReturn(done) /\ ~BulkPassed(done)
    BY <1>1, <1>2, <1>5 DEF RollbackEnd, BulkPassed
  <2>2. BulkLeft(done)
    BY <1>2, <1>3, <2>1, BulkReturnSays
  <2> QED
    BY <1>2, <2>2 DEF BulkLeft, Kin
<1> QED
  BY <1>4, <1>5

\* Where a rollback goes next, the registers are written back down to the step
\* it is at.
LEMMA RollbackSays ==
    ASSUME NEW o, BulkBase(o), o.rollback, ~o.ok, o.owned, ~o.verified,
           o.next \in 0 .. o.attempted, Rollback(o),
           o.safe => BankAt(o, hw', o.next - 1, o.next),
           o.next # 0 /\ o.selected # NoQuad => hw'.selector = o.selected,
           o.stopVerified => hw'.acq = 0
    PROVE  BulkLeft(o)
<1>0. Len(o.steps) \in Nat /\ o.attempted \in Nat
  BY BulkStepFacts DEF BulkBase, Ops
<1>1. CASE o.next = 0
  <2>1. o.safe => BankAt(o, hw', 0, 0)
    BY <1>0, <1>1 DEF BankAt
  <2> QED
    BY <1>1, <2>1, RollbackEndSays DEF Rollback
<1>2. CASE o.next # 0
  <2>1. /\ op' = o /\ pc' \in {"bulk_undo_bank_gate", "bulk_undo_gate"}
    BY <1>2 DEF Rollback, Go
  <2>2. BulkSays(pc', o, hw')
    BY <1>2, <2>1 DEF BulkSays, BulkBegin, BulkWriting, BulkUndoing, BulkEnding
  <2> QED
    BY <2>1, <2>2 DEF BulkLeft, BulkHolds, Kin, BulkReturns
<1> QED
  BY <1>1, <1>2

\* An application that ends, with a rollback or without.
LEMMA BulkEndSays ==
    ASSUME NEW o, BulkBase(o), BulkEnd(o),
           ~o.rollback => ~o.verified,
           ~o.ok /\ ~o.rollback /\ o.attempted > 0 =>
              /\ BankAt(o, hw', o.attempted - 1, o.attempted)
              /\ o.stopVerified => hw'.acq = 0,
           BulkPassed(o) =>
              /\ BankAt(o, hw', Len(o.steps), Len(o.steps))
              /\ hw'.selector = 0 /\ hw'.acq = 0 /\ hw'.readout = "clean",
           o.verified => BankAt(o, hw', 0, 0)
    PROVE  BulkLeft(o)
<1>1. CASE ~o.ok /\ o.owned /\ o.attempted > 0 /\ ~o.rollback
  <2>1. PICK b : b = [o EXCEPT !.rollback = TRUE, !.retained = FALSE,
                               !.selected = NoQuad, !.next = o.attempted]
    OBVIOUS
  <2>2. /\ b \in Ops /\ b.return = o.return
        /\ b.kind = o.kind /\ b.live = o.live /\ b.steps = o.steps
        /\ b.attempted = o.attempted /\ b.ok = o.ok /\ b.owned = o.owned
        /\ b.verified = o.verified /\ b.safe = o.safe
        /\ b.rollback /\ b.next = o.attempted /\ b.selected = NoQuad
        /\ b.stopVerified = o.stopVerified
    BY <2>1, QuadFacts DEF BulkBase, Ops
  <2>3. BulkBase(b) /\ b.next \in 0 .. b.attempted
    BY <1>1, <2>2 DEF BulkBase, Ops, Planned
  <2>4. Rollback(b)
    BY <1>1, <2>1 DEF BulkEnd
  <2>5. BankAt(b, hw', b.next - 1, b.next)
    BY <1>1, <2>2, BankUnchanged
  <2>6. BulkLeft(b)
    BY <1>1, <2>2, <2>3, <2>4, <2>5, RollbackSays
  <2> QED
    BY <2>2, <2>6 DEF BulkLeft, Kin
<1>2. CASE ~(~o.ok /\ o.owned /\ o.attempted > 0 /\ ~o.rollback)
  BY <1>2, BulkReturnSays DEF BulkEnd
<1> QED
  BY <1>1, <1>2

\* The next step on the way forward.
LEMMA ForwardSays ==
    ASSUME NEW o, BulkBase(o), Fresh(o), o.next \in 1 .. Len(o.steps) + 1,
           Forward(o), BankAt(o, hw', o.next - 1, o.next - 1),
           o.selected # NoQuad => hw'.selector = o.selected,
           o.stopVerified => hw'.acq = 0
    PROVE  BulkLeft(o)
<1>1. PICK b : b = [o EXCEPT !.retained = o.next > Len(o.steps)]
  OBVIOUS
<1>2. /\ Fresh(b) /\ Kin(b, o) /\ b.next = o.next /\ b.selected = o.selected
      /\ b.stopVerified => o.stopVerified
  BY <1>1 DEF BulkBase, Ops, Kin, Fresh
<1>3. pc' = ForwardAt(o) /\ op' = b
  BY <1>1 DEF Forward, Go
<1>4. Len(o.steps) \in Nat
  BY BulkStepFacts
<1>5. BankAt(b, hw', b.next - 1, b.next - 1)
  BY <1>2, BankUnchanged DEF Kin
<1>6. ~b.rollback /\ ~b.verified
  BY <1>2 DEF Fresh
<1>7. BulkSays(pc', b, hw')
  <2>1. CASE o.next > Len(o.steps)
    <3>1. pc' = "bulk_park_gate" /\ b.next - 1 = Len(b.steps)
      BY <1>2, <1>3, <1>4, <2>1 DEF ForwardAt, Kin
    <3> QED
      BY <1>2, <1>5, <1>6, <3>1
         DEF BulkSays, BulkBegin, BulkWriting, BulkUndoing, BulkEnding
  <2>2. CASE ~(o.next > Len(o.steps))
    <3>1. pc' \in {"bulk_bank_gate", "bulk_write_gate"}
      BY <1>3, <2>2 DEF ForwardAt
    <3> QED
      BY <1>2, <1>5, <1>6, <3>1
         DEF BulkSays, BulkBegin, BulkWriting, BulkUndoing, BulkEnding
  <2> QED
    BY <2>1, <2>2
<1>8. pc' \notin BulkReturns
  BY <1>3 DEF ForwardAt, BulkReturns
<1> QED
  BY <1>2, <1>3, <1>7, <1>8 DEF BulkLeft, BulkHolds

\* What a step of an application leaves of the module.
BulkModuleStep ==
    /\ BulkLeft(op) /\ hw'.irq = hw.irq /\ hw'.mblt = hw.mblt
    /\ hw.acq = 0 => hw'.acq = 0
    /\ \/ hw'.bank = hw.bank
       \/ op.safe => BankAt(op, hw', op.next - 1, op.next)
SameModule ==
    /\ hw'.bank = hw.bank /\ hw'.irq = hw.irq /\ hw'.mblt = hw.mblt
    /\ hw.acq = 0 => hw'.acq = 0

\* Marking an apply failed or refused keeps what says how far it was written.
LEMMA BulkKin ==
    ASSUME NEW o, BulkBase(o)
    PROVE  \A f \in {Failed(o), Refused(o), [Refused(o) EXCEPT !.safe = FALSE]} :
              /\ Kin(f, o) /\ ~f.ok
              /\ f.stopVerified => o.stopVerified
              /\ f.next = o.next /\ f.selected = o.selected
<1>1. SUFFICES ASSUME NEW f, f \in {Failed(o), Refused(o),
                                    [Refused(o) EXCEPT !.safe = FALSE]}
               PROVE  /\ Kin(f, o) /\ ~f.ok
                      /\ f.stopVerified => o.stopVerified
                      /\ f.next = o.next /\ f.selected = o.selected
  OBVIOUS
<1>2. CASE f = Failed(o)
  BY <1>2 DEF Failed, Kin, BulkBase, Ops
<1>3. CASE f = Refused(o)
  BY <1>3 DEF Refused, Kin, BulkBase, Ops
<1>4. CASE f = [Refused(o) EXCEPT !.safe = FALSE]
  BY <1>4 DEF Refused, Kin, BulkBase, Ops
<1> QED
  BY <1>1, <1>2, <1>3, <1>4

\* An application that fails on its way forward.
LEMMA BulkFailsSays ==
    ASSUME NEW o, BulkBase(o), ~o.rollback => ~o.verified,
           ~o.rollback /\ o.attempted > 0 =>
              /\ BankAt(o, hw', o.attempted - 1, o.attempted)
              /\ o.stopVerified => hw'.acq = 0,
           o.verified => BankAt(o, hw', 0, 0),
           BulkEnd(Failed(o)) \/ BulkEnd(Refused(o))
    PROVE  BulkLeft(o)
<1>1. PICK f \in {Failed(o), Refused(o)} : BulkEnd(f)
  OBVIOUS
<1>2. /\ BulkBase(f) /\ ~f.ok /\ f.rollback = o.rollback
      /\ f.verified = o.verified /\ f.attempted = o.attempted
  BY <1>1, BulkFailedFacts
<1>3. Kin(f, o) /\ (f.stopVerified => o.stopVerified)
  <2>1. CASE f = Failed(o)
    BY <2>1, BulkKin
  <2>2. CASE f = Refused(o)
    BY <2>2, BulkKin
  <2> QED
    BY <1>1, <2>1, <2>2
<1>4. f.verified => BankAt(f, hw', 0, 0)
  BY <1>2, <1>3, BankUnchanged DEF Kin
<1>5. ~f.rollback /\ f.attempted > 0 =>
         BankAt(f, hw', f.attempted - 1, f.attempted)
  BY <1>2, <1>3, BankUnchanged DEF Kin
<1>6. ~BulkPassed(f)
  BY <1>2 DEF BulkPassed
<1>7. BulkLeft(f)
  BY <1>1, <1>2, <1>3, <1>4, <1>5, <1>6, BulkEndSays
<1> QED
  BY <1>3, <1>7 DEF BulkLeft, Kin

\* The same, where the banks are as they were.
LEMMA BulkFailsHere ==
    ASSUME TypeInv, pc \in BulkBegin \cup BulkWriting \cup BulkEnding,
           pc # "bulk_preflight", BulkSays(pc, op, hw), SameModule,
           BulkEnd(Failed(op)) \/ BulkEnd(Refused(op))
    PROVE  BulkLeft(op)
<1>1. pc \in BulkLabels /\ pc \notin BulkUndoing
  BY DEF BulkLabels, BulkBegin, BulkWriting, BulkUndoing, BulkEnding
<1>2. /\ BulkShape(pc, op) /\ BulkBase(op) /\ (~op.rollback => ~op.verified)
      /\ op \in Ops /\ Len(op.steps) \in Nat /\ op.next \in Nat
      /\ op.attempted \in Nat
  BY <1>1, BulkFacts, BulkStepFacts DEF BulkBase, Ops
<1>3. op.verified => BankAt(op, hw', 0, 0)
  <2>1. op.verified => pc \in BulkEnding
    BY <1>1, <1>2 DEF BulkShape, Fresh, BulkLabels
  <2> QED
    BY <2>1, BankUnchanged DEF BulkSays, SameModule
<1>4. ASSUME ~op.rollback, op.attempted > 0
      PROVE  /\ BankAt(op, hw', op.attempted - 1, op.attempted)
             /\ op.stopVerified => hw'.acq = 0
  <2>1. pc \in BulkWriting \cup BulkEnding /\ pc \notin BulkBegin
    BY <1>2, <1>4 DEF BulkShape, BulkBegin, BulkWriting, BulkUndoing, BulkEnding
  <2>2. BankAt(op, hw, op.attempted - 1, op.attempted)
    <3>1. CASE pc \in BulkEnding
      BY <1>2, <1>4, <3>1, BankWeaker DEF BulkShape, BulkSays
    <3>2. CASE pc = "bulk_readback"
      BY <1>2, <3>2 DEF BulkShape, BulkSays, BulkWriting
    <3>3. CASE pc \in BulkWriting /\ pc # "bulk_readback"
      <4>1. /\ op.attempted = op.next - 1
            /\ BankAt(op, hw, op.next - 1, op.next - 1)
        BY <1>2, <3>3 DEF BulkShape, BulkSays
      <4> QED
        BY <1>2, <1>4, <4>1, BankWeaker
    <3> QED
      BY <2>1, <3>1, <3>2, <3>3
  <2> QED
    BY <2>1, <2>2, BankUnchanged DEF BulkSays, SameModule
<1> QED
  BY <1>2, <1>3, <1>4, BulkFailsSays

\* A step that goes on without touching the transaction.
BulkHere == TypeInv /\ pc \in BulkLabels /\ BulkSays(pc, op, hw)
\* The forward gates of an apply leave true what its record says of the
\* registers.
LEMMA BulkGatesSay ==
    ASSUME BulkHere, BulkStopGate \/ BulkBankGate \/ BulkWriteGate
    PROVE  BulkModuleStep
<1>1. /\ hw' = hw /\ TypeInv /\ BulkSays(pc, op, hw) /\ BulkBase(op)
      /\ pc \in BulkBegin \cup BulkWriting \cup BulkEnding
      /\ pc # "bulk_preflight"
  BY BulkFacts DEF BulkHere, BulkStopGate, BulkBankGate, BulkWriteGate, Gate, BulkBegin,
         BulkWriting
<1>2. SameModule
  BY <1>1 DEF SameModule
<1>3. CASE BulkEnd(Refused(op))
  BY <1>1, <1>2, <1>3, BulkFailsHere DEF BulkModuleStep, SameModule
<1>4. CASE pc = "bulk_stop_gate" /\ On("bulk_stop")
  BY <1>1, <1>2, <1>4
     DEF On, Go, BulkModuleStep, SameModule, BulkLeft, BulkHolds, BulkReturns, Kin,
         BulkSays, BulkBegin, BulkWriting, BulkUndoing, BulkEnding
<1>5. CASE pc = "bulk_bank_gate" /\ On("bulk_select")
  BY <1>1, <1>2, <1>5
     DEF On, Go, BulkModuleStep, SameModule, BulkLeft, BulkHolds, BulkReturns, Kin,
         BulkSays, BulkBegin, BulkWriting, BulkUndoing, BulkEnding
<1>6. CASE pc = "bulk_write_gate" /\ On("bulk_write")
  BY <1>1, <1>2, <1>6
     DEF On, Go, BulkModuleStep, SameModule, BulkLeft, BulkHolds, BulkReturns, Kin,
         BulkSays, BulkBegin, BulkWriting, BulkUndoing, BulkEnding
<1> QED
  BY <1>3, <1>4, <1>5, <1>6 DEF BulkStopGate, BulkBankGate, BulkWriteGate, Gate

\* A module that is as it was when the steps were planned.
LEMMA NothingWritten ==
    ASSUME NEW o \in Ops, Planned(o), NEW h,
           \A q \in Quads, s \in Settings : h.bank[q][s] = o.live.bank[q][s]
    PROVE  BankAt(o, h, 0, 0)
<1>1. PICK p \in ValidProfiles : PlanOf(p, o.live, Quads, o.steps)
  BY DEF Planned
<1>2. \A i \in 1 .. Len(o.steps) :
         /\ i \in Nat /\ i > 0 /\ Holds(o, h, i) = o.steps[i].expected
  <2>1. SUFFICES ASSUME NEW i \in 1 .. Len(o.steps)
                 PROVE  Holds(o, h, i) = o.steps[i].expected
    BY <1>1, PlanFacts
  <2>2. o.steps[i] \in BankStep
    BY <1>1, PlanFacts
  <2>3. o.steps[i].quad \in Quads /\ o.steps[i].setting \in Settings
    BY <2>2 DEF BankStep
  <2>4. o.steps[i].expected = o.live.bank[o.steps[i].quad][o.steps[i].setting]
    BY <1>1, PlanFacts
  <2> QED
    BY <2>3, <2>4 DEF Holds
<1> QED
  BY <1>2 DEF BankAt

\* A preflight that found every expected value live leaves the plan unwritten
\* on the module.
LEMMA BulkPreflightSays ==
    ASSUME BulkHere, BulkPreflight, cap.complete => cap.bank = hw.bank
    PROVE  BulkModuleStep
<1>1. /\ pc = "bulk_preflight" /\ pc \in BulkLabels /\ hw' = hw
      /\ BulkBase(op) /\ BulkShape(pc, op) /\ op \in Ops /\ Planned(op)
  BY BulkFacts DEF BulkHere, BulkPreflight, hwVars, BulkBase
<1>2. SameModule
  BY <1>1 DEF SameModule
<1>3. CASE BulkReturn(Failed(op))
  <2>1. BulkBase(Failed(op)) /\ ~Failed(op).ok /\ Failed(op).verified = op.verified
    BY <1>1, BulkFailedFacts
  <2>2. ~op.verified /\ Kin(Failed(op), op)
    BY <1>1, BulkKin DEF BulkShape, BulkBegin, Fresh
  <2>3. BulkLeft(Failed(op))
    BY <1>3, <2>1, <2>2, BulkReturnSays DEF BulkPassed
  <2> QED
    BY <1>2, <2>2, <2>3 DEF BulkLeft, Kin, BulkModuleStep, SameModule
<1>4. CASE /\ cap.complete /\ SameConfiguration(op.live, Captured)
           /\ On("bulk_stop_gate")
  <2>1. ASSUME NEW q \in Quads, NEW s \in Settings
        PROVE  hw.bank[q][s] = op.live.bank[q][s]
    <3>1. <<q, s>> \notin BankedDifferences(op.live, Captured)
      BY <1>4 DEF SameConfiguration
    <3>2. ~DiffersAt(op.live, Captured, q, s)
      BY <3>1 DEF BankedDifferences
    <3> QED
      BY <1>4, <3>2 DEF DiffersAt, Captured
  <2>2. BankAt(op, hw, 0, 0)
    BY <1>1, <2>1, NothingWritten
  <2> QED
    BY <1>1, <1>2, <1>4, <2>2
       DEF On, Go, BulkModuleStep, SameModule, BulkLeft, BulkHolds, BulkReturns,
           Kin, BulkSays, BulkBegin, BulkWriting, BulkUndoing, BulkEnding
<1> QED
  BY <1>3, <1>4 DEF BulkPreflight

\* The gates of a rollback leave true what the record says of the registers.
LEMMA BulkUndoGatesSay ==
    ASSUME BulkHere, BulkUndoBankGate \/ BulkUndoGate
    PROVE  BulkModuleStep
<1> DEFINE r == [Refused(op) EXCEPT !.safe = FALSE]
<1>1. /\ hw' = hw /\ BulkSays(pc, op, hw) /\ BulkBase(op) /\ BulkShape(pc, op)
      /\ pc \in BulkUndoing
  BY BulkFacts DEF BulkHere, BulkUndoBankGate, BulkUndoGate, Gate, BulkUndoing
<1>2. SameModule
  BY <1>1 DEF SameModule
<1>3. CASE RollbackEnd(r)
  <2>1. op \in Ops /\ op.rollback /\ ~op.ok
    BY <1>1 DEF BulkShape, BulkBase
  <2>2. BulkBase(r) /\ ~r.ok /\ r.rollback = op.rollback
    BY <1>1, BulkFailedFacts
  <2>3. Kin(r, op) /\ ~r.safe /\ (r.stopVerified => op.stopVerified)
    BY <2>1 DEF Kin, Refused, Ops
  <2>4. op.stopVerified => hw'.acq = 0
    BY <1>1 DEF BulkSays, BulkUndoing, BulkBegin
  <2>5. BulkLeft(r)
    <3> HIDE DEF r
    <3> QED
      BY <1>3, <2>1, <2>2, <2>3, <2>4, RollbackEndSays
  <2> QED
    BY <1>2, <2>3, <2>5 DEF BulkModuleStep, SameModule, BulkLeft, Kin
<1>4. CASE pc = "bulk_undo_bank_gate" /\ On("bulk_undo_select")
  BY <1>1, <1>2, <1>4
     DEF On, Go, BulkModuleStep, SameModule, BulkLeft, BulkHolds, BulkReturns, Kin,
         BulkSays, BulkBegin, BulkWriting, BulkUndoing, BulkEnding
<1>5. CASE pc = "bulk_undo_gate" /\ On("bulk_undo")
  BY <1>1, <1>2, <1>5
     DEF On, Go, BulkModuleStep, SameModule, BulkLeft, BulkHolds, BulkReturns, Kin,
         BulkSays, BulkBegin, BulkWriting, BulkUndoing, BulkEnding
<1> QED
  BY <1>3, <1>4, <1>5 DEF BulkUndoBankGate, BulkUndoGate, Gate

\* The gates at the end of an apply leave true what the record says of the
\* registers.
LEMMA BulkEndGatesSay ==
    ASSUME BulkHere, BulkParkGate \/ BulkResetGate
    PROVE  BulkModuleStep
<1>1. /\ hw' = hw /\ BulkSays(pc, op, hw) /\ BulkBase(op) /\ BulkShape(pc, op)
      /\ pc \in BulkEnding
  BY BulkFacts DEF BulkHere, BulkParkGate, BulkResetGate, Gate, BulkEnding
<1>2. SameModule
  BY <1>1 DEF SameModule
<1>3. CASE BulkReturn(Refused(op))
  <2>1. /\ BulkBase(Refused(op)) /\ ~Refused(op).ok
        /\ Refused(op).verified = op.verified
    BY <1>1, BulkFailedFacts
  <2>2. Kin(Refused(op), op)
    BY <1>1, BulkKin
  <2>3. op.verified => BankAt(Refused(op), hw', 0, 0)
    BY <1>1, <2>2, BankUnchanged DEF BulkSays, Kin
  <2>4. BulkLeft(Refused(op))
    BY <1>3, <2>1, <2>2, <2>3, BulkReturnSays DEF BulkPassed
  <2> QED
    BY <1>2, <2>2, <2>4 DEF BulkLeft, Kin, BulkModuleStep, SameModule
<1>4. CASE pc = "bulk_park_gate" /\ On("bulk_park")
  BY <1>1, <1>2, <1>4
     DEF On, Go, BulkModuleStep, SameModule, BulkLeft, BulkHolds, BulkReturns, Kin,
         BulkSays, BulkBegin, BulkWriting, BulkUndoing, BulkEnding
<1>5. CASE pc = "bulk_reset_gate" /\ On("bulk_fifo")
  BY <1>1, <1>2, <1>5
     DEF On, Go, BulkModuleStep, SameModule, BulkLeft, BulkHolds, BulkReturns, Kin,
         BulkSays, BulkBegin, BulkWriting, BulkUndoing, BulkEnding
<1> QED
  BY <1>3, <1>4, <1>5 DEF BulkParkGate, BulkResetGate, Gate

\* The stop write leaves the banks as the record says.
LEMMA BulkStopSays ==
    ASSUME BulkHere, BulkStop
    PROVE  BulkModuleStep
<1>1. /\ BulkSays(pc, op, hw) /\ BulkBase(op) /\ BulkShape(pc, op) /\ TypeInv
      /\ pc = "bulk_stop" /\ pc \in BulkBegin /\ hw \in Hardware
      /\ hw' \in {hw, StopAcquisition}
  BY BulkFacts DEF BulkHere, BulkStop, BulkBegin, Store, Write
<1>2. SameModule
  BY <1>1, StopFacts DEF SameModule
<1>3. CASE BulkEnd(Failed(op))
  BY <1>1, <1>2, <1>3, BulkFailsHere DEF BulkModuleStep, SameModule
<1>4. CASE On("bulk_stop_verify")
  <2>1. BankAt(op, hw', 0, 0)
    BY <1>1, <1>2, BankUnchanged DEF BulkSays, SameModule
  <2> QED
    BY <1>1, <1>2, <1>4, <2>1
       DEF On, Go, BulkModuleStep, SameModule, BulkLeft, BulkHolds, BulkReturns,
           Kin, BulkSays, BulkBegin, BulkWriting, BulkUndoing, BulkEnding
<1> QED
  BY <1>3, <1>4 DEF BulkStop, Store, Write

\* A stop read back as zero is a stop on the module.
LEMMA BulkStopVerifySays ==
    ASSUME BulkHere, BulkStopVerify
    PROVE  BulkModuleStep
<1> DEFINE o == [op EXCEPT !.stopVerified = TRUE, !.leftStopped = TRUE]
<1>1. /\ BulkSays(pc, op, hw) /\ BulkBase(op) /\ BulkShape(pc, op) /\ TypeInv
      /\ pc = "bulk_stop_verify" /\ pc \in BulkBegin /\ hw' = hw
  BY BulkFacts DEF BulkHere, BulkStopVerify, BulkBegin, Read
<1>2. SameModule
  BY <1>1 DEF SameModule
<1>3. CASE BulkEnd(Failed(op))
  BY <1>1, <1>2, <1>3, BulkFailsHere DEF BulkModuleStep, SameModule
<1>4. CASE hw.acq = 0 /\ Forward(o)
  <2>1. Fresh(op) /\ op.next = 1 /\ op.attempted = 0 /\ op \in Ops
        /\ op.selected = NoQuad
    BY <1>1 DEF BulkShape, BulkBase
  <2>2. /\ o \in Ops /\ Fresh(o) /\ o.next = 1 /\ o.attempted = 0
        /\ o.selected = NoQuad /\ Kin(o, op) /\ o.return = op.return
    BY <2>1 DEF Ops, Fresh, Kin
  <2> HIDE DEF o
  <2>3. BulkBase(o)
    BY <1>1, <2>1, <2>2 DEF BulkBase, Planned, Kin
  <2>4. BankAt(o, hw', o.next - 1, o.next - 1)
    BY <1>1, <2>2, BankUnchanged DEF BulkSays, Kin
  <2>5. o.next \in 1 .. Len(o.steps) + 1
    BY <2>2, <2>3, BulkStepFacts
  <2>6. BulkLeft(o)
    BY <1>1, <1>4, <2>2, <2>3, <2>4, <2>5, ForwardSays
  <2> QED
    BY <1>2, <2>2, <2>6 DEF BulkLeft, Kin, BulkModuleStep, SameModule
<1> QED
  BY <1>3, <1>4 DEF BulkStopVerify, Read

\* After the selection the selector shows the bank the record names.
LEMMA BulkSelectSays ==
    ASSUME BulkHere, BulkSelect
    PROVE  BulkModuleStep
<1> DEFINE o == [op EXCEPT !.selected = Step.quad]
<1>1. /\ BulkSays(pc, op, hw) /\ BulkBase(op) /\ BulkShape(pc, op) /\ TypeInv
      /\ pc = "bulk_select" /\ pc \in BulkWriting /\ hw \in Hardware
      /\ hw' \in {hw, Select(Step.quad)} /\ op \in Ops
  BY BulkFacts DEF BulkHere, BulkSelect, BulkWriting, Write, BulkBase
<1>2. op.next \in 1 .. Len(op.steps) /\ Step.quad \in Quads /\ Fresh(op)
  BY <1>1, BulkStepFacts DEF BulkShape, Step
<1>3. SameModule
  BY <1>1, <1>2, SelectFacts DEF SameModule
<1>4. CASE BulkEnd(Failed(op))
  BY <1>1, <1>3, <1>4, BulkFailsHere DEF BulkModuleStep, SameModule
<1>5. CASE hw' = Select(Step.quad) /\ Go("bulk_write_gate", o)
  <2>1. hw'.selector = Step.quad
    BY <1>1, <1>2, <1>5, SelectFacts
  <2>2. /\ Kin(o, op) /\ o.next = op.next /\ o.selected = Step.quad
        /\ o.stopVerified => op.stopVerified
    BY <1>1 DEF Ops, Kin
  <2>3. pc' = "bulk_write_gate" /\ op' = o
    BY <1>5 DEF Go
  <2> HIDE DEF o
  <2>4. BankAt(o, hw', o.next - 1, o.next - 1)
    BY <1>1, <1>3, <2>2, BankUnchanged DEF BulkSays, Kin, SameModule
  <2>5. BulkSays("bulk_write_gate", o, hw')
    BY <1>1, <1>3, <2>1, <2>2, <2>4
       DEF BulkSays, SameModule, BulkBegin, BulkWriting, BulkUndoing, BulkEnding
  <2> QED
    BY <1>3, <2>2, <2>3, <2>5
       DEF BulkModuleStep, SameModule, BulkLeft, BulkHolds, BulkReturns
<1> QED
  BY <1>4, <1>5 DEF BulkSelect, Write

\* A write puts one more step of the plan on the module, or leaves it in doubt
\* when its answer is lost.
LEMMA BulkWriteSays ==
    ASSUME BulkHere, BulkWrite
    PROVE  BulkModuleStep
<1> DEFINE o == [op EXCEPT !.attempted = @ + 1]
           new == SetBanked(Step.setting, Step.profile)
<1>1. /\ BulkSays(pc, op, hw) /\ BulkBase(op) /\ BulkShape(pc, op) /\ TypeInv
      /\ pc = "bulk_write" /\ pc \in BulkWriting /\ hw \in Hardware
      /\ hw' \in {hw, new} /\ op \in Ops /\ Planned(op)
  BY BulkFacts DEF BulkHere, BulkWrite, BulkWriting, Store, Write, BulkBase
<1>2. /\ op.next \in 1 .. Len(op.steps) /\ op.attempted = op.next - 1
      /\ op.selected = op.steps[op.next].quad /\ Fresh(op)
  BY <1>1 DEF BulkShape
<1>3. /\ Step.setting \in Settings /\ Step.profile \in Values
      /\ Len(op.steps) \in Nat /\ Step.quad \in Quads /\ Step.quad # NoQuad
  BY <1>1, <1>2, BulkStepFacts DEF Step
<1>4. hw.selector = Step.quad
  BY <1>1, <1>2, <1>3 DEF BulkSays, Step
<1>5. BankAt(op, hw, op.next - 1, op.next)
  BY <1>1, <1>2, <1>3, BankWeaker DEF BulkSays
<1>6. /\ BankAt(op, hw', op.next - 1, op.next) /\ hw'.selector = hw.selector
      /\ hw'.acq = hw.acq /\ hw'.irq = hw.irq /\ hw'.mblt = hw.mblt
  <2>1. CASE hw' = hw
    BY <1>5, <2>1
  <2>2. CASE hw' = new
    <3>1. /\ hw'.selector = hw.selector
          /\ hw'.acq = hw.acq /\ hw'.irq = hw.irq /\ hw'.mblt = hw.mblt
          /\ \A q \in Quads, t \in Settings :
                hw'.bank[q][t] = IF q = hw.selector /\ t = Step.setting
                                   THEN Step.profile ELSE hw.bank[q][t]
      BY <1>1, <1>3, <2>2, SetBankedFacts
    <3>2. BankAt(op, hw', op.next - 1, op.next)
      <4>1. /\ hw.selector = op.steps[op.next].quad
            /\ op.steps[op.next].profile \in
                  {op.steps[op.next].expected, op.steps[op.next].profile}
            /\ \A q \in Quads, t \in Settings :
                  hw'.bank[q][t] =
                     IF q = hw.selector /\ t = op.steps[op.next].setting
                       THEN op.steps[op.next].profile ELSE hw.bank[q][t]
        BY <1>4, <3>1 DEF Step
      <4> QED
        BY <1>1, <1>2, <1>5, <4>1, BankWritten
    <3> QED
      BY <3>1, <3>2
  <2> QED
    BY <1>1, <2>1, <2>2
<1>7. /\ o \in Ops /\ Kin(o, op) /\ o.next = op.next /\ o.attempted = o.next
      /\ o.selected = op.selected /\ (o.stopVerified => op.stopVerified)
      /\ Fresh(o) /\ o.return = op.return
  <2>1. op.attempted + 1 = op.next /\ op.attempted + 1 \in Nat
    BY <1>1, <1>2, <1>3 DEF Ops
  <2> QED
    BY <1>1, <1>2, <2>1 DEF Ops, Kin, Fresh
<1> HIDE DEF o, new
<1>8. BulkBase(o)
  BY <1>1, <1>2, <1>3, <1>7 DEF BulkBase, Planned, Kin
<1>9. BankAt(o, hw', o.next - 1, o.next)
  BY <1>6, <1>7, BankUnchanged DEF Kin
<1>10. o.stopVerified => hw'.acq = 0
  BY <1>1, <1>6, <1>7 DEF BulkSays, BulkBegin
<1>11. CASE BulkEnd(Failed(o))
  <2>1. BulkLeft(o)
    BY <1>7, <1>8, <1>9, <1>10, <1>11, BulkFailsSays DEF Fresh
  <2> QED
    BY <1>6, <1>7, <2>1 DEF BulkModuleStep, BulkLeft, Kin
<1>12. CASE Go("bulk_readback", o)
  <2>1. pc' = "bulk_readback" /\ op' = o
    BY <1>12 DEF Go
  <2>2. BulkSays("bulk_readback", o, hw')
    BY <1>2, <1>4, <1>6, <1>7, <1>9, <1>10
       DEF BulkSays, Step, BulkBegin, BulkWriting, BulkUndoing, BulkEnding
  <2> QED
    BY <1>6, <1>7, <2>1, <2>2
       DEF BulkModuleStep, BulkLeft, BulkHolds, BulkReturns
<1> QED
  BY <1>11, <1>12 DEF BulkWrite, Store, Write, o, new

\* A readback that matches settles that the step is on the module.
LEMMA BulkReadbackSays ==
    ASSUME BulkHere, BulkReadback
    PROVE  BulkModuleStep
<1> DEFINE o == [op EXCEPT !.next = @ + 1]
<1>1. /\ BulkSays(pc, op, hw) /\ BulkBase(op) /\ BulkShape(pc, op) /\ TypeInv
      /\ pc = "bulk_readback" /\ pc \in BulkWriting /\ hw' = hw /\ op \in Ops
  BY BulkFacts DEF BulkHere, BulkReadback, BulkWriting, Read, BulkBase
<1>2. SameModule
  BY <1>1 DEF SameModule
<1>3. CASE BulkEnd(Failed(op))
  BY <1>1, <1>2, <1>3, BulkFailsHere DEF BulkModuleStep, SameModule
<1>4. CASE LiveValue(Step.setting) = Step.profile /\ Forward(o)
  <2>1. /\ op.next \in 1 .. Len(op.steps) /\ Fresh(op)
        /\ op.selected = op.steps[op.next].quad /\ Len(op.steps) \in Nat
        /\ op.steps[op.next].quad # NoQuad
    BY <1>1, BulkStepFacts DEF BulkShape
  <2>2. hw.selector = op.selected /\ BankAt(op, hw, op.next - 1, op.next)
    BY <1>1, <2>1 DEF BulkSays
  <2>3. Holds(op, hw, op.next) = op.steps[op.next].profile
    BY <1>4, <2>1, <2>2 DEF LiveValue, Step, Holds
  <2>4. BankAt(op, hw, op.next, op.next)
    BY <2>1, <2>2, <2>3, BankReadBack
  <2>5. /\ o \in Ops /\ Fresh(o) /\ o.next = op.next + 1 /\ Kin(o, op)
        /\ o.selected = op.selected /\ (o.stopVerified => op.stopVerified)
        /\ o.return = op.return /\ o.attempted = op.attempted
    BY <1>1, <2>1 DEF Ops, Fresh, Kin
  <2> HIDE DEF o
  <2>6. BulkBase(o)
    BY <1>1, <2>5 DEF BulkBase, Planned, Kin
  <2>7. /\ o.next \in 1 .. Len(o.steps) + 1 /\ o.next - 1 = op.next
    BY <2>1, <2>5 DEF Kin
  <2>8. BankAt(o, hw', o.next - 1, o.next - 1)
    BY <1>1, <2>4, <2>5, <2>7, BankUnchanged DEF Kin
  <2>9. o.stopVerified => hw'.acq = 0
    BY <1>1, <2>5 DEF BulkSays, BulkBegin
  <2>10. BulkLeft(o)
    BY <1>1, <1>4, <2>2, <2>5, <2>6, <2>7, <2>8, <2>9, ForwardSays
  <2> QED
    BY <1>2, <2>5, <2>10 DEF BulkLeft, Kin, BulkModuleStep, SameModule
<1> QED
  BY <1>3, <1>4 DEF BulkReadback, Read

\* After a rollback's selection the selector shows the bank the record names.
LEMMA BulkUndoSelectSays ==
    ASSUME BulkHere, BulkUndoSelect
    PROVE  BulkModuleStep
<1> DEFINE o == [op EXCEPT !.selected = Step.quad]
           f == [op EXCEPT !.safe = FALSE]
<1>1. /\ BulkSays(pc, op, hw) /\ BulkBase(op) /\ BulkShape(pc, op) /\ TypeInv
      /\ pc = "bulk_undo_select" /\ pc \in BulkUndoing /\ hw \in Hardware
      /\ hw' \in {hw, Select(Step.quad)} /\ op \in Ops
  BY BulkFacts DEF BulkHere, BulkUndoSelect, BulkUndoing, Write, BulkBase
<1>2. /\ op.next \in 1 .. op.attempted /\ op.attempted <= Len(op.steps)
      /\ op.rollback /\ ~op.ok /\ Len(op.steps) \in Nat /\ op.attempted \in Nat
  BY <1>1, BulkStepFacts DEF BulkShape, Ops
<1>3. Step.quad \in Quads /\ op.next \in 1 .. Len(op.steps)
  <2>1. op.next \in 1 .. Len(op.steps)
    BY <1>2
  <2> QED
    BY <1>1, <2>1, BulkStepFacts DEF Step
<1>4. SameModule
  BY <1>1, <1>3, SelectFacts DEF SameModule
<1>5. op.stopVerified => hw'.acq = 0
  BY <1>1, <1>4 DEF BulkSays, SameModule, BulkBegin
<1>6. CASE RollbackEnd(f)
  <2>1. /\ f \in Ops /\ ~f.safe /\ f.rollback /\ ~f.ok /\ Kin(f, op)
        /\ f.return = op.return /\ f.attempted = op.attempted
        /\ (f.stopVerified => op.stopVerified)
    BY <1>1, <1>2 DEF Kin, Ops
  <2> HIDE DEF f
  <2>2. BulkBase(f)
    BY <1>1, <2>1 DEF BulkBase, Planned, Kin
  <2>3. BulkLeft(f)
    BY <1>5, <1>6, <2>1, <2>2, RollbackEndSays
  <2> QED
    BY <1>4, <2>1, <2>3 DEF BulkLeft, Kin, BulkModuleStep, SameModule
<1>7. CASE hw' = Select(Step.quad) /\ Go("bulk_undo_gate", o)
  <2>1. hw'.selector = Step.quad
    BY <1>1, <1>3, <1>7, SelectFacts
  <2>2. /\ Kin(o, op) /\ o.next = op.next /\ o.selected = Step.quad
        /\ (o.stopVerified => op.stopVerified)
    BY <1>1 DEF Ops, Kin
  <2>3. pc' = "bulk_undo_gate" /\ op' = o
    BY <1>7 DEF Go
  <2> HIDE DEF o
  <2>4. o.safe => BankAt(o, hw', o.next - 1, o.next)
    BY <1>1, <1>4, <2>2, BankUnchanged DEF BulkSays, Kin, SameModule
  <2>5. BulkSays("bulk_undo_gate", o, hw')
    BY <1>5, <2>1, <2>2, <2>4
       DEF BulkSays, BulkBegin, BulkWriting, BulkUndoing, BulkEnding
  <2> QED
    BY <1>4, <2>2, <2>3, <2>5
       DEF BulkModuleStep, SameModule, BulkLeft, BulkHolds, BulkReturns
<1> QED
  BY <1>6, <1>7 DEF BulkUndoSelect, Write

\* A value that is restored, or is not.
LEMMA BulkUndone ==
    ASSUME TypeInv, pc \in {"bulk_undo", "bulk_undo_readback"},
           BulkSays(pc, op, hw), hw'.selector = hw.selector, hw'.acq = hw.acq,
           \/ Unrestored
           \/ /\ Rollback([op EXCEPT !.restored = @ + 1, !.next = @ - 1])
              /\ op.safe => BankAt(op, hw', op.next - 2, op.next - 1)
    PROVE  BulkLeft(op)
<1>1. pc \in BulkLabels /\ pc \in BulkUndoing
  BY DEF BulkLabels, BulkUndoing
<1>2. /\ op.next \in 1 .. op.attempted /\ op.rollback /\ ~op.ok /\ op.owned
      /\ ~op.verified /\ op \in Ops /\ BulkBase(op) /\ op.attempted \in Nat
      /\ op.selected = op.steps[op.next].quad
      /\ op.attempted <= Len(op.steps) /\ Len(op.steps) \in Nat
  BY <1>1, BulkFacts, BulkStepFacts DEF BulkShape, BulkBase, Ops
<1>3. PICK o : /\ Rollback(o)
               /\ o \in {[op EXCEPT !.safe = FALSE, !.next = @ - 1],
                         [op EXCEPT !.restored = @ + 1, !.next = @ - 1]}
               /\ \/ o = [op EXCEPT !.safe = FALSE, !.next = @ - 1]
                  \/ op.safe => BankAt(op, hw', op.next - 2, op.next - 1)
  BY DEF Unrestored
<1>4. /\ o \in Ops /\ o.next = op.next - 1 /\ ~o.ok /\ o.owned /\ ~o.verified
      /\ o.attempted = op.attempted /\ o.rollback /\ Kin(o, op)
      /\ (o.safe => o # [op EXCEPT !.safe = FALSE, !.next = @ - 1])
      /\ o.selected = op.selected /\ (o.stopVerified => op.stopVerified)
      /\ o.return = op.return
  <2>1. op.next - 1 \in Nat /\ op.restored + 1 \in Nat
    BY <1>2 DEF Ops
  <2>2. CASE o = [op EXCEPT !.safe = FALSE, !.next = @ - 1]
    <3>1. ~o.safe
      BY <1>2, <2>2 DEF Ops
    <3> QED
      BY <1>2, <2>1, <2>2, <3>1 DEF Ops, Kin
  <2>3. CASE o = [op EXCEPT !.restored = @ + 1, !.next = @ - 1]
    <3>1. o.safe => op.safe
      BY <1>2, <2>3 DEF Ops
    <3>2. o.safe => o # [op EXCEPT !.safe = FALSE, !.next = @ - 1]
      BY <1>2 DEF Ops
    <3> QED
      BY <1>2, <2>1, <2>3, <3>1, <3>2 DEF Ops, Kin
  <2> QED
    BY <1>3, <2>2, <2>3
<1>5. BulkBase(o)
  BY <1>2, <1>4 DEF BulkBase, Planned, Kin
<1>6. o.next \in 0 .. o.attempted /\ o.next - 1 = op.next - 2
  BY <1>2, <1>4
<1>7. o.safe => BankAt(o, hw', o.next - 1, o.next)
  BY <1>3, <1>4, <1>6, BankUnchanged DEF Kin
<1>8. /\ o.selected # NoQuad => hw'.selector = o.selected
      /\ o.stopVerified => hw'.acq = 0
  BY <1>1, <1>4 DEF BulkSays, BulkUndoing, BulkBegin
<1>9. BulkLeft(o)
  BY <1>3, <1>4, <1>5, <1>6, <1>7, <1>8, RollbackSays
<1> QED
  BY <1>4, <1>9 DEF BulkLeft, Kin

\* An undo takes one step of the plan back off the module, or leaves it in
\* doubt.
LEMMA BulkUndoSays ==
    ASSUME BulkHere, BulkUndo
    PROVE  BulkModuleStep
<1> DEFINE new == SetBanked(Step.setting, Step.expected)
<1>1. /\ BulkSays(pc, op, hw) /\ BulkBase(op) /\ BulkShape(pc, op) /\ TypeInv
      /\ pc = "bulk_undo" /\ pc \in BulkUndoing /\ hw \in Hardware
      /\ hw' \in {hw, new} /\ op \in Ops /\ Planned(op)
  BY BulkFacts DEF BulkHere, BulkUndo, BulkUndoing, Store, Write, BulkBase
<1>2. /\ op.next \in 1 .. op.attempted /\ op.attempted <= Len(op.steps)
      /\ op.selected = op.steps[op.next].quad
      /\ Len(op.steps) \in Nat /\ op.attempted \in Nat
  BY <1>1, BulkStepFacts DEF BulkShape, Ops
<1>3. /\ op.next \in 1 .. Len(op.steps)
  BY <1>2
<1>4. /\ Step.setting \in Settings /\ Step.expected \in Values
      /\ Step.quad \in Quads /\ Step.quad # NoQuad
  BY <1>1, <1>3, BulkStepFacts DEF Step
<1>5. hw.selector = Step.quad
  BY <1>1, <1>2, <1>4 DEF BulkSays, Step
<1>6. /\ op.safe => BankAt(op, hw', op.next - 1, op.next)
      /\ hw'.selector = hw.selector
      /\ hw'.acq = hw.acq /\ hw'.irq = hw.irq /\ hw'.mblt = hw.mblt
  <2>0. op.safe => BankAt(op, hw, op.next - 1, op.next)
    BY <1>1 DEF BulkSays
  <2>1. CASE hw' = hw
    BY <2>0, <2>1
  <2>2. CASE hw' = new
    <3>1. /\ hw'.selector = hw.selector
          /\ hw'.acq = hw.acq /\ hw'.irq = hw.irq /\ hw'.mblt = hw.mblt
          /\ \A q \in Quads, t \in Settings :
                hw'.bank[q][t] = IF q = hw.selector /\ t = Step.setting
                                   THEN Step.expected ELSE hw.bank[q][t]
      BY <1>1, <1>4, <2>2, SetBankedFacts
    <3>2. op.safe => BankAt(op, hw', op.next - 1, op.next)
      <4>1. /\ hw.selector = op.steps[op.next].quad
            /\ op.steps[op.next].expected \in
                  {op.steps[op.next].expected, op.steps[op.next].profile}
            /\ \A q \in Quads, t \in Settings :
                  hw'.bank[q][t] =
                     IF q = hw.selector /\ t = op.steps[op.next].setting
                       THEN op.steps[op.next].expected ELSE hw.bank[q][t]
        BY <1>5, <3>1 DEF Step
      <4> QED
        BY <1>1, <1>3, <2>0, <4>1, BankWritten
    <3> QED
      BY <3>1, <3>2
  <2> QED
    BY <1>1, <2>1, <2>2
<1>7. CASE Unrestored
  BY <1>1, <1>6, <1>7, BulkUndone DEF BulkModuleStep
<1>8. CASE On("bulk_undo_readback")
  <2>1. pc' = "bulk_undo_readback" /\ op' = op
    BY <1>8 DEF On, Go
  <2>2. BulkSays("bulk_undo_readback", op, hw')
    BY <1>1, <1>2, <1>6
       DEF BulkSays, BulkBegin, BulkWriting, BulkUndoing, BulkEnding
  <2> QED
    BY <1>6, <2>1, <2>2 DEF BulkModuleStep, BulkLeft, BulkHolds, BulkReturns, Kin
<1> QED
  BY <1>7, <1>8 DEF BulkUndo, Store, Write

\* A readback of the old value settles that the step is off the module.
LEMMA BulkUndoReadbackSays ==
    ASSUME BulkHere, BulkUndoReadback
    PROVE  BulkModuleStep
<1>1. /\ BulkSays(pc, op, hw) /\ BulkBase(op) /\ BulkShape(pc, op) /\ TypeInv
      /\ pc = "bulk_undo_readback" /\ pc \in BulkUndoing /\ hw' = hw /\ op \in Ops
  BY BulkFacts DEF BulkHere, BulkUndoReadback, BulkUndoing, Read, BulkBase
<1>2. SameModule
  BY <1>1 DEF SameModule
<1>3. CASE Unrestored
  BY <1>1, <1>2, <1>3, BulkUndone DEF BulkModuleStep, SameModule
<1>4. CASE /\ LiveValue(Step.setting) = Step.expected
           /\ Rollback([op EXCEPT !.restored = @ + 1, !.next = @ - 1])
  <2>1. /\ op.next \in 1 .. op.attempted /\ op.attempted <= Len(op.steps)
        /\ op.selected = op.steps[op.next].quad
        /\ Len(op.steps) \in Nat /\ op.attempted \in Nat
    BY <1>1, BulkStepFacts DEF BulkShape, Ops
  <2>2. op.next \in 1 .. Len(op.steps)
    BY <2>1
  <2>3. op.selected # NoQuad
    BY <1>1, <2>1, <2>2, BulkStepFacts
  <2>4. hw.selector = op.selected
    BY <1>1, <2>3 DEF BulkSays
  <2>5. Holds(op, hw, op.next) = op.steps[op.next].expected
    BY <1>4, <2>1, <2>4 DEF LiveValue, Step, Holds
  <2>6. op.safe => BankAt(op, hw, op.next - 2, op.next - 1)
    BY <1>1, <2>1, <2>2, <2>5, BankReadBack DEF BulkSays
  <2>7. BulkLeft(op)
    BY <1>1, <1>4, <2>6, BulkUndone
  <2> QED
    BY <1>2, <2>7 DEF BulkModuleStep, SameModule
<1> QED
  BY <1>3, <1>4 DEF BulkUndoReadback, Read

\* Parking leaves the banks alone and the selector at quad zero.
LEMMA BulkParkSays ==
    ASSUME BulkHere, BulkPark
    PROVE  BulkModuleStep
<1>1. /\ BulkSays(pc, op, hw) /\ BulkBase(op) /\ BulkShape(pc, op) /\ TypeInv
      /\ pc = "bulk_park" /\ pc \in BulkEnding /\ hw \in Hardware
      /\ hw' \in {hw, Select(0)} /\ op \in Ops
  BY BulkFacts DEF BulkHere, BulkPark, BulkEnding, Write, BulkBase
<1>2. SameModule
  BY <1>1, QuadFacts, SelectFacts DEF SameModule
<1>3. CASE BulkEnd(Failed(op))
  BY <1>1, <1>2, <1>3, BulkFailsHere DEF BulkModuleStep, SameModule
<1>4. ASSUME NEW o, ParkedAt(o),
             \/ o = op /\ op.rollback
             \/ o = [op EXCEPT !.parked = TRUE] /\ hw' = Select(0)
      PROVE  BulkLeft(op)
  <2>1. /\ o \in Ops /\ Kin(o, op) /\ o.return = op.return
        /\ o.attempted = op.attempted
        /\ (o.rollback <=> op.rollback) /\ (o.verified <=> op.verified)
        /\ (o.stopVerified => op.stopVerified) /\ (o.ok => op.ok)
    BY <1>1, <1>4 DEF Ops, Kin
  <2>2. BulkBase(o)
    BY <1>1, <2>1 DEF BulkBase, Planned, Kin
  <2>3. /\ ~o.rollback => BankAt(o, hw', Len(o.steps), Len(o.steps))
        /\ o.verified => BankAt(o, hw', 0, 0)
        /\ o.stopVerified => hw'.acq = 0
    BY <1>1, <1>2, <2>1, BankUnchanged
       DEF BulkSays, SameModule, Kin, BulkEnding, BulkBegin
  <2>4. o.rollback => ~o.ok
    BY <1>1, <2>1 DEF BulkShape
  <2>5. o.ok => hw'.selector = 0
    BY <1>1, <1>4, <2>1, <2>4, QuadFacts, SelectFacts
  <2>6. CASE BulkReturn(o) /\ o.rollback /\ ~o.verified
    <3>1. BulkLeft(o)
      BY <2>2, <2>4, <2>6, BulkReturnSays DEF BulkPassed
    <3> QED
      BY <2>1, <3>1 DEF BulkLeft, Kin
  <2>7. CASE Go("bulk_reset_gate", o)
    <3>1. pc' = "bulk_reset_gate" /\ op' = o
      BY <2>7 DEF Go
    <3>2. BulkSays("bulk_reset_gate", o, hw')
      BY <2>3, <2>5
         DEF BulkSays, BulkBegin, BulkWriting, BulkUndoing, BulkEnding
    <3> QED
      BY <2>1, <3>1, <3>2 DEF BulkLeft, BulkHolds, BulkReturns
  <2> QED
    BY <1>4, <2>6, <2>7 DEF ParkedAt
<1>5. CASE \/ ParkedAt(op) /\ op.rollback
           \/ ParkedAt([op EXCEPT !.parked = TRUE]) /\ hw' = Select(0)
  <2>1. BulkLeft(op)
    BY <1>4, <1>5
  <2> QED
    BY <1>2, <2>1 DEF BulkModuleStep, SameModule
<1> QED
  BY <1>3, <1>5 DEF BulkPark, Write

\* The FIFO reset leaves the banks alone and the readout half reset.
LEMMA BulkResetFifoSays ==
    ASSUME BulkHere, BulkResetFifo
    PROVE  BulkModuleStep
<1>1. /\ BulkSays(pc, op, hw) /\ BulkBase(op) /\ BulkShape(pc, op) /\ TypeInv
      /\ pc = "bulk_fifo" /\ pc \in BulkEnding /\ hw \in Hardware
      /\ hw' \in {hw, ResetFifo} /\ op \in Ops
  BY BulkFacts DEF BulkHere, BulkResetFifo, BulkEnding, Write, BulkBase
<1>2. SameModule /\ hw'.selector = hw.selector
  BY <1>1, ResetFacts DEF SameModule
<1>3. CASE BulkEnd(Failed(op))
  BY <1>1, <1>2, <1>3, BulkFailsHere DEF BulkModuleStep, SameModule
<1>4. CASE hw' = ResetFifo /\ On("bulk_readout")
  <2>1. pc' = "bulk_readout" /\ op' = op /\ hw'.readout = "fifo"
    BY <1>1, <1>4, ResetFacts DEF On, Go
  <2>2. /\ ~op.rollback => BankAt(op, hw', Len(op.steps), Len(op.steps))
        /\ op.verified => BankAt(op, hw', 0, 0)
    BY <1>1, <1>2, BankUnchanged DEF BulkSays, SameModule
  <2>3. BulkSays("bulk_readout", op, hw')
    BY <1>1, <1>2, <2>1, <2>2
       DEF BulkSays, SameModule, BulkBegin, BulkWriting, BulkUndoing, BulkEnding
  <2> QED
    BY <1>2, <2>1, <2>3
       DEF BulkModuleStep, SameModule, BulkLeft, BulkHolds, BulkReturns, Kin
<1> QED
  BY <1>3, <1>4 DEF BulkResetFifo, Write

\* The readout reset after the FIFO's leaves the readout clean.
LEMMA BulkResetReadoutSays ==
    ASSUME BulkHere, BulkResetReadout
    PROVE  BulkModuleStep
<1> DEFINE o == [op EXCEPT !.reset = TRUE]
<1>1. /\ BulkSays(pc, op, hw) /\ BulkBase(op) /\ BulkShape(pc, op) /\ TypeInv
      /\ pc = "bulk_readout" /\ pc \in BulkEnding /\ hw \in Hardware
      /\ hw' \in {hw, ResetReadout} /\ op \in Ops
  BY BulkFacts DEF BulkHere, BulkResetReadout, BulkEnding, Write, BulkBase
<1>2. SameModule /\ hw'.selector = hw.selector
  BY <1>1, ResetFacts DEF SameModule
<1>3. CASE BulkEnd(Failed(op))
  BY <1>1, <1>2, <1>3, BulkFailsHere DEF BulkModuleStep, SameModule
<1>4. CASE hw' = ResetReadout /\ BulkEnd(o)
  <2>1. hw'.readout = "clean"
    BY <1>1, <1>4, ResetFacts DEF BulkSays
  <2>2. /\ o \in Ops /\ Kin(o, op) /\ o.return = op.return
        /\ o.attempted = op.attempted
        /\ (o.rollback <=> op.rollback) /\ (o.verified <=> op.verified)
        /\ (o.stopVerified => op.stopVerified) /\ (o.ok <=> op.ok)
        /\ (o.parked => op.parked)
    BY <1>1 DEF Ops, Kin
  <2> HIDE DEF o
  <2>3. BulkBase(o)
    BY <1>1, <2>2 DEF BulkBase, Planned, Kin
  <2>4. /\ ~o.rollback => BankAt(o, hw', Len(o.steps), Len(o.steps))
        /\ o.verified => BankAt(o, hw', 0, 0)
        /\ o.stopVerified => hw'.acq = 0
    BY <1>1, <1>2, <2>2, BankUnchanged
       DEF BulkSays, SameModule, Kin, BulkBegin
  <2>5. /\ (o.rollback => ~o.ok) /\ (~o.rollback => o.ok /\ ~o.verified)
    BY <1>1, <2>2 DEF BulkShape, Fresh
  <2>6. o.ok /\ o.parked => hw'.selector = 0
    BY <1>1, <1>2, <2>2 DEF BulkSays
  <2>7. BulkLeft(o)
    BY <1>4, <2>1, <2>3, <2>4, <2>5, <2>6, BulkEndSays DEF BulkPassed
  <2> QED
    BY <1>2, <2>2, <2>7 DEF BulkLeft, Kin, BulkModuleStep, SameModule
<1> QED
  BY <1>3, <1>4 DEF BulkResetReadout, Write

\* MVME has not acted, so neither has it during this step.
LEMMA UndisturbedFacts ==
    ASSUME TypeInv, mvme' = mvme, op'.began = op.began
    PROVE  /\ Alone => Undisturbed
           /\ Alone' <=> Alone
           /\ Undisturbed' <=> Undisturbed
BY DEF TypeInv, Located, Alone, Undisturbed

\* Every undisturbed step of an apply leaves true what its record says of the
\* registers.
LEMMA BulkNextSays ==
    ASSUME TypeInv, ModuleInv, Undisturbed, BulkNext
    PROVE  BulkModuleStep
<1>1. pc \in BulkLabels /\ BulkHere
  BY BulkNextStep DEF BulkHere, ModuleInv, OperationSays
<1>2. CASE BulkPreflight
  <2>1. pc = "bulk_preflight" /\ cap.return = pc
    BY <1>2 DEF BulkPreflight, ModuleInv, CapReturned, CapReturns
  <2>2. cap.complete => cap.bank = hw.bank
    BY <2>1 DEF ModuleInv, CapSays, CapReturns
  <2> QED
    BY <1>1, <1>2, <2>2, BulkPreflightSays
<1> QED
  BY <1>1, <1>2, BulkGatesSay, BulkUndoGatesSay, BulkEndGatesSay, BulkStopSays,
     BulkStopVerifySays, BulkSelectSays, BulkWriteSays, BulkReadbackSays,
     BulkUndoSelectSays, BulkUndoSays, BulkUndoReadbackSays, BulkParkSays,
     BulkResetFifoSays, BulkResetReadoutSays
     DEF BulkNext

\* A step of an apply keeps the module invariant.
LEMMA BulkStays ==
    ASSUME TypeInv, ModuleInv, BulkNext
    PROVE  ModuleInv'
<1>1. /\ pc \in BulkLabels /\ StepFrame /\ BulkTo(pc', op', op) /\ cap' = cap
      /\ TypeInv'
  BY BulkNextStep, BulkKept DEF BulkStep
<1>2. /\ pc' \in BulkLabels \cup BulkReturns /\ pc' # "bulk_preflight"
      /\ mvme' = mvme /\ op'.began = op.began /\ op'.return = op.return
      /\ op' \in Ops /\ hw' \in Hardware /\ hw \in Hardware /\ op \in Ops
      /\ pc' \in BulkReturns => pc' = op'.return /\ op'.kind = "bulk"
  BY <1>1, LabelFacts DEF BulkTo, StepFrame, TypeInv, TypeOK, BulkReturns
<1>3. /\ Alone => Undisturbed
      /\ Alone' <=> Alone
      /\ Undisturbed' <=> Undisturbed
  BY <1>2, UndisturbedFacts
<1>4. pc' \notin FixLabels \cup PrepLabels \cup CapLabels \cup Quiet
                  \cup (CapReturns \ {"idle"}) \cup {"startup_prepared"}
  BY <1>2 DEF BulkLabels, BulkBegin, BulkWriting, BulkUndoing, BulkEnding,
       BulkReturns, FixLabels, FixBegin, FixWriting, FixUndoing, FixEnding,
       FixReset, PrepLabels, PrepBegin, PrepWriting, PrepReset, PrepUndoing,
       PrepEnding, CapLabels, Quiet, CapReturns
<1>5. Undisturbed => BulkModuleStep
  BY BulkNextSays
<1>6. CapReturned' /\ CapSays' /\ FreshSays' /\ RepairAlone'
  BY <1>4 DEF CapReturned, CapSays, FreshSays, RepairAlone
<1>7. OperationSays'
  BY <1>3, <1>4, <1>5 DEF OperationSays, BulkModuleStep, BulkLeft, BulkHolds
<1>8. StartupSays'
  <2>1. SUFFICES ASSUME Alone, InStartup' PROVE ContractHolds' /\ hw'.acq = 0
    BY <1>3 DEF StartupSays
  <2>2. InStartup
    BY <1>1, <1>2, <1>4, <2>1, LabelFacts DEF InStartup, BulkReturns, StartupLabels
  <2>3. ContractHolds /\ hw.acq = 0
    BY <1>1, <2>1, <2>2, LabelFacts DEF ModuleInv, StartupSays, StartupLabels
  <2>4. hw'.irq = hw.irq /\ hw'.mblt = hw.mblt /\ hw'.acq = 0
    BY <1>3, <1>5, <2>1, <2>3 DEF BulkModuleStep
  <2> QED
    BY <2>3, <2>4 DEF ContractHolds, ContractSettings
<1>9. Ended' => pc' \in BulkReturns
  BY <1>2, <1>4, LabelFacts DEF Ended
<1>10. Undisturbed => Planned(op')
  <2>1. Planned(op)
    BY <1>1, BulkFacts DEF BulkBase
  <2> QED
    BY <1>5, <2>1 DEF BulkModuleStep, BulkLeft, Kin, Planned
<1>11. PassedIsApplied'
  <2>1. SUFFICES ASSUME Ended', op'.state = "passed", Undisturbed
                 PROVE  /\ hw'.bank = Target(op'.live.bank, op'.steps)
                        /\ hw'.selector = 0 /\ hw'.acq = 0
                        /\ hw'.readout = "clean" /\ op'.kind = "bulk"
    BY <1>3 DEF PassedIsApplied
  <2>2. /\ BankAt(op', hw', Len(op'.steps), Len(op'.steps))
        /\ hw'.selector = 0 /\ hw'.acq = 0 /\ hw'.readout = "clean"
    BY <1>5, <1>9, <2>1 DEF BulkModuleStep, BulkLeft, BulkHolds
  <2> QED
    BY <1>2, <1>9, <1>10, <2>1, <2>2, AllWritten
<1>12. VerifiedRollbackRestores'
  <2>1. SUFFICES ASSUME Ended', op'.state = "failed", op'.verified, Undisturbed
                 PROVE  /\ hw'.bank = op'.live.bank /\ op'.kind = "bulk"
                        /\ \A i \in DOMAIN op'.steps :
                              op'.steps[i].expected =
                                 hw'.bank[op'.steps[i].quad][op'.steps[i].setting]
    BY <1>3 DEF VerifiedRollbackRestores
  <2>2. BankAt(op', hw', 0, 0)
    BY <1>5, <1>9, <2>1 DEF BulkModuleStep, BulkLeft, BulkHolds
  <2> QED
    BY <1>2, <1>9, <1>10, <2>1, <2>2, NoneWritten
<1>13. PairsStayValid'
  <2>1. SUFFICES ASSUME Alone, op'.safe, NEW q \in Quads, op'.kind # "none",
                        Coupled(op'.live.bank[q])
                 PROVE  Coupled(hw'.bank[q])
    BY <1>3 DEF PairsStayValid
  <2>2. /\ op.safe /\ op.kind = op'.kind /\ Coupled(op.live.bank[q])
        /\ op.live = op'.live /\ Undisturbed
    BY <1>3, <1>5, <2>1 DEF BulkModuleStep, BulkLeft, Kin
  <2>3. CASE hw'.bank = hw.bank
    BY <2>1, <2>2, <2>3 DEF ModuleInv, PairsStayValid
  <2>4. CASE BankAt(op, hw', op.next - 1, op.next)
    <3>1. Planned(op) /\ op.next \in Int /\ op.next - 1 \in Int
          /\ op.next <= op.next - 1 + 1
      BY <1>1, <1>2, BulkFacts DEF BulkBase, Ops
    <3> QED
      BY <1>2, <2>2, <2>4, <3>1, PairValid
  <2> QED
    BY <1>5, <2>2, <2>3, <2>4 DEF BulkModuleStep
<1>14. StartupPassedHolds'
  BY <1>1, <1>4 DEF StartupPassedHolds, TypeInv, Located, Quiet
<1> QED
  BY <1>6, <1>7, <1>8, <1>11, <1>12, <1>13, <1>14 DEF ModuleInv

----------------------------------------------------------------------------
(***************************************************************************)
(*                     12. A repair and the module                         *)
(***************************************************************************)
\* What the registers say at the next label of a repair, or at its end.
FixBasics(o, h) ==
    /\ o.retained => Holds(o, h, 1) = o.steps[1].profile
    /\ o.verified => Holds(o, h, 1) = o.steps[1].expected
    /\ o.stopVerified => h.acq = 0
FixHolds(l, o, h) ==
    /\ l \in FixLabels => FixSays(l, o, h)
    /\ l = "applied" =>
          /\ FixBasics(o, h)
          /\ o.state = "passed" =>
                /\ o.retained /\ h.selector = 0 /\ h.acq = 0
                /\ h.readout = "clean"
FixLeft(o) == FixHolds(pc', op', hw') /\ Kin(op', o)

\* What a repair's record says carries over to a record that claims no more
\* and a module with the same banks.
LEMMA FixBasicsKept ==
    ASSUME NEW o, NEW b, FixBasics(o, hw), b.steps = o.steps,
           b.retained => o.retained, b.verified => o.verified,
           b.stopVerified => o.stopVerified, hw'.bank = hw.bank,
           hw.acq = 0 => hw'.acq = 0
    PROVE  FixBasics(b, hw')
BY DEF FixBasics, Holds

\* Where a repair goes on, and what it leaves when it does not.
LEMMA RepairReturnSays ==
    ASSUME NEW o, FixBase(o), RepairReturn(o), FixBasics(o, hw'),
           RepairPassed(o) => hw'.selector = 0 /\ hw'.readout = "clean"
    PROVE  FixLeft(o)
<1>1. /\ pc' = "applied" /\ op' \in Ops /\ Kin(op', o)
      /\ (op'.retained <=> o.retained) /\ (op'.verified <=> o.verified)
      /\ (op'.stopVerified <=> o.stopVerified)
      /\ (op'.state = "passed" => RepairPassed(o))
  BY DEF RepairReturn, Go, FixBase, Ops, Kin
<1>2. FixBasics(op', hw')
  BY <1>1 DEF FixBasics, Kin, Holds
<1>3. "applied" \notin FixLabels
  BY LabelFacts
<1> QED
  BY <1>1, <1>2, <1>3 DEF FixLeft, FixHolds, RepairPassed, FixBasics

\* A refused repair claims nothing more of the module, wherever it goes.
LEMMA RepairRefusedSays ==
    ASSUME NEW o, FixBase(o), ~o.ok, ~o.owned, FixBasics(o, hw'),
           RepairReturn(o) \/ RepairVerifyAt(o) \/ RepairResetAt(o)
              \/ RepairParkAt(o)
    PROVE  FixLeft(o)
BY RepairReturnSays DEF RepairVerifyAt, RepairResetAt, RepairParkAt, RepairPassed

\* On its way to the verification a repair's record is true of the module.
LEMMA RepairVerifySays ==
    ASSUME NEW o, FixBase(o), RepairVerifyAt(o), FixBasics(o, hw'),
           o.parked => hw'.selector = 0,
           o.reset /\ o.ok => hw'.readout = "clean"
    PROVE  FixLeft(o)
<1>1. CASE RepairReturn(o)
  BY <1>1, RepairReturnSays DEF RepairPassed
<1>2. CASE Go("fix_verify_gate", o)
  <2>1. pc' = "fix_verify_gate" /\ op' = o
    BY <1>2 DEF Go
  <2>2. FixSays("fix_verify_gate", o, hw')
    BY DEF FixSays, FixBasics, FixWriting, FixUndoing, FixEnding, FixReset
  <2> QED
    BY <2>1, <2>2 DEF FixLeft, FixHolds, Kin
<1> QED
  BY <1>1, <1>2 DEF RepairVerifyAt

\* On its way to the resets a repair's record is true of the module.
LEMMA RepairResetSays ==
    ASSUME NEW o, FixBase(o), RepairResetAt(o), FixBasics(o, hw'), ~o.reset,
           o.parked => hw'.selector = 0
    PROVE  FixLeft(o)
<1>1. CASE RepairVerifyAt(o)
  BY <1>1, RepairVerifySays
<1>2. CASE Go("fix_fifo_gate", o)
  <2>1. pc' = "fix_fifo_gate" /\ op' = o
    BY <1>2 DEF Go
  <2>2. FixSays("fix_fifo_gate", o, hw')
    BY DEF FixSays, FixBasics, FixWriting, FixUndoing, FixEnding, FixReset
  <2> QED
    BY <2>1, <2>2 DEF FixLeft, FixHolds, Kin
<1> QED
  BY <1>1, <1>2 DEF RepairResetAt

\* On its way to the park a repair's record is true of the module.
LEMMA RepairParkSays ==
    ASSUME NEW o, FixBase(o), RepairParkAt(o), FixBasics(o, hw'), ~o.reset,
           ~o.parked
    PROVE  FixLeft(o)
<1>1. CASE RepairResetAt(o)
  BY <1>1, RepairResetSays
<1>2. CASE Go("fix_park_gate", o)
  <2>1. pc' = "fix_park_gate" /\ op' = o
    BY <1>2 DEF Go
  <2>2. FixSays("fix_park_gate", o, hw')
    BY DEF FixSays, FixBasics, FixWriting, FixUndoing, FixEnding, FixReset
  <2> QED
    BY <2>1, <2>2 DEF FixLeft, FixHolds, Kin
<1> QED
  BY <1>1, <1>2 DEF RepairParkAt

\* A repair that fails or loses its ownership.
LEMMA FixKin ==
    ASSUME NEW o, FixBase(o)
    PROVE  \A f \in {Failed(o), Refused(o)} :
              /\ Kin(f, o) /\ FixBase(f) /\ ~f.ok
              /\ (f.retained <=> o.retained) /\ (f.verified <=> o.verified)
              /\ (f.stopVerified <=> o.stopVerified)
              /\ (f.parked <=> o.parked) /\ (f.reset <=> o.reset)
              /\ (f = Refused(o) => ~f.owned)
<1>1. SUFFICES ASSUME NEW f, f = Failed(o) \/ f = Refused(o)
               PROVE  /\ Kin(f, o) /\ FixBase(f) /\ ~f.ok
                      /\ (f.retained <=> o.retained)
                      /\ (f.verified <=> o.verified)
                      /\ (f.stopVerified <=> o.stopVerified)
                      /\ (f.parked <=> o.parked) /\ (f.reset <=> o.reset)
                      /\ (f = Refused(o) => ~f.owned)
  OBVIOUS
<1>2. FixBase(f) /\ ~f.ok
  BY <1>1, FixFailedFacts
<1>3. Refused(o).owned = FALSE
  BY DEF Refused, FixBase, Ops
<1>4. CASE f = Failed(o)
  BY <1>2, <1>3, <1>4 DEF Failed, Kin, FixBase, Ops
<1>5. CASE f = Refused(o)
  BY <1>2, <1>3, <1>5 DEF Refused, Kin, FixBase, Ops
<1> QED
  BY <1>1, <1>4, <1>5

FixHere == TypeInv /\ pc \in FixLabels /\ FixSays(pc, op, hw)
\* What the invariants say at every label of a repair.
LEMMA FixHereFacts ==
    ASSUME FixHere
    PROVE  FixBasics(op, hw) /\ FixBase(op) /\ FixShape(pc, op) /\ op \in Ops
           /\ hw \in Hardware
BY FixFacts DEF FixHere, FixSays, FixBasics, FixBase

\* What a repair may write: the value of the profile where the coupled
\* setting allows it, or the value that was found.
FixWrote(v) ==
    \A q \in Quads, t \in Settings :
        hw'.bank[q][t] =
            IF q = op.steps[1].quad /\ t = op.steps[1].setting
              THEN v ELSE hw.bank[q][t]
FixAllowed ==
    LET quad == hw.bank[op.steps[1].quad] IN
    /\ op.steps[1].setting = Constrained => op.steps[1].profile <= quad[Boundary]
    /\ op.steps[1].setting = Boundary => quad[Constrained] <= op.steps[1].profile
FixModuleStep ==
    /\ FixLeft(op)
    /\ \/ hw'.bank = hw.bank
       \/ FixWrote(op.steps[1].expected)
       \/ FixWrote(op.steps[1].profile) /\ FixAllowed

\* The gates of a repair leave true what its record says of the registers.
LEMMA RepairGatesSay ==
    ASSUME FixHere,
           \/ RepairGate \/ RepairStopGate \/ RepairFifoGate
           \/ RepairReadoutGate \/ RepairVerifyGate
           \/ RepairBankGate \/ RepairWriteGate \/ RepairUndoGate \/ RepairParkGate
    PROVE  FixModuleStep
<1>1. /\ hw' = hw /\ FixBasics(op, hw) /\ FixBase(op) /\ FixShape(pc, op)
      /\ op \in Ops /\ FixSays(pc, op, hw)
  BY FixHereFacts
     DEF FixHere, RepairGate, RepairStopGate, RepairFifoGate, RepairReadoutGate,
         RepairVerifyGate, RepairBankGate, RepairWriteGate, RepairUndoGate,
         RepairParkGate, Gate
<1>2. \/ /\ op' = op
         /\ \/ pc = "fix_gate" /\ pc' = "fix_identity"
            \/ pc = "fix_stop_gate" /\ pc' = "fix_stop"
            \/ pc = "fix_fifo_gate" /\ pc' = "fix_fifo"
            \/ pc = "fix_readout_gate" /\ pc' = "fix_readout"
            \/ pc = "fix_verify_gate" /\ pc' = "fix_verify"
            \/ pc = "fix_bank_gate" /\ pc' = "fix_select"
            \/ pc = "fix_write_gate" /\ pc' = "fix_write"
            \/ pc = "fix_park_gate" /\ pc' = "fix_park"
      \/ /\ op' = [op EXCEPT !.rollback = TRUE]
         /\ pc = "fix_undo_gate" /\ pc' = "fix_undo"
      \/ RepairReturn(Refused(op)) \/ RepairParkAt(Refused(op))
      \/ RepairResetAt(Refused(op))
  BY DEF RepairGate, RepairStopGate, RepairFifoGate, RepairReadoutGate,
         RepairVerifyGate, RepairBankGate, RepairWriteGate, RepairUndoGate,
         RepairParkGate, Gate, On, Go
<1>3. CASE RepairReturn(Refused(op)) \/ RepairParkAt(Refused(op))
             \/ RepairResetAt(Refused(op))
  <2>1. PICK f : f = Refused(op)
    OBVIOUS
  <2>2. /\ Kin(f, op) /\ FixBase(f) /\ ~f.ok /\ ~f.owned
        /\ (f.retained <=> op.retained) /\ (f.verified <=> op.verified)
        /\ (f.stopVerified <=> op.stopVerified)
    BY <1>1, <2>1, FixKin
  <2>3. FixBasics(f, hw')
    BY <1>1, <2>2, FixBasicsKept DEF Kin
  <2>4. FixLeft(f)
    BY <1>3, <2>1, <2>2, <2>3, RepairRefusedSays
  <2> QED
    BY <1>1, <2>2, <2>4 DEF FixModuleStep, FixLeft, Kin
<1>4. CASE op' = op /\ ~(RepairReturn(Refused(op)) \/ RepairParkAt(Refused(op))
                           \/ RepairResetAt(Refused(op)))
  <2>1. pc' # "applied" /\ FixSays(pc', op, hw)
    BY <1>1, <1>2, <1>4
       DEF FixSays, FixWriting, FixUndoing, FixEnding, FixReset, Ops
  <2> QED
    BY <1>1, <1>4, <2>1 DEF FixModuleStep, FixLeft, FixHolds, Kin
<1>5. CASE /\ op' = [op EXCEPT !.rollback = TRUE]
           /\ pc = "fix_undo_gate" /\ pc' = "fix_undo"
  <2>1. /\ Kin(op', op) /\ op'.selected = op.selected
        /\ (op'.retained => op.retained) /\ (op'.verified => op.verified)
        /\ (op'.stopVerified => op.stopVerified) /\ (op'.ok => op.ok)
        /\ (op'.parked <=> op.parked) /\ (op'.reset <=> op.reset)
    BY <1>1, <1>5 DEF Ops, Kin
  <2>2. FixSays("fix_undo", op', hw')
    BY <1>1, <1>5, <2>1
       DEF FixSays, FixWriting, FixUndoing, FixEnding, FixReset, Kin, Holds
  <2> QED
    BY <1>1, <1>5, <2>1, <2>2 DEF FixModuleStep, FixLeft, FixHolds
<1> QED
  BY <1>2, <1>3, <1>4, <1>5

\* A repair that fails on a step that left the banks alone claims nothing
\* false.
LEMMA FixFailsHere ==
    ASSUME FixHere, hw'.bank = hw.bank, hw.acq = 0 => hw'.acq = 0,
           \/ RepairReturn(Failed(op))
           \/ RepairParkAt(Failed(op)) /\ pc \notin FixEnding
    PROVE  FixLeft(op)
<1>1. PICK f : f = Failed(op)
  OBVIOUS
<1>2. /\ Kin(f, op) /\ FixBase(f) /\ ~f.ok
      /\ (f.retained <=> op.retained) /\ (f.verified <=> op.verified)
      /\ (f.stopVerified <=> op.stopVerified)
      /\ (f.parked <=> op.parked) /\ (f.reset <=> op.reset)
  BY <1>1, FixHereFacts, FixKin
<1>3. FixBasics(f, hw')
  BY <1>2, FixHereFacts, FixBasicsKept DEF Kin
<1>4. FixLeft(f)
  <2>1. CASE RepairReturn(f)
    BY <1>2, <1>3, <2>1, RepairReturnSays DEF RepairPassed
  <2>2. CASE RepairParkAt(f) /\ pc \notin FixEnding
    <3>1. ~f.parked /\ ~f.reset
      BY <1>2, <2>2 DEF FixHere, FixSays, FixEnding, FixReset
    <3> QED
      BY <1>2, <1>3, <2>2, <3>1, RepairParkSays
  <2> QED
    BY <1>1, <2>1, <2>2
<1> QED
  BY <1>2, <1>4 DEF FixLeft, Kin

\* The readings of a repair.
LEMMA RepairReadsSay ==
    ASSUME FixHere, RepairIdentity \/ RepairStopVerify \/ RepairRead
                      \/ RepairReadback \/ RepairUndoReadback \/ RepairVerify
    PROVE  FixModuleStep
<1> DEFINE stopped == [op EXCEPT !.stopVerified = TRUE]
           left == [op EXCEPT !.leftStopped = TRUE]
           kept == [op EXCEPT !.retained = TRUE]
           undone == [op EXCEPT !.verified = TRUE]
<1>1. /\ hw' = hw /\ FixBasics(op, hw) /\ FixBase(op) /\ FixShape(pc, op)
      /\ op \in Ops /\ FixSays(pc, op, hw) /\ hw \in Hardware
      /\ Step = op.steps[1] /\ Step.setting \in Settings /\ Step.quad \in Quads
  BY FixHereFacts, FixFacts
     DEF FixHere, RepairIdentity, RepairStopVerify, RepairRead, RepairReadback,
         RepairUndoReadback, RepairVerify, Read
<1>2. \/ /\ op' = stopped /\ pc' = "fix_bank_gate" /\ hw.acq = 0
         /\ pc \in {"fix_identity", "fix_stop_verify"}
      \/ op' = op /\ pc' = "fix_stop_gate" /\ pc = "fix_identity"
      \/ /\ op' = op /\ pc' = "fix_write_gate" /\ pc = "fix_read"
         /\ DependencyAllows(Step.setting, Step.profile)
         /\ LiveValue(Step.setting) = Step.expected
      \/ op' = Failed(op) /\ pc' = "fix_undo_gate" /\ pc = "fix_readback"
      \/ /\ RepairParkAt(kept) /\ pc = "fix_readback"
         /\ LiveValue(Step.setting) = Step.profile
      \/ /\ RepairParkAt(undone) /\ pc = "fix_undo_readback"
         /\ LiveValue(Step.setting) = Step.expected
      \/ RepairParkAt(op) /\ pc = "fix_undo_readback"
      \/ RepairReturn(left) /\ pc = "fix_verify"
      \/ RepairReturn(Failed(op))
      \/ RepairParkAt(Failed(op)) /\ pc = "fix_read"
  BY DEF RepairIdentity, RepairStopVerify, RepairRead, RepairReadback,
         RepairUndoReadback, RepairVerify, Read, On, Go
<1>3. SUFFICES FixLeft(op)
  BY <1>1 DEF FixModuleStep
<1>4. CASE RepairReturn(Failed(op)) \/ (RepairParkAt(Failed(op)) /\ pc = "fix_read")
  BY <1>1, <1>4, FixFailsHere DEF FixEnding, FixReset
<1>5. CASE /\ op' = stopped /\ pc' = "fix_bank_gate" /\ hw.acq = 0
           /\ pc \in {"fix_identity", "fix_stop_verify"}
  <2>1. /\ Kin(op', op) /\ (op'.retained <=> op.retained)
        /\ (op'.verified <=> op.verified) /\ (op'.ok <=> op.ok)
        /\ (op'.parked <=> op.parked) /\ (op'.reset <=> op.reset)
    BY <1>1, <1>5 DEF Ops, Kin
  <2>2. FixSays("fix_bank_gate", op', hw')
    BY <1>1, <1>5, <2>1
       DEF FixSays, FixBegin, FixWriting, FixUndoing, FixEnding, FixReset, Kin,
           Holds
  <2> QED
    BY <1>5, <2>1, <2>2 DEF FixLeft, FixHolds
<1>6. CASE op' = op /\ pc' = "fix_stop_gate" /\ pc = "fix_identity"
  <2>1. FixSays("fix_stop_gate", op, hw')
    BY <1>1, <1>6 DEF FixSays, FixWriting, FixUndoing, FixEnding, FixReset
  <2> QED
    BY <1>6, <2>1 DEF FixLeft, FixHolds, Kin
<1>7. CASE /\ op' = op /\ pc' = "fix_write_gate" /\ pc = "fix_read"
           /\ DependencyAllows(Step.setting, Step.profile)
           /\ LiveValue(Step.setting) = Step.expected
  <2>1. hw.selector = op.steps[1].quad /\ op.selected = op.steps[1].quad
    BY <1>1, <1>7 DEF FixSays, FixShape, FixWriting
  <2>2. hw.bank[op.steps[1].quad][op.steps[1].setting] = op.steps[1].expected
    BY <1>1, <1>7, <2>1 DEF LiveValue
  <2>3. FixAllowed
    <3>1. CASE op.steps[1].setting = Constrained
      BY <1>1, <1>7, <2>1, <3>1
         DEF DependencyAllows, DependencySatisfied, LiveValue, Constrained,
             Boundary, FixAllowed
    <3>2. CASE op.steps[1].setting = Boundary
      BY <1>1, <1>7, <2>1, <3>2
         DEF DependencyAllows, DependencySatisfied, LiveValue, Constrained,
             Boundary, FixAllowed
    <3> QED
      BY <3>1, <3>2 DEF FixAllowed
  <2>4. FixSays("fix_write_gate", op, hw')
    BY <1>1, <1>7, <2>1, <2>2, <2>3
       DEF FixSays, FixWriting, FixUndoing, FixEnding, FixReset, FixAllowed
  <2> QED
    BY <1>7, <2>4 DEF FixLeft, FixHolds, Kin
<1>8. CASE op' = Failed(op) /\ pc' = "fix_undo_gate" /\ pc = "fix_readback"
  <2>1. /\ Kin(op', op) /\ (op'.retained <=> op.retained)
        /\ (op'.verified <=> op.verified) /\ ~op'.ok
        /\ (op'.stopVerified <=> op.stopVerified)
        /\ (op'.parked <=> op.parked) /\ (op'.reset <=> op.reset)
    BY <1>1, <1>8, FixKin
  <2>2. op'.selected = op.selected
    BY <1>1, <1>8 DEF Failed, Ops
  <2>3. FixSays("fix_undo_gate", op', hw')
    BY <1>1, <1>8, <2>1, <2>2
       DEF FixSays, FixWriting, FixUndoing, FixEnding, FixReset, Kin, Holds
  <2> QED
    BY <1>8, <2>1, <2>3 DEF FixLeft, FixHolds
<1>9. CASE /\ RepairParkAt(kept) /\ pc = "fix_readback"
           /\ LiveValue(Step.setting) = Step.profile
  <2>1. hw.selector = op.steps[1].quad /\ op.attempted = 1 /\ ~op.verified
    BY <1>1, <1>9 DEF FixSays, FixShape, Fresh
  <2>2. /\ FixBase(kept) /\ Kin(kept, op) /\ ~kept.verified
        /\ (kept.stopVerified <=> op.stopVerified)
        /\ (kept.parked <=> op.parked) /\ (kept.reset <=> op.reset)
    BY <1>1, <2>1 DEF FixBase, Ops, Kin
  <2>3. Holds(op, hw, 1) = op.steps[1].profile
    BY <1>1, <1>9, <2>1 DEF LiveValue, Holds
  <2> HIDE DEF kept
  <2>4. FixBasics(kept, hw')
    BY <1>1, <2>2, <2>3 DEF FixBasics, Holds, Kin
  <2>5. ~kept.parked /\ ~kept.reset
    BY <1>1, <1>9, <2>2 DEF FixSays, FixEnding, FixReset
  <2>6. FixLeft(kept)
    BY <1>9, <2>2, <2>4, <2>5, RepairParkSays
  <2> QED
    BY <2>2, <2>6 DEF FixLeft, Kin
<1>10. CASE /\ RepairParkAt(undone) /\ pc = "fix_undo_readback"
            /\ LiveValue(Step.setting) = Step.expected
  <2>1. hw.selector = op.steps[1].quad /\ ~op.retained /\ ~op.ok
    BY <1>1, <1>10 DEF FixSays, FixShape, FixUndoing
  <2>2. /\ FixBase(undone) /\ Kin(undone, op) /\ ~undone.retained
        /\ (undone.stopVerified <=> op.stopVerified)
        /\ (undone.parked <=> op.parked) /\ (undone.reset <=> op.reset)
    BY <1>1, <2>1 DEF FixBase, Ops, Kin
  <2>3. Holds(op, hw, 1) = op.steps[1].expected
    BY <1>1, <1>10, <2>1 DEF LiveValue, Holds
  <2> HIDE DEF undone
  <2>4. FixBasics(undone, hw')
    BY <1>1, <2>2, <2>3 DEF FixBasics, Holds, Kin
  <2>5. ~undone.parked /\ ~undone.reset
    BY <1>1, <1>10, <2>2 DEF FixSays, FixEnding, FixReset
  <2>6. FixLeft(undone)
    BY <1>10, <2>2, <2>4, <2>5, RepairParkSays
  <2> QED
    BY <2>2, <2>6 DEF FixLeft, Kin
<1>11. CASE RepairParkAt(op) /\ pc = "fix_undo_readback"
  <2>1. ~op.parked /\ ~op.reset
    BY <1>1, <1>11 DEF FixSays, FixEnding, FixReset
  <2> QED
    BY <1>1, <1>11, <2>1, RepairParkSays
<1>12. CASE RepairReturn(left) /\ pc = "fix_verify"
  <2>1. /\ FixBase(left) /\ Kin(left, op)
        /\ (left.retained <=> op.retained) /\ (left.verified <=> op.verified)
        /\ (left.stopVerified <=> op.stopVerified) /\ (left.ok <=> op.ok)
        /\ (left.parked <=> op.parked) /\ (left.reset <=> op.reset)
    BY <1>1 DEF FixBase, Ops, Kin
  <2> HIDE DEF left
  <2>2. FixBasics(left, hw')
    BY <1>1, <2>1, FixBasicsKept DEF Kin
  <2>3. RepairPassed(left) => hw'.selector = 0 /\ hw'.readout = "clean"
    BY <1>1, <1>12, <2>1 DEF FixSays, RepairPassed
  <2>4. FixLeft(left)
    BY <1>12, <2>1, <2>2, <2>3, RepairReturnSays
  <2> QED
    BY <2>1, <2>4 DEF FixLeft, Kin
<1> QED
  BY <1>2, <1>4, <1>5, <1>6, <1>7, <1>8, <1>9, <1>10, <1>11, <1>12

\* The writes of a repair that leave the banks alone.
LEMMA RepairPlainWritesSay ==
    ASSUME FixHere, RepairStop \/ RepairSelect \/ RepairPark \/ RepairResetFifo
                      \/ RepairResetReadout
    PROVE  FixModuleStep
<1> DEFINE chosen == [op EXCEPT !.selected = Step.quad]
           parked == [op EXCEPT !.parked = TRUE]
           reset == [op EXCEPT !.reset = TRUE]
<1>1. /\ FixBasics(op, hw) /\ FixBase(op) /\ FixShape(pc, op)
      /\ op \in Ops /\ FixSays(pc, op, hw) /\ hw \in Hardware
      /\ Step = op.steps[1] /\ Step.setting \in Settings /\ Step.quad \in Quads
  BY FixHereFacts, FixFacts DEF FixHere
<1>2. \/ /\ pc = "fix_stop" /\ hw' \in {hw, StopAcquisition}
         /\ RepairReturn(Failed(op)) \/ (op' = op /\ pc' = "fix_stop_verify")
      \/ /\ pc = "fix_select" /\ hw' \in {hw, Select(Step.quad)}
         /\ \/ RepairParkAt(Failed(op))
            \/ op' = chosen /\ pc' = "fix_read" /\ hw' = Select(Step.quad)
      \/ /\ pc = "fix_park" /\ hw' \in {hw, Select(0)}
         /\ \/ RepairResetAt(Failed(op))
            \/ RepairResetAt(parked) /\ hw' = Select(0)
      \/ /\ pc = "fix_fifo" /\ hw' \in {hw, ResetFifo} /\ pc' = "fix_readout_gate"
         /\ op' = Failed(op) \/ (op' = op /\ hw' = ResetFifo)
      \/ /\ pc = "fix_readout" /\ hw' \in {hw, ResetReadout}
         /\ \/ RepairVerifyAt(Failed(op))
            \/ RepairVerifyAt(reset) /\ hw' = ResetReadout
  BY DEF RepairStop, RepairSelect, RepairPark, RepairResetFifo,
         RepairResetReadout, Store, Write, On, Go
<1>3. hw'.bank = hw.bank /\ (hw.acq = 0 => hw'.acq = 0)
  BY <1>1, <1>2, StopFacts, SelectFacts, ResetFacts, QuadFacts
<1>4. SUFFICES FixLeft(op)
  BY <1>3 DEF FixModuleStep
<1>5. PICK f : f = Failed(op)
  OBVIOUS
<1>6. /\ Kin(f, op) /\ FixBase(f) /\ ~f.ok
      /\ (f.retained <=> op.retained) /\ (f.verified <=> op.verified)
      /\ (f.stopVerified <=> op.stopVerified)
      /\ (f.parked <=> op.parked) /\ (f.reset <=> op.reset)
  BY <1>1, <1>5, FixKin
<1>7. FixBasics(f, hw') /\ FixBasics(op, hw')
  BY <1>1, <1>3, <1>6, FixBasicsKept DEF Kin
<1>8. CASE /\ pc = "fix_stop"
           /\ RepairReturn(Failed(op)) \/ (op' = op /\ pc' = "fix_stop_verify")
  <2>1. CASE RepairReturn(Failed(op))
    BY <1>3, <2>1, FixFailsHere
  <2>2. CASE op' = op /\ pc' = "fix_stop_verify"
    <3>1. FixSays("fix_stop_verify", op, hw')
      BY <1>1, <1>7, <1>8
         DEF FixSays, FixBasics, FixBegin, FixWriting, FixUndoing, FixEnding,
             FixReset
    <3> QED
      BY <2>2, <3>1 DEF FixLeft, FixHolds, Kin
  <2> QED
    BY <1>8, <2>1, <2>2
<1>9. CASE /\ pc = "fix_select"
           /\ \/ RepairParkAt(Failed(op))
              \/ op' = chosen /\ pc' = "fix_read" /\ hw' = Select(Step.quad)
  <2>1. CASE RepairParkAt(Failed(op))
    BY <1>3, <1>9, <2>1, FixFailsHere DEF FixEnding, FixReset
  <2>2. CASE op' = chosen /\ pc' = "fix_read" /\ hw' = Select(Step.quad)
    <3>1. /\ Kin(op', op) /\ (op'.retained <=> op.retained)
          /\ (op'.verified <=> op.verified) /\ (op'.ok <=> op.ok)
          /\ (op'.stopVerified <=> op.stopVerified)
          /\ (op'.parked <=> op.parked) /\ (op'.reset <=> op.reset)
          /\ op'.selected = Step.quad
      BY <1>1, <2>2 DEF Ops, Kin
    <3>2. hw'.selector = Step.quad /\ hw'.readout = hw.readout
      BY <1>1, <2>2, SelectFacts
    <3>3. ~op.parked /\ ~op.reset
      BY <1>1, <1>9 DEF FixSays, FixEnding, FixReset
    <3>4. FixSays("fix_read", op', hw')
      BY <1>7, <3>1, <3>2, <3>3
         DEF FixSays, FixBasics, FixBegin, FixWriting, FixUndoing, FixEnding,
             FixReset, Kin, Holds
    <3> QED
      BY <2>2, <3>1, <3>4 DEF FixLeft, FixHolds
  <2> QED
    BY <1>9, <2>1, <2>2
<1>10. CASE /\ pc = "fix_park"
            /\ \/ RepairResetAt(Failed(op))
               \/ RepairResetAt(parked) /\ hw' = Select(0)
  <2>0. ~op.reset
    BY <1>1, <1>10 DEF FixSays
  <2>1. CASE RepairResetAt(parked) /\ hw' = Select(0)
    <3>1. /\ FixBase(parked) /\ Kin(parked, op)
          /\ (parked.retained <=> op.retained)
          /\ (parked.verified <=> op.verified)
          /\ (parked.stopVerified <=> op.stopVerified)
          /\ (parked.reset <=> op.reset)
      BY <1>1 DEF FixBase, Ops, Kin
    <3> HIDE DEF parked
    <3>2. FixBasics(parked, hw') /\ hw'.selector = 0
      BY <1>1, <1>7, <2>1, <3>1, QuadFacts, SelectFacts
         DEF FixBasics, Holds, Kin
    <3>3. FixLeft(parked)
      BY <2>0, <2>1, <3>1, <3>2, RepairResetSays
    <3> QED
      BY <3>1, <3>3 DEF FixLeft, Kin
  <2>2. CASE RepairResetAt(Failed(op))
    <3>1. ~op.parked
      BY <1>1, <1>10 DEF FixSays, FixReset
    <3>2. FixLeft(f)
      BY <1>5, <1>6, <1>7, <2>0, <2>2, <3>1, RepairResetSays
    <3> QED
      BY <1>6, <3>2 DEF FixLeft, Kin
  <2> QED
    BY <1>10, <2>1, <2>2
<1>11. CASE /\ pc = "fix_fifo" /\ pc' = "fix_readout_gate"
            /\ op' = Failed(op) \/ (op' = op /\ hw' = ResetFifo)
  <2>1. /\ op.parked => hw'.selector = 0
        /\ ~op.reset
    BY <1>1, <1>2, <1>11, ResetFacts DEF FixSays, FixReset
  <2>2. /\ Kin(op', op) /\ FixBasics(op', hw')
        /\ (op'.parked <=> op.parked) /\ (op'.reset <=> op.reset)
        /\ op'.ok => hw'.readout = "fifo"
    BY <1>1, <1>5, <1>6, <1>7, <1>11, ResetFacts DEF Kin
  <2>3. FixSays("fix_readout_gate", op', hw')
    BY <2>1, <2>2
       DEF FixSays, FixBasics, FixBegin, FixWriting, FixUndoing, FixEnding,
           FixReset
  <2> QED
    BY <1>11, <2>2, <2>3 DEF FixLeft, FixHolds
<1>12. CASE /\ pc = "fix_readout"
            /\ \/ RepairVerifyAt(Failed(op))
               \/ RepairVerifyAt(reset) /\ hw' = ResetReadout
  <2>1. /\ op.parked => hw'.selector = 0
        /\ ~op.reset /\ (op.ok => hw.readout = "fifo")
    BY <1>1, <1>2, <1>12, ResetFacts DEF FixSays, FixReset
  <2>2. CASE RepairVerifyAt(Failed(op))
    <3>1. FixLeft(f)
      BY <1>5, <1>6, <1>7, <2>1, <2>2, RepairVerifySays
    <3> QED
      BY <1>6, <3>1 DEF FixLeft, Kin
  <2>3. CASE RepairVerifyAt(reset) /\ hw' = ResetReadout
    <3>1. /\ FixBase(reset) /\ Kin(reset, op)
          /\ (reset.retained <=> op.retained)
          /\ (reset.verified <=> op.verified)
          /\ (reset.stopVerified <=> op.stopVerified)
          /\ (reset.parked <=> op.parked) /\ (reset.ok <=> op.ok)
      BY <1>1 DEF FixBase, Ops, Kin
    <3> HIDE DEF reset
    <3>2. FixBasics(reset, hw')
      BY <1>7, <3>1 DEF FixBasics, Holds, Kin
    <3>3. reset.ok => hw'.readout = "clean"
      BY <1>1, <2>1, <2>3, <3>1, ResetFacts
    <3>4. FixLeft(reset)
      BY <2>1, <2>3, <3>1, <3>2, <3>3, RepairVerifySays
    <3> QED
      BY <3>1, <3>4 DEF FixLeft, Kin
  <2> QED
    BY <1>12, <2>2, <2>3
<1> QED
  BY <1>2, <1>8, <1>9, <1>10, <1>11, <1>12

\* The writes of a repair to the bank it has selected.
LEMMA RepairBankWritesSay ==
    ASSUME FixHere, RepairWrite \/ RepairUndo
    PROVE  FixModuleStep
<1> DEFINE tried == [op EXCEPT !.attempted = 1]
<1>1. /\ FixBasics(op, hw) /\ FixBase(op) /\ FixShape(pc, op)
      /\ op \in Ops /\ FixSays(pc, op, hw) /\ hw \in Hardware
      /\ Step = op.steps[1] /\ Step.setting \in Settings /\ Step.quad \in Quads
      /\ Step.expected \in Values /\ Step.profile \in Values
  BY FixHereFacts, FixFacts DEF FixHere
<1>2. \/ /\ pc = "fix_write"
         /\ hw' \in {hw, SetBanked(Step.setting, Step.profile)}
         /\ \/ op' = tried /\ pc' = "fix_readback"
            \/ op' = Failed(tried) /\ pc' = "fix_undo_gate"
      \/ /\ pc = "fix_undo"
         /\ hw' \in {hw, SetBanked(Step.setting, Step.expected)}
         /\ \/ op' = op /\ pc' = "fix_undo_readback"
            \/ RepairParkAt(op)
  BY DEF RepairWrite, RepairUndo, Store, Write, On, Go
<1>3. /\ hw.selector = op.steps[1].quad /\ op.selected = op.steps[1].quad
      /\ ~op.parked /\ ~op.reset /\ ~op.retained /\ ~op.verified
  BY <1>1, <1>2
     DEF FixSays, FixShape, Fresh, FixWriting, FixUndoing, FixEnding, FixReset
<1>4. /\ hw'.selector = hw.selector /\ hw'.acq = hw.acq
      /\ \/ hw'.bank = hw.bank
         \/ FixWrote(op.steps[1].expected)
         \/ FixWrote(op.steps[1].profile) /\ pc = "fix_write"
  <2>1. CASE hw' = hw
    BY <2>1
  <2>2. CASE pc = "fix_write" /\ hw' = SetBanked(Step.setting, Step.profile)
    BY <1>1, <1>3, <2>2, SetBankedFacts DEF FixWrote
  <2>3. CASE pc = "fix_undo" /\ hw' = SetBanked(Step.setting, Step.expected)
    BY <1>1, <1>3, <2>3, SetBankedFacts DEF FixWrote
  <2> QED
    BY <1>2, <2>1, <2>2, <2>3
<1>5. pc = "fix_write" => FixAllowed
  BY <1>1 DEF FixSays, FixAllowed
<1>6. FixBasics(op, hw')
  BY <1>1, <1>3, <1>4 DEF FixBasics
<1>7. SUFFICES FixLeft(op)
  BY <1>4, <1>5 DEF FixModuleStep
<1>8. CASE op' = tried /\ pc' = "fix_readback"
  <2>1. /\ Kin(op', op) /\ (op'.retained <=> op.retained)
        /\ (op'.verified <=> op.verified)
        /\ (op'.stopVerified <=> op.stopVerified)
        /\ (op'.parked <=> op.parked) /\ (op'.reset <=> op.reset)
        /\ op'.selected = op.selected
    BY <1>1, <1>8 DEF Ops, Kin
  <2>2. FixSays("fix_readback", op', hw')
    BY <1>3, <1>4, <1>6, <2>1
       DEF FixSays, FixBasics, FixWriting, FixUndoing, FixEnding, FixReset
  <2> QED
    BY <1>8, <2>1, <2>2 DEF FixLeft, FixHolds
<1>9. CASE op' = Failed(tried) /\ pc' = "fix_undo_gate"
  <2>1. /\ Kin(op', op) /\ (op'.retained <=> op.retained)
        /\ (op'.verified <=> op.verified)
        /\ (op'.stopVerified <=> op.stopVerified)
        /\ (op'.parked <=> op.parked) /\ (op'.reset <=> op.reset)
        /\ op'.selected = op.selected
    BY <1>1, <1>9 DEF Ops, Kin, Failed
  <2>2. FixSays("fix_undo_gate", op', hw')
    BY <1>3, <1>4, <1>6, <2>1
       DEF FixSays, FixBasics, FixWriting, FixUndoing, FixEnding, FixReset
  <2> QED
    BY <1>9, <2>1, <2>2 DEF FixLeft, FixHolds
<1>10. CASE op' = op /\ pc' = "fix_undo_readback"
  <2>1. FixSays("fix_undo_readback", op, hw')
    BY <1>3, <1>4, <1>6
       DEF FixSays, FixBasics, FixWriting, FixUndoing, FixEnding, FixReset
  <2> QED
    BY <1>10, <2>1 DEF FixLeft, FixHolds, Kin
<1>11. CASE RepairParkAt(op)
  BY <1>1, <1>3, <1>6, <1>11, RepairParkSays
<1> QED
  BY <1>2, <1>8, <1>9, <1>10, <1>11

\* Every undisturbed step of a repair leaves true what its record says of the
\* registers.
LEMMA RepairNextSays ==
    ASSUME TypeInv, ModuleInv, Undisturbed, RepairNext
    PROVE  FixModuleStep
<1>1. FixHere
  BY RepairNextStep DEF FixHere, ModuleInv, OperationSays
<1> QED
  BY <1>1, RepairGatesSay, RepairReadsSay, RepairPlainWritesSay,
     RepairBankWritesSay DEF RepairNext

\* A step of a repair keeps the module invariant.
LEMMA RepairStays ==
    ASSUME TypeInv, ModuleInv, RepairNext
    PROVE  ModuleInv'
<1>1. /\ pc \in FixLabels /\ StepFrame /\ FixTo(pc', op', op) /\ cap' = cap
      /\ TypeInv'
  BY RepairNextStep, RepairKept DEF FixStep
<1>2. /\ pc' \in FixLabels \cup {"applied"}
      /\ mvme' = mvme /\ op'.began = op.began
      /\ op' \in Ops /\ hw' \in Hardware /\ hw \in Hardware /\ op \in Ops
      /\ pc' = "applied" => op'.kind = "repair"
  BY <1>1, LabelFacts DEF FixTo, StepFrame, TypeInv, TypeOK
<1>3. /\ Alone => Undisturbed
      /\ Alone' <=> Alone
      /\ Undisturbed' <=> Undisturbed
  BY <1>2, UndisturbedFacts
<1>4. pc' \notin BulkLabels \cup PrepLabels \cup CapLabels \cup Quiet
                  \cup (CapReturns \ {"idle"}) \cup StartupLabels
  BY <1>2 DEF BulkLabels, BulkBegin, BulkWriting, BulkUndoing, BulkEnding,
       FixLabels, FixBegin, FixWriting, FixUndoing, FixEnding,
       FixReset, PrepLabels, PrepBegin, PrepWriting, PrepReset, PrepUndoing,
       PrepEnding, CapLabels, Quiet, CapReturns, StartupLabels
<1>5. Undisturbed => FixModuleStep
  BY RepairNextSays
<1>6. CapReturned' /\ CapSays' /\ FreshSays' /\ StartupSays'
  BY <1>4 DEF CapReturned, CapSays, FreshSays, StartupSays, InStartup
<1>7. OperationSays'
  BY <1>3, <1>4, <1>5 DEF OperationSays, FixModuleStep, FixLeft, FixHolds
<1>8. Ended' => pc' = "applied"
  BY <1>4 DEF Ended, StartupLabels
<1>9. /\ op.kind = "repair" /\ Len(op.steps) = 1 /\ op.steps \in Seq(BankStep)
      /\ op.steps[1].quad \in Quads /\ op.steps[1].setting \in Settings
      /\ op.steps[1].expected = op.live.bank[op.steps[1].quad][op.steps[1].setting]
  BY <1>1, FixFacts DEF FixShape, BankStep
<1>10. Undisturbed => /\ op'.steps = op.steps /\ op'.live = op.live
                      /\ op'.kind = op.kind /\ (op'.safe => op.safe)
  BY <1>5 DEF FixModuleStep, FixLeft, Kin
<1>11. Undisturbed /\ pc' = "applied" =>
          /\ FixBasics(op', hw')
          /\ op'.state = "passed" =>
                /\ op'.retained /\ hw'.selector = 0 /\ hw'.acq = 0
                /\ hw'.readout = "clean"
  BY <1>5 DEF FixModuleStep, FixLeft, FixHolds
<1>12. PassedIsApplied'
  BY <1>2, <1>3, <1>8, <1>11 DEF PassedIsApplied, FixBasics, Holds
<1>13. VerifiedRollbackRestores'
  <2>1. SUFFICES ASSUME Ended', op'.state = "failed", op'.verified, Undisturbed
                 PROVE  /\ op'.kind = "repair"
                        /\ \A i \in DOMAIN op'.steps :
                              op'.steps[i].expected =
                                 hw'.bank[op'.steps[i].quad][op'.steps[i].setting]
    BY <1>3 DEF VerifiedRollbackRestores
  <2>2. DOMAIN op'.steps = {1}
    BY <1>9, <1>10, <2>1
  <2> QED
    BY <1>2, <1>8, <1>11, <2>1, <2>2 DEF FixBasics, Holds
<1>14. RepairAlone'
  <2>1. SUFFICES ASSUME Alone, pc' \in FixLabels, NEW q \in Quads,
                        NEW s \in Settings,
                        q # op.steps[1].quad \/ s # op.steps[1].setting
                 PROVE  hw'.bank[q][s] = op.live.bank[q][s]
    BY <1>3, <1>10 DEF RepairAlone, FixAlone
  <2>2. hw.bank[q][s] = op.live.bank[q][s]
    BY <1>1, <2>1 DEF ModuleInv, RepairAlone, FixAlone
  <2> QED
    BY <1>3, <1>5, <2>1, <2>2 DEF FixModuleStep, FixWrote
<1>15. PairsStayValid'
  <2>1. SUFFICES ASSUME Alone, op'.safe, NEW q \in Quads, op'.kind # "none",
                        Coupled(op'.live.bank[q])
                 PROVE  Coupled(hw'.bank[q])
    BY <1>3 DEF PairsStayValid
  <2>2. /\ op.safe /\ op.kind = op'.kind /\ Coupled(op.live.bank[q])
        /\ op.live = op'.live /\ Undisturbed
    BY <1>3, <1>10, <2>1
  <2>3. Coupled(hw.bank[q])
    BY <1>9, <2>1, <2>2 DEF ModuleInv, PairsStayValid
  <2>4. Constrained \in Settings /\ Boundary \in Settings
        /\ Constrained # Boundary
    BY DEF Constrained, Boundary, Settings
  <2>5. CASE hw'.bank = hw.bank
    BY <2>3, <2>5
  <2>6. CASE FixWrote(op.steps[1].expected)
    <3>1. FixAlone(op, hw)
      BY <1>1, <2>1 DEF ModuleInv, RepairAlone
    <3>2. ASSUME NEW s \in Settings PROVE hw'.bank[q][s] = op.live.bank[q][s]
      <4>1. CASE q = op.steps[1].quad /\ s = op.steps[1].setting
        BY <1>9, <2>6, <4>1 DEF FixWrote
      <4>2. CASE ~(q = op.steps[1].quad /\ s = op.steps[1].setting)
        <5>1. hw'.bank[q][s] = hw.bank[q][s]
          BY <2>6, <4>2 DEF FixWrote
        <5>2. hw.bank[q][s] = op.live.bank[q][s]
          BY <3>1, <4>2 DEF FixAlone
        <5> QED
          BY <5>1, <5>2
      <4> QED
        BY <4>1, <4>2
    <3> QED
      BY <2>2, <2>4, <3>2 DEF Coupled, DependencySatisfied
  <2>7. CASE FixWrote(op.steps[1].profile) /\ FixAllowed
    <3>1. CASE q # op.steps[1].quad
      BY <2>3, <2>4, <2>7, <3>1 DEF FixWrote, Coupled, DependencySatisfied
    <3>2. CASE q = op.steps[1].quad
      BY <2>3, <2>4, <2>7, <3>2
         DEF FixWrote, FixAllowed, Coupled, DependencySatisfied
    <3> QED
      BY <3>1, <3>2
  <2> QED
    BY <1>5, <2>2, <2>5, <2>6, <2>7 DEF FixModuleStep
<1>16. StartupPassedHolds'
  BY <1>1, <1>4 DEF StartupPassedHolds, TypeInv, Located, Quiet
<1> QED
  BY <1>6, <1>7, <1>12, <1>13, <1>14, <1>15, <1>16 DEF ModuleInv

----------------------------------------------------------------------------
(***************************************************************************)
(*            13. The startup preparation and the module                   *)
(***************************************************************************)
PrepDistinct(o) ==
    \A i, j \in 1 .. Len(o.steps) :
       i # j => o.steps[i].setting # o.steps[j].setting
PrepBasics(o, h) == PrepDistinct(o) /\ (o.stopVerified => h.acq = 0)
Ready(h) == h.readout = "clean" /\ h.irq = 1 /\ h.mblt = 1

\* What the registers say at the next label of the preparation, or at its end.
PrepHolds(l, o, h) ==
    /\ l \in PrepLabels => PrepSays(l, o, h)
    /\ l = "startup_prepared" =>
          /\ o.state = "passed" => Ready(h) /\ h.acq = 0
          /\ o.state = "failed" /\ o.verified => PrepAt(o, h, 0, 0)
PrepLeft(o) ==
    /\ PrepHolds(pc', op', hw')
    /\ op'.live = o.live /\ op'.kind = o.kind /\ (op'.safe => o.safe)

\* Where the preparation goes on.
LEMMA PreparationReturnSays ==
    ASSUME NEW o, PrepBase(o), PreparationReturn(o), PrepBasics(o, hw'),
           PreparationPassed(o) => Ready(hw'),
           o.verified => PrepAt(o, hw', 0, 0)
    PROVE  PrepLeft(o)
<1>1. /\ pc' = "startup_prepared" /\ op' \in Ops /\ op'.live = o.live
      /\ op'.kind = o.kind /\ (op'.safe <=> o.safe) /\ op'.steps = o.steps
      /\ (op'.verified <=> o.verified)
      /\ (op'.state = "passed" => PreparationPassed(o))
  BY DEF PreparationReturn, Go, PrepBase, Ops
<1>2. op'.verified => PrepAt(op', hw', 0, 0)
  BY <1>1 DEF PrepAt
<1>3. "startup_prepared" \notin PrepLabels
  BY LabelFacts
<1> QED
  BY <1>1, <1>2, <1>3 DEF PrepLeft, PrepHolds, PreparationPassed, PrepBasics

\* On its way to the stop check a preparation's record is true of the module.
LEMMA StoppedAtSays ==
    ASSUME NEW o, PrepBase(o), StoppedAt(o), PrepBasics(o, hw'),
           o.ok /\ o.reset => Ready(hw'), o.verified => PrepAt(o, hw', 0, 0)
    PROVE  PrepLeft(o)
<1>1. CASE PreparationReturn(o)
  BY <1>1, PreparationReturnSays DEF PreparationPassed
<1>2. CASE Go("prep_stopped_gate", o)
  <2>1. pc' = "prep_stopped_gate" /\ op' = o
    BY <1>2 DEF Go
  <2>2. PrepSays("prep_stopped_gate", o, hw')
    BY DEF PrepSays, PrepBasics, PrepDistinct, Ready, PrepBegin, PrepWriting,
           PrepReset, PrepUndoing, PrepEnding
  <2> QED
    BY <2>1, <2>2 DEF PrepLeft, PrepHolds
<1> QED
  BY <1>1, <1>2 DEF StoppedAt

\* On its way to the next undo a preparation's record is true of the module.
LEMMA PreparationUndoSays ==
    ASSUME NEW o, PrepBase(o), PreparationUndo(o), PrepBasics(o, hw'), ~o.ok,
           ~o.owned => ~o.safe, o.safe => PrepAt(o, hw', 0, o.next)
    PROVE  PrepLeft(o)
<1>1. CASE o.next = 0 \/ ~o.owned
  <2>1. PICK e : e = [o EXCEPT !.verified = o.safe /\ o.restored = o.attempted]
    OBVIOUS
  <2>2. /\ PrepBase(e) /\ e.live = o.live /\ e.kind = o.kind
        /\ (e.safe <=> o.safe) /\ e.steps = o.steps /\ ~e.ok
        /\ (e.stopVerified <=> o.stopVerified) /\ (e.verified => o.safe)
    BY <2>1 DEF PrepBase, Ops
  <2>3. StoppedAt(e)
    BY <1>1, <2>1 DEF PreparationUndo
  <2>4. PrepBasics(e, hw')
    BY <2>2 DEF PrepBasics, PrepDistinct
  <2>5. e.verified => PrepAt(e, hw', 0, 0)
    BY <1>1, <2>2 DEF PrepAt
  <2>6. PrepLeft(e)
    BY <2>2, <2>3, <2>4, <2>5, StoppedAtSays
  <2> QED
    BY <2>2, <2>6 DEF PrepLeft
<1>2. CASE ~(o.next = 0 \/ ~o.owned)
  <2>1. op' = o /\ pc' = "prep_undo_gate"
    BY <1>2 DEF PreparationUndo, Go
  <2>2. PrepSays("prep_undo_gate", o, hw')
    BY DEF PrepSays, PrepBasics, PrepDistinct, PrepBegin, PrepWriting,
           PrepReset, PrepUndoing, PrepEnding
  <2> QED
    BY <2>1, <2>2 DEF PrepLeft, PrepHolds
<1> QED
  BY <1>1, <1>2

\* Once its writing is over a preparation's record is true of the module.
LEMMA PreparationEndSays ==
    ASSUME NEW o, PrepBase(o), PreparationEnd(o), PrepBasics(o, hw'),
           ~o.verified, o.safe, o.ok /\ o.reset => Ready(hw'),
           PrepAt(o, hw', 0, o.attempted)
    PROVE  PrepLeft(o)
<1>1. CASE ~o.ok /\ o.attempted > 0
  <2>1. PICK b : b = [o EXCEPT !.rollback = TRUE, !.safe = o.owned,
                               !.next = o.attempted]
    OBVIOUS
  <2>2. /\ PrepBase(b) /\ b.live = o.live /\ b.kind = o.kind
        /\ (b.safe <=> b.owned) /\ b.steps = o.steps /\ ~b.ok
        /\ (b.stopVerified <=> o.stopVerified) /\ b.next = o.attempted
    BY <1>1, <2>1 DEF PrepBase, Ops
  <2>3. PreparationUndo(b)
    BY <1>1, <2>1 DEF PreparationEnd
  <2>4. PrepBasics(b, hw') /\ PrepAt(b, hw', 0, b.next)
    BY <2>2 DEF PrepBasics, PrepDistinct, PrepAt
  <2>5. PrepLeft(b)
    BY <2>2, <2>3, <2>4, PreparationUndoSays
  <2> QED
    BY <2>2, <2>5 DEF PrepLeft
<1>2. CASE ~(~o.ok /\ o.attempted > 0)
  BY <1>2, StoppedAtSays DEF PreparationEnd
<1> QED
  BY <1>1, <1>2

\* On its way to the next contract write a preparation's record is true of the
\* module.
LEMMA PreparationForwardSays ==
    ASSUME NEW o, PrepBase(o), PreparationForward(o), PrepBasics(o, hw'),
           o.next \in 1 .. Len(o.steps) + 1,
           PrepAt(o, hw', o.next - 1, o.next - 1)
    PROVE  PrepLeft(o)
<1>1. Len(o.steps) \in Nat
  BY LenProperties DEF PrepBase
<1>2. \/ op' = o /\ pc' = "prep_reset_gate" /\ o.next - 1 = Len(o.steps)
      \/ op' = o /\ pc' = "prep_write_gate"
  BY <1>1 DEF PreparationForward, Go
<1>3. CASE op' = o /\ pc' = "prep_reset_gate" /\ o.next - 1 = Len(o.steps)
  <2>1. PrepAt(o, hw', Len(o.steps), Len(o.steps))
    BY <1>3
  <2>2. PrepSays("prep_reset_gate", o, hw')
    BY <2>1 DEF PrepSays, PrepBasics, PrepDistinct, PrepBegin, PrepWriting,
                PrepReset, PrepUndoing, PrepEnding
  <2> QED
    BY <1>3, <2>2 DEF PrepLeft, PrepHolds
<1>4. CASE op' = o /\ pc' = "prep_write_gate"
  <2>1. PrepSays("prep_write_gate", o, hw')
    BY DEF PrepSays, PrepBasics, PrepDistinct, PrepBegin, PrepWriting,
           PrepReset, PrepUndoing, PrepEnding
  <2> QED
    BY <1>4, <2>1 DEF PrepLeft, PrepHolds
<1> QED
  BY <1>2, <1>3, <1>4

PrepHere == TypeInv /\ pc \in PrepLabels /\ PrepSays(pc, op, hw)
PrepModuleStep == PrepLeft(op) /\ hw'.bank = hw.bank
SameGlobals == hw'.irq = hw.irq /\ hw'.mblt = hw.mblt

\* What the invariants say at every label of a preparation.
LEMMA PrepHereFacts ==
    ASSUME PrepHere
    PROVE  /\ PrepBasics(op, hw) /\ PrepBase(op) /\ PrepShape(pc, op)
           /\ op \in Ops /\ hw \in Hardware /\ Len(op.steps) \in Nat
           /\ op.attempted \in Nat /\ op.next \in Nat
           /\ pc \in PrepBegin \cup PrepWriting \cup PrepReset =>
                 /\ Fresh(op) /\ PrepAt(op, hw, 0, op.attempted)
<1>1. /\ PrepBase(op) /\ PrepShape(pc, op) /\ op \in Ops /\ hw \in Hardware
      /\ Len(op.steps) \in Nat
  BY PrepFacts DEF PrepHere, PrepBase
<1>2. PrepBasics(op, hw)
  BY DEF PrepHere, PrepSays, PrepBasics, PrepDistinct
<1>3. op.attempted \in Nat /\ op.next \in Nat
  BY <1>1 DEF Ops
<1>4. pc \in PrepBegin => PrepAt(op, hw, 0, op.attempted)
  BY <1>1 DEF PrepHere, PrepSays, PrepShape
<1>5. pc \in PrepWriting => PrepAt(op, hw, 0, op.attempted)
  <2>1. SUFFICES ASSUME pc \in PrepWriting PROVE PrepAt(op, hw, 0, op.attempted)
    OBVIOUS
  <2>2. PrepAt(op, hw, op.next - 1, op.attempted) /\ op.next \in 1 .. Len(op.steps)
    BY <1>1, <2>1 DEF PrepHere, PrepSays, PrepShape
  <2> QED
    BY <1>1, <2>2 DEF PrepAt
<1>6. pc \in PrepReset => PrepAt(op, hw, 0, op.attempted)
  <2>1. SUFFICES ASSUME pc \in PrepReset PROVE PrepAt(op, hw, 0, op.attempted)
    OBVIOUS
  <2>2. PrepAt(op, hw, Len(op.steps), op.attempted)
    BY <1>1, <2>1 DEF PrepHere, PrepSays, PrepShape
  <2> QED
    BY <1>1, <2>2 DEF PrepAt
<1>7. pc \in PrepBegin \cup PrepWriting \cup PrepReset => Fresh(op)
  BY <1>1 DEF PrepShape
<1> QED
  BY <1>1, <1>2, <1>3, <1>4, <1>5, <1>6, <1>7

\* Writes that leave the settings of the contract alone.
LEMMA PrepAtKept ==
    ASSUME NEW o, NEW b, PrepBase(o), b.steps = o.steps, SameGlobals,
           NEW k, NEW m, PrepAt(o, hw, k, m)
    PROVE  PrepAt(b, hw', k, m)
<1>1. \A i \in 1 .. Len(o.steps) : o.steps[i] \in PrepStep
  BY ElementOfSeq DEF PrepBase
<1>2. \A g \in ContractSettings : hw'[g] = hw[g]
  BY DEF SameGlobals, ContractSettings
<1>3. \A i \in 1 .. Len(o.steps) : hw'[o.steps[i].setting] = hw[o.steps[i].setting]
  BY <1>1, <1>2 DEF PrepStep
<1> QED
  BY <1>3 DEF PrepAt

\* The write of one step changes no other.
LEMMA PrepWritten ==
    ASSUME PrepHere, op.next \in 1 .. Len(op.steps),
           \/ hw' = hw
           \/ \A g \in ContractSettings :
                 g # op.steps[op.next].setting => hw'[g] = hw[g],
           NEW k \in Int, NEW m \in Int, PrepAt(op, hw, k, m), k < op.next
    PROVE  PrepAt(op, hw', k, IF m < op.next THEN op.next ELSE m)
<1>1. \A i \in 1 .. Len(op.steps) : op.steps[i].setting \in ContractSettings
  BY PrepFacts DEF PrepHere
<1>2. PrepDistinct(op) /\ Len(op.steps) \in Nat
  BY PrepHereFacts DEF PrepBasics
<1>3. ASSUME NEW i \in 1 .. Len(op.steps), i # op.next
      PROVE  hw'[op.steps[i].setting] = hw[op.steps[i].setting]
  BY <1>1, <1>2, <1>3 DEF PrepDistinct
<1>4. ASSUME NEW i \in 1 .. Len(op.steps)
      PROVE  /\ i <= k => hw'[op.steps[i].setting] = op.steps[i].profile
             /\ i > (IF m < op.next THEN op.next ELSE m) =>
                   hw'[op.steps[i].setting] = op.steps[i].expected
  <2>1. /\ i <= k => hw[op.steps[i].setting] = op.steps[i].profile
        /\ i > m => hw[op.steps[i].setting] = op.steps[i].expected
    BY DEF PrepAt
  <2> QED
    BY <1>2, <1>3, <2>1
<1> QED
  BY <1>4 DEF PrepAt

\* A preparation that fails or is refused before its rollback.
LEMMA PreparationFailsSays ==
    ASSUME PrepHere, pc \in PrepBegin \cup PrepWriting \cup PrepReset,
           NEW o, PrepBase(o), o.steps = op.steps, o.live = op.live,
           o.safe <=> op.safe, o.verified <=> op.verified,
           o.stopVerified <=> op.stopVerified,
           PrepAt(o, hw', 0, o.attempted), hw.acq = 0 => hw'.acq = 0,
           PreparationEnd(Failed(o)) \/ PreparationEnd(Refused(o))
    PROVE  PrepLeft(op)
<1>1. Fresh(op) /\ PrepBasics(op, hw) /\ PrepBase(op)
  BY PrepHereFacts
<1>2. PICK f : f \in {Failed(o), Refused(o)} /\ PreparationEnd(f)
  OBVIOUS
<1>3. /\ PrepBase(f) /\ ~f.ok
      /\ f.steps = o.steps /\ f.live = o.live /\ (f.safe <=> o.safe)
      /\ (f.verified <=> o.verified) /\ (f.stopVerified <=> o.stopVerified)
      /\ f.attempted = o.attempted
  <2>1. PrepBase(f) /\ ~f.ok
    BY <1>2, PrepFailedFacts
  <2>2. CASE f = Failed(o)
    BY <2>1, <2>2 DEF Failed, PrepBase, Ops
  <2>3. CASE f = Refused(o)
    BY <2>1, <2>3 DEF Refused, PrepBase, Ops
  <2> QED
    BY <1>2, <2>2, <2>3
<1>4. PrepBasics(f, hw') /\ PrepAt(f, hw', 0, f.attempted)
  BY <1>1, <1>3 DEF PrepBasics, PrepDistinct, PrepAt
<1>5. ~f.verified /\ f.safe
  BY <1>1, <1>3 DEF Fresh
<1>6. PrepLeft(f)
  BY <1>2, <1>3, <1>4, <1>5, PreparationEndSays
<1>7. f.kind = op.kind
  BY <1>1, <1>3 DEF PrepBase
<1> QED
  BY <1>3, <1>6, <1>7 DEF PrepLeft

\* A preparation that fails on a step that left the contract registers alone
\* claims nothing false.
LEMMA PreparationFailsHere ==
    ASSUME PrepHere, pc \in PrepBegin \cup PrepWriting \cup PrepReset,
           SameGlobals, hw.acq = 0 => hw'.acq = 0,
           PreparationEnd(Failed(op)) \/ PreparationEnd(Refused(op))
    PROVE  PrepLeft(op)
<1>1. PrepAt(op, hw', 0, op.attempted) /\ PrepBase(op)
  BY PrepHereFacts, PrepAtKept
<1> QED
  BY <1>1, PreparationFailsSays

\* The gates of the preparation.
LEMMA PrepareGatesSay ==
    ASSUME PrepHere, PrepareGate \/ PrepareStopGate \/ PrepareWriteGate
                       \/ PrepareResetGate \/ PrepareFinalGate
                       \/ PrepareUndoGate \/ PrepareStoppedGate
    PROVE  PrepModuleStep
<1>1. hw' = hw /\ SameGlobals
  BY DEF PrepareGate, PrepareStopGate, PrepareWriteGate, PrepareResetGate,
         PrepareFinalGate, PrepareUndoGate, PrepareStoppedGate, Gate, SameGlobals
<1>2. \/ /\ op' = op
         /\ \/ pc = "prep_gate" /\ pc' = "prep_read"
            \/ pc = "prep_stop_gate" /\ pc' = "prep_stop"
            \/ pc = "prep_write_gate" /\ pc' = "prep_write"
            \/ pc = "prep_reset_gate" /\ pc' = "prep_fifo"
            \/ pc = "prep_final_gate" /\ pc' = "prep_final"
            \/ pc = "prep_undo_gate" /\ pc' = "prep_undo"
            \/ pc = "prep_stopped_gate" /\ pc' = "prep_stopped"
      \/ /\ PreparationEnd(Refused(op))
         /\ pc \in PrepBegin \cup PrepWriting \cup PrepReset
      \/ PreparationReturn(Refused(op)) /\ pc \in {"prep_gate", "prep_stopped_gate"}
      \/ PreparationUndo([Refused(op) EXCEPT !.safe = FALSE])
  BY DEF PrepareGate, PrepareStopGate, PrepareWriteGate, PrepareResetGate,
         PrepareFinalGate, PrepareUndoGate, PrepareStoppedGate, Gate, On, Go,
         PrepBegin, PrepWriting, PrepReset
<1>3. SUFFICES PrepLeft(op)
  BY <1>1 DEF PrepModuleStep
<1>4. CASE /\ op' = op
           /\ \/ pc = "prep_gate" /\ pc' = "prep_read"
              \/ pc = "prep_stop_gate" /\ pc' = "prep_stop"
              \/ pc = "prep_write_gate" /\ pc' = "prep_write"
              \/ pc = "prep_reset_gate" /\ pc' = "prep_fifo"
              \/ pc = "prep_final_gate" /\ pc' = "prep_final"
              \/ pc = "prep_undo_gate" /\ pc' = "prep_undo"
              \/ pc = "prep_stopped_gate" /\ pc' = "prep_stopped"
  <2>1. PrepSays(pc', op, hw)
    BY <1>4 DEF PrepHere, PrepSays, PrepBegin, PrepWriting, PrepReset,
                PrepUndoing, PrepEnding
  <2> QED
    BY <1>1, <1>4, <2>1 DEF PrepLeft, PrepHolds
<1>5. CASE /\ PreparationEnd(Refused(op))
           /\ pc \in PrepBegin \cup PrepWriting \cup PrepReset
  BY <1>1, <1>5, PreparationFailsHere
<1>6. CASE PreparationReturn(Refused(op)) /\ pc \in {"prep_gate", "prep_stopped_gate"}
  <2>1. PICK f : f = Refused(op)
    OBVIOUS
  <2>2. /\ PrepBase(f) /\ ~f.ok /\ f.steps = op.steps /\ f.live = op.live
        /\ (f.safe <=> op.safe) /\ (f.verified <=> op.verified)
        /\ (f.stopVerified <=> op.stopVerified) /\ f.kind = op.kind
    BY <2>1, PrepHereFacts DEF PrepBase, Ops, Refused
  <2>3. PrepBasics(f, hw')
    BY <1>1, <2>2, PrepHereFacts DEF PrepBasics, PrepDistinct
  <2>4. op.verified => PrepAt(op, hw, 0, 0)
    BY <1>6, PrepHereFacts DEF PrepHere, PrepSays, PrepEnding, PrepBegin, Fresh
  <2>5. f.verified => PrepAt(f, hw', 0, 0)
    BY <1>1, <2>2, <2>4, PrepHereFacts, PrepAtKept
  <2>6. PrepLeft(f)
    BY <1>6, <2>1, <2>2, <2>3, <2>5, PreparationReturnSays DEF PreparationPassed
  <2> QED
    BY <2>2, <2>6 DEF PrepLeft
<1>7. CASE PreparationUndo([Refused(op) EXCEPT !.safe = FALSE])
  <2>1. PICK f : f = [Refused(op) EXCEPT !.safe = FALSE]
    OBVIOUS
  <2>2. /\ PrepBase(f) /\ ~f.ok /\ f.steps = op.steps /\ f.live = op.live
        /\ ~f.safe /\ (f.stopVerified <=> op.stopVerified) /\ f.kind = op.kind
    BY <2>1, PrepHereFacts DEF PrepBase, Ops, Refused
  <2>3. PrepBasics(f, hw')
    BY <1>1, <2>2, PrepHereFacts DEF PrepBasics, PrepDistinct
  <2>4. PrepLeft(f)
    BY <1>7, <2>1, <2>2, <2>3, PreparationUndoSays
  <2> QED
    BY <2>2, <2>4 DEF PrepLeft
<1> QED
  BY <1>2, <1>4, <1>5, <1>6, <1>7

\* The readings of the preparation.
LEMMA PrepareReadsSay ==
    ASSUME PrepHere, PrepareRead \/ PrepareStopVerify \/ PrepareReadback
                       \/ PrepareFinal \/ PrepareStopped
    PROVE  PrepModuleStep
<1> DEFINE found == [op EXCEPT !.steps = PreparationSteps]
           stopped == [op EXCEPT !.stopVerified = TRUE]
           next == [op EXCEPT !.next = @ + 1]
           left == [op EXCEPT !.leftStopped = TRUE]
           running == [Failed(op) EXCEPT !.leftStopped = FALSE]
<1>1. hw' = hw /\ SameGlobals
  BY DEF PrepareRead, PrepareStopVerify, PrepareReadback, PrepareFinal,
         PrepareStopped, Read, SameGlobals
<1>2. \/ pc = "prep_read" /\ op' = found /\ pc' = "prep_stop_gate"
      \/ pc = "prep_read" /\ PreparationReturn(Failed(op))
      \/ pc = "prep_stop_verify" /\ PreparationForward(stopped) /\ hw.acq = 0
      \/ /\ pc = "prep_readback" /\ PreparationForward(next)
         /\ hw[Step.setting] = Step.profile
      \/ pc = "prep_final" /\ PreparationEnd(op) /\ ContractHolds
      \/ /\ pc \in PrepBegin \cup PrepWriting \cup PrepReset
         /\ PreparationEnd(Failed(op))
      \/ pc = "prep_stopped" /\ PreparationReturn(left)
      \/ pc = "prep_stopped" /\ PreparationReturn(running)
  BY DEF PrepareRead, PrepareStopVerify, PrepareReadback, PrepareFinal,
         PrepareStopped, Read, PrepBegin, PrepWriting, PrepReset, Go
<1>3. SUFFICES PrepLeft(op)
  BY <1>1 DEF PrepModuleStep
<1>4. /\ PrepBasics(op, hw) /\ PrepBase(op) /\ PrepShape(pc, op) /\ op \in Ops
      /\ hw \in Hardware /\ Len(op.steps) \in Nat /\ PrepSays(pc, op, hw)
  BY PrepHereFacts DEF PrepHere
<1>5. CASE pc = "prep_read" /\ op' = found /\ pc' = "prep_stop_gate"
  <2>1. PICK steps : steps = PreparationSteps
    OBVIOUS
  <2>2. /\ steps \in Seq(PrepStep)
        /\ \A i \in 1 .. Len(steps) : steps[i].expected = hw[steps[i].setting]
        /\ \A i, j \in 1 .. Len(steps) :
              i # j => steps[i].setting # steps[j].setting
    BY <1>4, <2>1, PreparationStepsFacts
  <2>3. /\ op'.steps = steps /\ op'.live = op.live /\ op'.kind = op.kind
        /\ (op'.safe <=> op.safe) /\ (op'.stopVerified <=> op.stopVerified)
    BY <1>4, <1>5, <2>1, <2>2 DEF Ops
  <2>4. PrepAt(op', hw', 0, 0)
    BY <1>1, <2>2, <2>3 DEF PrepAt
  <2>5. PrepSays("prep_stop_gate", op', hw')
    BY <1>1, <1>4, <2>2, <2>3, <2>4
       DEF PrepSays, PrepBasics, PrepBegin, PrepWriting, PrepReset, PrepUndoing,
           PrepEnding
  <2> QED
    BY <1>5, <2>3, <2>5 DEF PrepLeft, PrepHolds
<1>6. CASE pc = "prep_read" /\ PreparationReturn(Failed(op))
  <2>1. PICK f : f = Failed(op)
    OBVIOUS
  <2>2. /\ PrepBase(f) /\ ~f.ok /\ f.steps = op.steps /\ f.live = op.live
        /\ (f.safe <=> op.safe) /\ (f.verified <=> op.verified)
        /\ (f.stopVerified <=> op.stopVerified) /\ f.kind = op.kind
    BY <1>4, <2>1 DEF PrepBase, Ops, Failed
  <2>3. PrepBasics(f, hw') /\ ~f.verified
    BY <1>1, <1>4, <1>6, <2>2, PrepHereFacts
       DEF PrepBasics, PrepDistinct, Fresh, PrepBegin
  <2>4. PrepLeft(f)
    BY <1>6, <2>1, <2>2, <2>3, PreparationReturnSays DEF PreparationPassed
  <2> QED
    BY <2>2, <2>4 DEF PrepLeft
<1>7. CASE pc = "prep_stop_verify" /\ PreparationForward(stopped) /\ hw.acq = 0
  <2>1. op.next = 1 /\ PrepAt(op, hw, 0, 0)
    BY <1>4, <1>7 DEF PrepShape, PrepSays, PrepBegin
  <2>2. /\ PrepBase(stopped) /\ stopped.steps = op.steps
        /\ stopped.live = op.live /\ stopped.kind = op.kind
        /\ (stopped.safe <=> op.safe) /\ stopped.next = 1
    BY <1>4, <2>1 DEF PrepBase, Ops
  <2> HIDE DEF stopped
  <2>3. /\ PrepBasics(stopped, hw') /\ stopped.next \in 1 .. Len(stopped.steps) + 1
        /\ stopped.next - 1 = 0
    BY <1>1, <1>4, <1>7, <2>2 DEF PrepBasics, PrepDistinct
  <2>4. PrepAt(stopped, hw', stopped.next - 1, stopped.next - 1)
    BY <1>1, <1>4, <2>1, <2>2, <2>3, PrepAtKept
  <2>5. PrepLeft(stopped)
    BY <1>7, <2>2, <2>3, <2>4, PreparationForwardSays
  <2> QED
    BY <2>2, <2>5 DEF PrepLeft
<1>8. CASE /\ pc = "prep_readback" /\ PreparationForward(next)
           /\ hw[Step.setting] = Step.profile
  <2>1. op.next \in 1 .. Len(op.steps) /\ PrepAt(op, hw, op.next - 1, op.next)
    BY <1>4, <1>8 DEF PrepShape, PrepSays, PrepWriting
  <2>2. PrepAt(op, hw, op.next, op.next)
    BY <1>4, <1>8, <2>1 DEF PrepAt, Step
  <2>3. /\ PrepBase(next) /\ next.steps = op.steps
        /\ next.live = op.live /\ next.kind = op.kind
        /\ (next.safe <=> op.safe) /\ next.next = op.next + 1
        /\ (next.stopVerified <=> op.stopVerified)
    BY <1>4, <2>1 DEF PrepBase, Ops
  <2> HIDE DEF next
  <2>4. /\ PrepBasics(next, hw') /\ next.next \in 1 .. Len(next.steps) + 1
        /\ next.next - 1 = op.next
    BY <1>1, <1>4, <2>1, <2>3 DEF PrepBasics, PrepDistinct
  <2>5. PrepAt(next, hw', next.next - 1, next.next - 1)
    BY <1>1, <1>4, <2>2, <2>3, <2>4, PrepAtKept
  <2>6. PrepLeft(next)
    BY <1>8, <2>3, <2>4, <2>5, PreparationForwardSays
  <2> QED
    BY <2>3, <2>6 DEF PrepLeft
<1>9. CASE pc = "prep_final" /\ PreparationEnd(op) /\ ContractHolds
  <2>1. Fresh(op) /\ PrepAt(op, hw, 0, op.attempted)
    BY <1>9, PrepHereFacts DEF PrepReset
  <2>2. Ready(hw')
    BY <1>1, <1>4, <1>9
       DEF PrepSays, Ready, ContractHolds, ContractSettings, ContractValue
  <2>3. PrepAt(op, hw', 0, op.attempted) /\ PrepBasics(op, hw')
    BY <1>1, <1>4, <2>1, PrepAtKept
  <2> QED
    BY <1>4, <1>9, <2>1, <2>2, <2>3, PreparationEndSays DEF Fresh
<1>10. CASE /\ pc \in PrepBegin \cup PrepWriting \cup PrepReset
            /\ PreparationEnd(Failed(op))
  BY <1>1, <1>10, PreparationFailsHere
<1>11. CASE pc = "prep_stopped" /\ PreparationReturn(left)
  <2>1. /\ PrepBase(left) /\ left.steps = op.steps
        /\ left.live = op.live /\ left.kind = op.kind
        /\ (left.safe <=> op.safe) /\ (left.verified <=> op.verified)
        /\ (left.stopVerified <=> op.stopVerified)
        /\ (left.ok <=> op.ok) /\ (left.reset <=> op.reset)
    BY <1>4 DEF PrepBase, Ops
  <2> HIDE DEF left
  <2>2. PrepBasics(left, hw') /\ (op.verified => PrepAt(op, hw, 0, 0))
    BY <1>1, <1>4, <1>11, <2>1
       DEF PrepBasics, PrepDistinct, PrepSays, PrepEnding
  <2>3. left.verified => PrepAt(left, hw', 0, 0)
    BY <1>1, <1>4, <2>1, <2>2, PrepAtKept
  <2>4. PreparationPassed(left) => Ready(hw')
    BY <1>1, <1>4, <1>11, <2>1
       DEF PreparationPassed, Ready, PrepSays, PrepEnding
  <2>5. PrepLeft(left)
    BY <1>11, <2>1, <2>2, <2>3, <2>4, PreparationReturnSays
  <2> QED
    BY <2>1, <2>5 DEF PrepLeft
<1>12. CASE pc = "prep_stopped" /\ PreparationReturn(running)
  <2>1. /\ PrepBase(running) /\ running.steps = op.steps
        /\ running.live = op.live /\ running.kind = op.kind
        /\ (running.safe <=> op.safe) /\ (running.verified <=> op.verified)
        /\ (running.stopVerified <=> op.stopVerified) /\ ~running.ok
    BY <1>4 DEF PrepBase, Ops, Failed
  <2> HIDE DEF running
  <2>2. PrepBasics(running, hw') /\ (op.verified => PrepAt(op, hw, 0, 0))
    BY <1>1, <1>4, <1>12, <2>1
       DEF PrepBasics, PrepDistinct, PrepSays, PrepEnding
  <2>3. running.verified => PrepAt(running, hw', 0, 0)
    BY <1>1, <1>4, <2>1, <2>2, PrepAtKept
  <2>4. PrepLeft(running)
    BY <1>12, <2>1, <2>2, <2>3, PreparationReturnSays DEF PreparationPassed
  <2> QED
    BY <2>1, <2>4 DEF PrepLeft
<1> QED
  BY <1>2, <1>5, <1>6, <1>7, <1>8, <1>9, <1>10, <1>11, <1>12

\* The writes of the preparation.
LEMMA PrepareWritesSay ==
    ASSUME PrepHere, PrepareStop \/ PrepareWrite \/ PrepareResetFifo
                       \/ PrepareResetReadout
    PROVE  PrepModuleStep
<1> DEFINE sent == [op EXCEPT !.stopSent = TRUE]
           tried == [op EXCEPT !.attempted = @ + 1]
           reset == [op EXCEPT !.reset = TRUE]
<1>1. /\ PrepBasics(op, hw) /\ PrepBase(op) /\ PrepShape(pc, op) /\ op \in Ops
      /\ hw \in Hardware /\ Len(op.steps) \in Nat /\ PrepSays(pc, op, hw)
  BY PrepHereFacts DEF PrepHere
<1>2. \/ /\ pc = "prep_stop" /\ hw' \in {hw, StopAcquisition}
         /\ \/ op' = sent /\ pc' = "prep_stop_verify"
            \/ PreparationEnd(Failed(op))
      \/ /\ pc = "prep_write"
         /\ hw' \in {hw, SetGlobal(Step.setting, Step.profile)}
         /\ \/ op' = tried /\ pc' = "prep_readback"
            \/ PreparationEnd(Failed(tried))
      \/ /\ pc = "prep_fifo" /\ hw' \in {hw, ResetFifo}
         /\ \/ op' = op /\ pc' = "prep_readout" /\ hw' = ResetFifo
            \/ PreparationEnd(Failed(op))
      \/ /\ pc = "prep_readout" /\ hw' \in {hw, ResetReadout}
         /\ \/ op' = reset /\ pc' = "prep_final_gate" /\ hw' = ResetReadout
            \/ PreparationEnd(Failed(op))
  BY DEF PrepareStop, PrepareWrite, PrepareResetFifo, PrepareResetReadout,
         Store, Write, On, Go
<1>3. pc \in PrepBegin \cup PrepWriting \cup PrepReset
  BY <1>2 DEF PrepBegin, PrepWriting, PrepReset
<1>4. CASE pc = "prep_write"
  <2>1. /\ op.next \in 1 .. Len(op.steps) /\ op.attempted = op.next - 1
        /\ PrepAt(op, hw, op.next - 1, op.next - 1)
    BY <1>1, <1>4 DEF PrepShape, PrepSays, PrepWriting
  <2>2. Step.setting \in ContractSettings /\ Step.profile \in {0, 1}
    BY <1>3, <2>1, PrepFacts DEF PrepHere, Step
  <2>3. /\ hw'.bank = hw.bank /\ hw'.acq = hw.acq
        /\ \/ hw' = hw
           \/ \A g \in ContractSettings : g # Step.setting => hw'[g] = hw[g]
    BY <1>1, <1>2, <1>4, <2>2, SetGlobalFacts
  <2>4. op.next - 1 \in Int /\ op.next - 1 < op.next /\ op.next \in Int
    BY <2>1
  <2>5. PrepAt(op, hw', op.next - 1, op.next)
    BY <2>1, <2>3, <2>4, PrepWritten DEF Step
  <2>6. op.attempted + 1 \in Nat /\ op.attempted + 1 = op.next
        /\ op.attempted + 1 <= Len(op.steps)
    BY <1>1, <2>1
  <2>7. /\ PrepBase(tried) /\ tried.steps = op.steps /\ tried.live = op.live
        /\ tried.kind = op.kind /\ tried.next = op.next
        /\ (tried.safe <=> op.safe) /\ (tried.verified <=> op.verified)
        /\ (tried.stopVerified <=> op.stopVerified)
        /\ tried.attempted = op.next
    BY <1>1, <2>6 DEF PrepBase, Ops
  <2> HIDE DEF tried
  <2>8. PrepAt(tried, hw', 0, tried.attempted) /\ PrepBasics(tried, hw')
        /\ PrepAt(tried, hw', tried.next - 1, tried.next)
    BY <1>1, <2>1, <2>3, <2>5, <2>7 DEF PrepAt, PrepBasics, PrepDistinct
  <2>9. CASE op' = tried /\ pc' = "prep_readback"
    <3>1. PrepSays("prep_readback", tried, hw')
      BY <2>8 DEF PrepSays, PrepBasics, PrepDistinct, PrepBegin, PrepWriting,
                  PrepReset, PrepUndoing, PrepEnding
    <3> QED
      BY <2>3, <2>7, <2>9, <3>1 DEF PrepModuleStep, PrepLeft, PrepHolds
  <2>10. CASE PreparationEnd(Failed(tried))
    BY <1>3, <2>3, <2>7, <2>8, <2>10, PreparationFailsSays DEF PrepModuleStep
  <2> QED
    BY <1>2, <1>4, <2>9, <2>10
<1>5. CASE pc # "prep_write"
  <2>1. /\ SameGlobals /\ hw'.bank = hw.bank
        /\ (hw.acq = 0 => hw'.acq = 0)
    BY <1>1, <1>2, <1>5, StopFacts, ResetFacts DEF SameGlobals
  <2>2. SUFFICES PrepLeft(op)
    BY <2>1 DEF PrepModuleStep
  <2>3. CASE PreparationEnd(Failed(op))
    BY <1>3, <2>1, <2>3, PreparationFailsHere
  <2>4. PrepBasics(op, hw')
    BY <1>1, <2>1 DEF PrepBasics
  <2>5. CASE pc = "prep_stop" /\ op' = sent /\ pc' = "prep_stop_verify"
    <3>1. /\ op'.steps = op.steps /\ op'.live = op.live /\ op'.kind = op.kind
          /\ (op'.safe <=> op.safe) /\ (op'.stopVerified <=> op.stopVerified)
      BY <1>1, <2>5 DEF Ops
    <3>2. PrepAt(op, hw, 0, 0)
      BY <1>1, <2>5 DEF PrepSays, PrepBegin
    <3>3. PrepAt(op', hw', 0, 0)
      BY <1>1, <2>1, <3>1, <3>2, PrepAtKept
    <3>4. PrepSays("prep_stop_verify", op', hw')
      BY <2>4, <3>1, <3>3
         DEF PrepSays, PrepBasics, PrepDistinct, PrepBegin, PrepWriting,
             PrepReset, PrepUndoing, PrepEnding
    <3> QED
      BY <2>5, <3>1, <3>4 DEF PrepLeft, PrepHolds
  <2>6. pc \in PrepReset => PrepAt(op, hw, Len(op.steps), Len(op.steps))
    BY <1>1 DEF PrepSays
  <2>7. CASE pc = "prep_fifo" /\ op' = op /\ pc' = "prep_readout" /\ hw' = ResetFifo
    <3>1. PrepAt(op, hw', Len(op.steps), Len(op.steps))
      BY <1>1, <2>1, <2>6, <2>7, PrepAtKept DEF PrepReset
    <3>2. hw'.readout = "fifo"
      BY <1>1, <2>7, ResetFacts
    <3>3. PrepSays("prep_readout", op, hw')
      BY <2>4, <3>1, <3>2
         DEF PrepSays, PrepBasics, PrepDistinct, PrepBegin, PrepWriting,
             PrepReset, PrepUndoing, PrepEnding
    <3> QED
      BY <2>7, <3>3 DEF PrepLeft, PrepHolds
  <2>8. CASE /\ pc = "prep_readout" /\ op' = reset /\ pc' = "prep_final_gate"
             /\ hw' = ResetReadout
    <3>1. /\ op'.steps = op.steps /\ op'.live = op.live /\ op'.kind = op.kind
          /\ (op'.safe <=> op.safe) /\ (op'.stopVerified <=> op.stopVerified)
      BY <1>1, <2>8 DEF Ops
    <3>2. PrepAt(op', hw', Len(op'.steps), Len(op'.steps))
      BY <1>1, <2>1, <2>6, <2>8, <3>1, PrepAtKept DEF PrepReset
    <3>3. hw'.readout = "clean"
      BY <1>1, <2>8, ResetFacts DEF PrepSays
    <3>4. PrepSays("prep_final_gate", op', hw')
      BY <2>4, <3>1, <3>2, <3>3
         DEF PrepSays, PrepBasics, PrepDistinct, PrepBegin, PrepWriting,
             PrepReset, PrepUndoing, PrepEnding
    <3> QED
      BY <2>8, <3>1, <3>4 DEF PrepLeft, PrepHolds
  <2> QED
    BY <1>2, <1>5, <2>3, <2>5, <2>7, <2>8
<1> QED
  BY <1>4, <1>5

\* The rollback of the preparation.
LEMMA PrepareUndoSays ==
    ASSUME PrepHere, PrepareUndo \/ PrepareUndoReadback
    PROVE  PrepModuleStep
<1> DEFINE lost == [op EXCEPT !.safe = FALSE, !.next = @ - 1]
           undone == [op EXCEPT !.restored = @ + 1, !.next = @ - 1]
<1>1. /\ PrepBasics(op, hw) /\ PrepBase(op) /\ PrepShape(pc, op) /\ op \in Ops
      /\ hw \in Hardware /\ Len(op.steps) \in Nat /\ PrepSays(pc, op, hw)
  BY PrepHereFacts DEF PrepHere
<1>2. \/ /\ pc = "prep_undo"
         /\ hw' \in {hw, SetGlobal(Step.setting, Step.expected)}
         /\ (op' = op /\ pc' = "prep_undo_readback") \/ PreparationUndo(lost)
      \/ /\ pc = "prep_undo_readback" /\ hw' = hw
         /\ \/ PreparationUndo(undone) /\ hw[Step.setting] = Step.expected
            \/ PreparationUndo(lost)
  BY DEF PrepareUndo, PrepareUndoReadback, Store, Write, Read, On, Go,
         NotRestored
<1>3. /\ op.next \in 1 .. Len(op.steps) /\ ~op.ok /\ ~op.verified /\ op.owned
      /\ op.safe => PrepAt(op, hw, 0, op.next)
  BY <1>1, <1>2 DEF PrepShape, PrepSays, PrepUndoing, PrepBase, Ops
<1>4. Step.setting \in ContractSettings /\ Step.expected \in {0, 1}
  BY <1>3, PrepFacts DEF PrepHere, Step
<1>5. /\ hw'.bank = hw.bank /\ hw'.acq = hw.acq
      /\ \/ hw' = hw
         \/ \A g \in ContractSettings : g # Step.setting => hw'[g] = hw[g]
  BY <1>1, <1>2, <1>4, SetGlobalFacts
<1>6. SUFFICES PrepLeft(op)
  BY <1>5 DEF PrepModuleStep
<1>7. PrepBasics(op, hw')
  BY <1>1, <1>5 DEF PrepBasics
<1>8. op.next - 1 \in Nat /\ op.restored + 1 \in Nat
  BY <1>1, <1>3 DEF Ops
<1>9. CASE op' = op /\ pc' = "prep_undo_readback"
  <2>1. 0 < op.next /\ op.next \in Int /\ ~(op.next < op.next)
    BY <1>3
  <2>2. op.safe => PrepAt(op, hw', 0, op.next)
    BY <1>3, <1>5, <2>1, PrepWritten DEF Step
  <2>3. PrepSays("prep_undo_readback", op, hw')
    BY <1>7, <2>2
       DEF PrepSays, PrepBasics, PrepDistinct, PrepBegin, PrepWriting,
           PrepReset, PrepUndoing, PrepEnding
  <2> QED
    BY <1>9, <2>3 DEF PrepLeft, PrepHolds
<1>10. CASE PreparationUndo(lost)
  <2>1. /\ PrepBase(lost) /\ lost.steps = op.steps /\ lost.live = op.live
        /\ lost.kind = op.kind /\ ~lost.safe /\ ~lost.ok
        /\ (lost.stopVerified <=> op.stopVerified)
    BY <1>1, <1>3, <1>8 DEF PrepBase, Ops
  <2> HIDE DEF lost
  <2>2. PrepBasics(lost, hw')
    BY <1>7, <2>1 DEF PrepBasics, PrepDistinct
  <2>3. PrepLeft(lost)
    BY <1>10, <2>1, <2>2, PreparationUndoSays
  <2> QED
    BY <2>1, <2>3 DEF PrepLeft
<1>11. CASE /\ pc = "prep_undo_readback" /\ hw' = hw
            /\ PreparationUndo(undone) /\ hw[Step.setting] = Step.expected
  <2>1. /\ PrepBase(undone) /\ undone.steps = op.steps /\ undone.live = op.live
        /\ undone.kind = op.kind /\ (undone.safe <=> op.safe) /\ ~undone.ok
        /\ (undone.stopVerified <=> op.stopVerified) /\ undone.owned
        /\ undone.next = op.next - 1
    BY <1>1, <1>3, <1>8 DEF PrepBase, Ops
  <2> HIDE DEF undone
  <2>2. PrepBasics(undone, hw')
    BY <1>7, <2>1 DEF PrepBasics, PrepDistinct
  <2>3. op.safe => PrepAt(op, hw, 0, op.next - 1)
    BY <1>1, <1>3, <1>11 DEF PrepAt, Step
  <2>4. undone.safe => PrepAt(undone, hw', 0, undone.next)
    BY <1>11, <2>1, <2>3 DEF PrepAt
  <2>5. PrepLeft(undone)
    BY <1>11, <2>1, <2>2, <2>4, PreparationUndoSays
  <2> QED
    BY <2>1, <2>5 DEF PrepLeft
<1> QED
  BY <1>2, <1>9, <1>10, <1>11

\* Every undisturbed step of a preparation leaves true what its record says of
\* the registers.
LEMMA PreparationNextSays ==
    ASSUME TypeInv, ModuleInv, Undisturbed, PreparationNext
    PROVE  PrepModuleStep
<1>1. PrepHere
  BY PreparationNextStep DEF PrepHere, ModuleInv, OperationSays
<1> QED
  BY <1>1, PrepareGatesSay, PrepareReadsSay, PrepareWritesSay, PrepareUndoSays
     DEF PreparationNext

\* A step of a preparation keeps the module invariant.
LEMMA PreparationStays ==
    ASSUME TypeInv, ModuleInv, PreparationNext
    PROVE  ModuleInv'
<1>1. /\ pc \in PrepLabels /\ StepFrame /\ PrepTo(pc', op', op) /\ cap' = cap
      /\ TypeInv'
  BY PreparationNextStep, PreparationKept DEF PrepStepTaken
<1>2. /\ pc' \in PrepLabels \cup {"startup_prepared"}
      /\ mvme' = mvme /\ op'.began = op.began
      /\ op' \in Ops /\ hw' \in Hardware /\ hw \in Hardware /\ op \in Ops
      /\ pc' = "startup_prepared" => op'.kind = "prepare"
  BY <1>1, LabelFacts DEF PrepTo, StepFrame, TypeInv, TypeOK
<1>3. /\ Alone => Undisturbed
      /\ Alone' <=> Alone
      /\ Undisturbed' <=> Undisturbed
  BY <1>2, UndisturbedFacts
<1>4. pc' \notin BulkLabels \cup FixLabels \cup CapLabels \cup Quiet
                  \cup (CapReturns \ {"idle"}) \cup BulkReturns
  BY <1>2 DEF BulkLabels, BulkBegin, BulkWriting, BulkUndoing, BulkEnding,
       FixLabels, FixBegin, FixWriting, FixUndoing, FixEnding,
       FixReset, PrepLabels, PrepBegin, PrepWriting, PrepReset, PrepUndoing,
       PrepEnding, CapLabels, Quiet, CapReturns, BulkReturns
<1>5. Undisturbed => PrepModuleStep
  BY PreparationNextSays
<1>6. CapReturned' /\ CapSays' /\ FreshSays' /\ StartupSays' /\ RepairAlone'
  BY <1>2, <1>4 DEF CapReturned, CapSays, FreshSays, StartupSays, RepairAlone
<1>7. OperationSays'
  BY <1>3, <1>4, <1>5 DEF OperationSays, PrepModuleStep, PrepLeft, PrepHolds
<1>8. Ended' => pc' = "startup_prepared"
  BY <1>4 DEF Ended, BulkReturns
<1>9. Undisturbed => /\ op'.live = op.live /\ op'.kind = op.kind
                     /\ (op'.safe => op.safe) /\ hw'.bank = hw.bank
  BY <1>5 DEF PrepModuleStep, PrepLeft
<1>10. Undisturbed /\ pc' = "startup_prepared" =>
          /\ op'.state = "passed" => Ready(hw') /\ hw'.acq = 0
          /\ op'.state = "failed" /\ op'.verified => PrepAt(op', hw', 0, 0)
  BY <1>5 DEF PrepModuleStep, PrepLeft, PrepHolds
<1>11. PassedIsApplied'
  BY <1>2, <1>3, <1>8, <1>10
     DEF PassedIsApplied, Ready, ContractHolds, ContractSettings, ContractValue
<1>12. VerifiedRollbackRestores'
  <2>1. SUFFICES ASSUME Ended', op'.state = "failed", op'.verified, Undisturbed
                 PROVE  /\ op'.kind = "prepare"
                        /\ \A i \in DOMAIN op'.steps :
                              op'.steps[i].expected = hw'[op'.steps[i].setting]
    BY <1>3 DEF VerifiedRollbackRestores
  <2>2. PrepAt(op', hw', 0, 0)
    BY <1>8, <1>10, <2>1
  <2>3. /\ DOMAIN op'.steps = 1 .. Len(op'.steps)
        /\ Len(op'.steps) \in Nat
    BY <1>2, LenProperties DEF Ops
  <2> QED
    BY <1>2, <1>8, <2>1, <2>2, <2>3 DEF PrepAt
<1>13. PairsStayValid'
  <2>1. SUFFICES ASSUME Alone, op'.safe, NEW q \in Quads, op'.kind # "none",
                        Coupled(op'.live.bank[q])
                 PROVE  Coupled(hw'.bank[q])
    BY <1>3 DEF PairsStayValid
  <2> QED
    BY <1>3, <1>9, <2>1 DEF ModuleInv, PairsStayValid
<1>14. StartupPassedHolds'
  BY <1>1, <1>4 DEF StartupPassedHolds, TypeInv, Located, Quiet
<1> QED
  BY <1>6, <1>7, <1>11, <1>12, <1>13, <1>14 DEF ModuleInv

----------------------------------------------------------------------------
(***************************************************************************)
(*                   14. A capture and the module                          *)
(***************************************************************************)
\* What a capture has read of registers h.
CapHolds(l, c, h) ==
    /\ l \in CapLabels =>
          /\ l # "cap_gate" /\ l # "cap_globals" => c.irq = h.irq
          /\ c.ok => \A q \in Quads : q < c.quad => c.bank[q] = h.bank[q]
          /\ l = "cap_read" => h.selector = c.quad
    /\ l \in CapReturns \ {"idle"} /\ c.return = l /\ c.complete =>
          /\ c.bank = h.bank /\ c.irq = h.irq
          /\ h.selector = 0
\* Nothing but the selector changes.
OnlySelector ==
    /\ hw'.bank = hw.bank /\ hw'.irq = hw.irq /\ hw'.mblt = hw.mblt
    /\ hw'.acq = hw.acq

\* A capture that returns without the configuration says nothing.
LEMMA CaptureReturnsNothing ==
    ASSUME cap \in Caps, CaptureReturn(FALSE)
    PROVE  CapHolds(pc', cap', hw')
<1>1. pc' \in CapReturns /\ ~cap'.complete
  BY DEF CaptureReturn, Caps
<1>2. pc' \notin CapLabels
  BY <1>1 DEF CapReturns, CapLabels
<1> QED
  BY <1>1, <1>2 DEF CapHolds

\* A capture that fails and goes on to park still reports no bank it did not
\* read.
LEMMA CaptureGoesOn ==
    ASSUME cap \in Caps, CapHolds(pc, cap, hw), pc \in CapLabels,
           pc \notin {"cap_gate", "cap_globals"},
           OnlySelector, CaptureFails("cap_park_gate")
    PROVE  CapHolds(pc', cap', hw')
<1>1. pc' = "cap_park_gate" /\ ~cap'.ok /\ cap'.irq = cap.irq
  BY DEF CaptureFails, Caps
<1> QED
  BY <1>1 DEF CapHolds, CapReturns, OnlySelector

\* Every step of a capture leaves what it has read equal to the banks.
LEMMA CaptureNextSays ==
    ASSUME TypeInv, CapHolds(pc, cap, hw), CaptureNext
    PROVE  CapHolds(pc', cap', hw')
<1>1. pc \in CapLabels /\ CapAt(pc, cap) /\ cap \in Caps /\ hw \in Hardware
  BY CaptureNextStep, CapFacts
<1>2. CASE CaptureReturn(FALSE)
  BY <1>1, <1>2, CaptureReturnsNothing
<1>3. CASE CaptureGate \/ CaptureBankGate \/ CaptureParkGate
  <2>1. SUFFICES ASSUME ~CaptureReturn(FALSE) PROVE CapHolds(pc', cap', hw')
    BY <1>2
  <2>2. /\ cap' = cap /\ hw' = hw
        /\ \/ pc = "cap_gate" /\ pc' = "cap_globals"
           \/ pc = "cap_bank" /\ pc' = "cap_select"
           \/ pc = "cap_park_gate" /\ pc' = "cap_park"
    BY <1>3, <2>1 DEF CaptureGate, CaptureBankGate, CaptureParkGate, Gate, CaptureGo
  <2> QED
    BY <1>1, <2>2 DEF CapHolds, CapLabels, CapReturns
<1>4. CASE CaptureGlobals
  <2>1. SUFFICES ASSUME ~CaptureReturn(FALSE) PROVE CapHolds(pc', cap', hw')
    BY <1>2
  <2>2. /\ pc = "cap_globals" /\ pc' = "cap_select" /\ hw' = hw
        /\ cap' = [cap EXCEPT !.irq = hw.irq]
    BY <1>4, <2>1 DEF CaptureGlobals, Read
  <2>3. cap.quad = 0 /\ cap'.quad = 0 /\ cap'.irq = hw.irq
    BY <1>1, <2>2 DEF CapAt, Caps
  <2>4. \A q \in Quads : ~(q < 0)
    BY QuadFacts
  <2> QED
    BY <2>2, <2>3, <2>4 DEF CapHolds, CapReturns
<1>5. CASE CaptureSelect
  <2>1. cap.quad \in Quads
    BY <1>1, <1>5 DEF CaptureSelect, CapAt
  <2>2. OnlySelector
    BY <1>1, <1>5, <2>1, SelectFacts DEF CaptureSelect, Write, OnlySelector
  <2>3. CASE CaptureFails("cap_park_gate")
    BY <1>1, <1>5, <2>2, <2>3, CaptureGoesOn DEF CaptureSelect
  <2>4. CASE ~CaptureFails("cap_park_gate")
    <3>1. /\ pc = "cap_select" /\ pc' = "cap_read" /\ cap' = cap
          /\ hw' = Select(cap.quad)
      BY <1>5, <2>4 DEF CaptureSelect, Write, CaptureGo
    <3>2. hw'.selector = cap.quad
      BY <1>1, <2>1, <3>1, SelectFacts
    <3> QED
      BY <1>1, <2>2, <3>1, <3>2 DEF CapHolds, CapReturns, OnlySelector
  <2> QED
    BY <2>3, <2>4
<1>6. CASE CaptureRead
  <2>1. cap.quad \in Quads /\ cap.ok /\ ~cap.complete /\ pc = "cap_read" /\ hw' = hw
    BY <1>1, <1>6 DEF CaptureRead, CapAt, Read
  <2>2. OnlySelector
    BY <2>1 DEF OnlySelector
  <2>3. CASE CaptureFails("cap_park_gate")
    BY <1>1, <2>1, <2>2, <2>3, CaptureGoesOn
  <2>4. CASE ~CaptureFails("cap_park_gate")
    <3>1. /\ cap' = [cap EXCEPT !.quad = @ + 1,
                                !.bank[cap.quad] = hw.bank[hw.selector]]
          /\ pc' = IF cap.quad + 1 \in Quads THEN "cap_bank" ELSE "cap_park_gate"
      BY <1>6, <2>4 DEF CaptureRead, Read
    <3>2. /\ cap'.quad = cap.quad + 1 /\ cap'.irq = cap.irq
          /\ cap'.bank = [cap.bank EXCEPT ![cap.quad] = hw.bank[hw.selector]]
      BY <1>1, <2>1, <3>1, CaptureReadFacts
    <3>3. /\ hw.selector = cap.quad /\ cap.irq = hw.irq
          /\ \A q \in Quads : q < cap.quad => cap.bank[q] = hw.bank[q]
      BY <1>1, <2>1 DEF CapHolds
    <3>4. ASSUME NEW q \in Quads, q < cap'.quad
          PROVE  cap'.bank[q] = hw.bank[q]
      <4>1. q = cap.quad \/ (q # cap.quad /\ q < cap.quad)
        BY <2>1, <3>2, <3>4, QuadFacts DEF Quads
      <4>2. cap.bank \in Banks
        BY <1>1 DEF Caps
      <4> QED
        BY <2>1, <3>2, <3>3, <4>1, <4>2 DEF Banks
    <3>5. pc' \in {"cap_bank", "cap_park_gate"}
      BY <3>1
    <3> QED
      BY <2>1, <3>2, <3>3, <3>4, <3>5 DEF CapHolds, CapReturns
  <2> QED
    BY <2>3, <2>4
<1>7. CASE CapturePark
  <2>1. SUFFICES ASSUME ~CaptureReturn(FALSE) PROVE CapHolds(pc', cap', hw')
    BY <1>2
  <2>2. pc = "cap_park" /\ hw' = Select(0) /\ CaptureReturn(cap.ok)
    BY <1>7, <2>1 DEF CapturePark, Write
  <2>3. cap.ok
    BY <1>1, <2>1, <2>2 DEF Caps
  <2>4. /\ cap'.bank = cap.bank /\ cap'.irq = cap.irq /\ pc' \in CapReturns
        /\ cap.bank \in Banks /\ hw.bank \in Banks
    BY <1>1, <2>2 DEF CaptureReturn, Caps, Hardware
  <2>5. cap.quad = QuadCount /\ cap.irq = hw.irq
    BY <1>1, <2>2, <2>3 DEF CapAt, CapHolds
  <2>6. \A q \in Quads : cap.bank[q] = hw.bank[q]
    BY <1>1, <2>3, <2>5, QuadFacts DEF CapHolds, Quads
  <2>7. cap.bank = hw.bank
    BY <2>4, <2>6 DEF Banks
  <2>8. hw'.selector = 0 /\ hw'.bank = hw.bank /\ hw'.irq = hw.irq
    BY <1>1, <2>2, SelectFacts, QuadFacts
  <2>9. pc' \notin CapLabels
    BY <2>4 DEF CapReturns, CapLabels
  <2> QED
    BY <2>4, <2>5, <2>7, <2>8, <2>9 DEF CapHolds
<1> QED
  BY <1>3, <1>4, <1>5, <1>6, <1>7 DEF CaptureNext

\* A capture changes the selector and nothing else of the module.
LEMMA CaptureSelects ==
    ASSUME TypeInv, CaptureNext
    PROVE  OnlySelector
<1>1. pc \in CapLabels /\ CapAt(pc, cap) /\ hw \in Hardware
  BY CaptureNextStep, CapFacts
<1>2. \/ hw' = hw
      \/ pc = "cap_select" /\ hw' = Select(cap.quad)
      \/ hw' = Select(0)
  BY DEF CaptureNext, CaptureGate, CaptureGlobals, CaptureBankGate,
         CaptureSelect, CaptureRead, CaptureParkGate, CapturePark, Gate, Read,
         Write
<1>3. CASE hw' = hw
  BY <1>3 DEF OnlySelector
<1>4. CASE pc = "cap_select" /\ hw' = Select(cap.quad)
  <2>1. cap.quad \in Quads
    BY <1>1, <1>4 DEF CapAt
  <2> QED
    BY <1>1, <1>4, <2>1, SelectFacts DEF OnlySelector
<1>5. CASE hw' = Select(0)
  BY <1>1, <1>5, SelectFacts, QuadFacts DEF OnlySelector
<1> QED
  BY <1>2, <1>3, <1>4, <1>5

\* A step of a capture keeps the module invariant.
LEMMA CaptureStays ==
    ASSUME TypeInv, ModuleInv, CaptureNext
    PROVE  ModuleInv'
<1>1. /\ pc \in CapLabels /\ StepFrame /\ op' = op /\ cap'.return = cap.return
      /\ CapAt(pc', cap') \/ pc' = cap.return
      /\ cap.return \in CapReturns \ {"idle"} /\ OnlySelector /\ TypeInv'
  BY CaptureNextStep, CaptureKept, CaptureSelects, CapFacts
     DEF CapStep, TypeInv, Located, CapShape
<1>2. pc' \in CapLabels \/ (pc' \notin CapLabels /\ pc' = cap.return)
  BY <1>1 DEF CapAt, CapReturns, CapLabels
<1>3. mvme' = mvme
  BY <1>1 DEF StepFrame
<1>4. /\ Alone => Undisturbed
      /\ Alone' <=> Alone
      /\ Undisturbed' <=> Undisturbed
  BY <1>1, <1>3, UndisturbedFacts
<1>5. /\ pc' \notin FixLabels \cup PrepLabels \cup Quiet \cup DOMAIN EndKinds
      /\ pc' \in BulkLabels => pc' = "bulk_preflight"
      /\ pc' \in CapReturns \ {"idle"} => pc' \notin CapLabels
  <2>1. CASE pc' \in CapLabels
    BY <2>1, LabelFacts DEF CapLabels, CapReturns
  <2>2. CASE pc' \in CapReturns \ {"idle"}
    <3>1. pc' \in {"captured", "bulk_preflight", "startup_captured",
                   "startup_final"}
      BY <2>2 DEF CapReturns
    <3> QED
      BY <3>1 DEF BulkLabels, BulkBegin, BulkWriting, BulkUndoing, BulkEnding,
           FixLabels, FixBegin, FixWriting, FixUndoing, FixEnding, FixReset,
           PrepLabels, PrepBegin, PrepWriting, PrepReset, PrepUndoing,
           PrepEnding, Quiet, EndKinds, CapLabels
  <2> QED
    BY <1>1, <1>2, <2>1, <2>2
<1>6. CapReturned'
  BY <1>1, <1>2, <1>5 DEF CapReturned
<1>7. CapSays'
  <2>1. SUFFICES ASSUME Alone \/ (cap.return = "bulk_preflight" /\ Undisturbed)
                 PROVE  CapHolds(pc', cap', hw')
    BY <1>1, <1>4 DEF CapSays, CapHolds
  <2>2. CapHolds(pc, cap, hw)
    BY <2>1 DEF ModuleInv, CapSays, CapHolds
  <2> QED
    BY <2>2, CaptureNextSays
<1>8. FreshSays' /\ RepairAlone'
  BY <1>5 DEF FreshSays, RepairAlone
<1>9. OperationSays'
  <2>1. BulkSays("bulk_preflight", op', hw')
    BY DEF BulkSays, BulkBegin, BulkWriting, BulkUndoing, BulkEnding
  <2> QED
    BY <1>5, <2>1 DEF OperationSays
<1>10. StartupSays'
  <2>1. SUFFICES ASSUME Alone, InStartup' PROVE ContractHolds' /\ hw'.acq = 0
    BY <1>4 DEF StartupSays
  <2>2. InStartup
    <3>1. CASE pc' \in CapLabels
      BY <1>1, <2>1, <3>1, LabelFacts DEF InStartup
    <3>2. CASE pc' \notin CapLabels
      BY <1>1, <1>2, <1>5, <2>1, <3>2 DEF InStartup, StartupLabels, CapReturns
    <3> QED
      BY <3>1, <3>2
  <2>3. ContractHolds /\ hw.acq = 0
    BY <1>1, <2>1, <2>2, LabelFacts DEF ModuleInv, StartupSays, StartupLabels
  <2> QED
    BY <1>1, <2>3 DEF ContractHolds, ContractSettings, OnlySelector
<1>11. PassedIsApplied' /\ VerifiedRollbackRestores'
  BY <1>5, LabelFacts DEF PassedIsApplied, VerifiedRollbackRestores, Ended
<1>12. PairsStayValid'
  BY <1>1, <1>4 DEF ModuleInv, PairsStayValid, OnlySelector
<1>13. StartupPassedHolds'
  BY <1>1, <1>5 DEF StartupPassedHolds, TypeInv, Located, Quiet
<1> QED
  BY <1>6, <1>7, <1>8, <1>9, <1>10, <1>11, <1>12, <1>13 DEF ModuleInv

----------------------------------------------------------------------------
(***************************************************************************)
(*                   15. The commands and the module                       *)
(***************************************************************************)
\* A step of the service sends nothing.
LEMMA ServiceUndisturbed ==
    ASSUME TypeInv, ServiceFrame
    PROVE  /\ Alone => Undisturbed
           /\ Alone' <=> Alone
           /\ hw' = hw /\ mvme' = mvme
BY DEF TypeInv, Located, Alone, Undisturbed, ServiceFrame

\* A capture begins.
LEMMA CaptureBeginsStays ==
    ASSUME TypeInv, ModuleInv, TypeInv', ServiceFrame,
           NEW r \in CapReturns \ {"idle"}, Capture(r),
           \/ op' = op
           \/ op'.live.bank = hw.bank \/ ~Alone,
           Alone /\ InStartup' => ContractHolds /\ hw.acq = 0
    PROVE  ModuleInv'
<1>1. /\ pc' = "cap_gate" /\ cap' \in Caps /\ cap'.return = r
      /\ cap'.quad = 0 /\ cap'.ok /\ ~cap'.complete
  BY CaptureBegins
<1>2. pc' \in CapLabels
  BY <1>1 DEF CapLabels
<1>3. /\ pc' \notin BulkLabels \cup FixLabels \cup PrepLabels \cup Quiet
                  \cup DOMAIN EndKinds \cup {"captured"} \cup StartupLabels
      /\ pc' \notin CapReturns
  BY <1>1, <1>2, LabelFacts DEF CapReturns
<1>4. /\ Alone' <=> Alone
      /\ hw' = hw
  BY ServiceUndisturbed
<1>5. CapReturned' /\ FreshSays' /\ OperationSays' /\ RepairAlone'
  BY <1>3 DEF CapReturned, FreshSays, OperationSays, RepairAlone
<1>6. CapSays'
  <2>1. \A q \in Quads : ~(q < 0)
    BY QuadFacts
  <2> QED
    BY <1>1, <1>3, <2>1 DEF CapSays
<1>7. StartupSays'
  BY <1>4 DEF StartupSays, ContractHolds
<1>8. PassedIsApplied' /\ VerifiedRollbackRestores'
  BY <1>3, LabelFacts DEF PassedIsApplied, VerifiedRollbackRestores, Ended
<1>9. PairsStayValid'
  <2>1. CASE op' = op
    BY <1>4, <2>1 DEF ModuleInv, PairsStayValid
  <2>2. CASE op'.live.bank = hw.bank \/ ~Alone
    BY <1>4, <2>2 DEF PairsStayValid
  <2> QED
    BY <2>1, <2>2
<1>10. StartupPassedHolds'
  BY <1>3 DEF StartupPassedHolds, TypeInv, Located, Quiet
<1> QED
  BY <1>5, <1>6, <1>7, <1>8, <1>9, <1>10 DEF ModuleInv

\* A command ends, or none has begun.
LEMMA QuietStays ==
    ASSUME TypeInv, ModuleInv, ServiceFrame, pc' \in Quiet, op' = op, cap' = cap,
           Alone /\ svc'.fresh =>
              svc'.captured.bank = hw.bank /\ svc'.captured.irq = hw.irq,
           Alone /\ svc'.startupPassed =>
              /\ hw.bank = svc'.profile.bank /\ ContractHolds
              /\ hw.acq = 0 /\ hw.selector = 0
    PROVE  ModuleInv'
<1>1. /\ pc' \notin BulkLabels \cup FixLabels \cup PrepLabels \cup CapLabels
      /\ pc' \notin DOMAIN EndKinds \cup {"captured"} \cup StartupLabels
      /\ pc' \notin CapReturns \ {"idle"}
  BY LabelFacts DEF Quiet, StartupLabels, CapReturns
<1>2. /\ Alone' <=> Alone
      /\ hw' = hw
  BY ServiceUndisturbed
<1>3. CapReturned' /\ CapSays' /\ OperationSays' /\ RepairAlone'
  BY <1>1 DEF CapReturned, CapSays, OperationSays, RepairAlone
<1>4. FreshSays' /\ StartupPassedHolds'
  BY <1>2 DEF FreshSays, StartupPassedHolds, ContractHolds
<1>5. StartupSays'
  BY <1>1 DEF StartupSays, InStartup
<1>6. PassedIsApplied' /\ VerifiedRollbackRestores'
  BY <1>1, LabelFacts DEF PassedIsApplied, VerifiedRollbackRestores, Ended
<1>7. PairsStayValid'
  BY <1>2 DEF ModuleInv, PairsStayValid
<1> QED
  BY <1>3, <1>4, <1>5, <1>6, <1>7 DEF ModuleInv

\* The capture command and its end keep the module invariant.
LEMMA CaptureConfigurationStays ==
    ASSUME TypeInv, ModuleInv,
           CaptureConfiguration \/ CaptureConfigurationEnds
    PROVE  ModuleInv'
<1>1. TypeInv' /\ ServiceFrame
  BY CaptureConfigurationKept, CaptureConfigurationEndsKept
<1>2. CASE CaptureConfiguration
  <2>1. Capture("captured") /\ op' = op /\ "captured" \in CapReturns \ {"idle"}
    BY <1>2 DEF CaptureConfiguration, CapReturns
  <2>2. ~InStartup'
    <3>1. pc' = "cap_gate" /\ cap'.return = "captured" /\ pc' \in CapLabels
      BY <2>1, CaptureBegins DEF CapLabels
    <3> QED
      BY <3>1, LabelFacts DEF InStartup
  <2> QED
    BY <1>1, <2>1, <2>2, CaptureBeginsStays
<1>3. CASE CaptureConfigurationEnds
  <2>1. /\ pc = "captured" /\ pc' = "idle" /\ op' = op /\ cap' = cap
        /\ svc' = [svc EXCEPT !.captured = Captured, !.complete = cap.complete,
                              !.fresh = cap.complete]
    BY <1>3 DEF CaptureConfigurationEnds
  <2>2. TypeOK /\ svc \in Services /\ ~svc.startupPassed /\ cap \in Caps
    BY <2>1 DEF TypeInv, TypeOK, Located
  <2>3. /\ svc'.captured = Captured /\ (svc'.fresh <=> cap.complete)
        /\ ~svc'.startupPassed
    BY <2>1, <2>2 DEF Services, Caps
  <2>4. Alone /\ cap.complete => cap.bank = hw.bank /\ cap.irq = hw.irq
    BY <2>1 DEF ModuleInv, CapReturned, CapSays, CapReturns
  <2> QED
    BY <1>1, <2>1, <2>3, <2>4, QuietStays DEF Quiet, Captured
<1> QED
  BY <1>2, <1>3

\* The commands that begin no write keep the module invariant.
LEMMA QuietCommandsStay ==
    ASSUME TypeInv, ModuleInv,
           \/ LoadProfile \/ RunStartupAudit \/ RunStartupAuditGate
           \/ RunStartupAuditEnds \/ ApplyEnds
    PROVE  ModuleInv'
<1>1. TypeInv' /\ ServiceFrame
  BY LoadProfileKept, AuditKept, ApplyEndsKept
<1>2. op' = op /\ cap' = cap /\ pc' \in Quiet /\ svc \in Services
  BY DEF LoadProfile, RunStartupAudit, RunStartupAuditGate,
         RunStartupAuditEnds, ApplyEnds, Gate, Quiet, Command, TypeInv, TypeOK
<1>3. /\ svc'.fresh => pc \in Quiet /\ svc.fresh /\ svc'.captured = svc.captured
      /\ ~svc'.startupPassed
  <2>1. CASE LoadProfile
    BY <1>2, <2>1, CommandFacts
       DEF LoadProfile, Command, Counted, Services, Quiet
  <2>2. CASE RunStartupAudit
    BY <1>2, <2>2, CommandFacts
       DEF RunStartupAudit, Command, Counted, Services, Quiet
  <2>3. CASE RunStartupAuditGate
    <3>1. pc = "audit_gate" /\ svc' \in {svc, DetachForForeignDaq}
      BY <2>3 DEF RunStartupAuditGate, Gate
    <3>2. ~svc.startupPassed /\ TypeOK
      BY <3>1 DEF TypeInv, Located
    <3> QED
      BY <1>2, <3>1, <3>2, DetachFacts DEF Quiet
  <2>4. CASE RunStartupAuditEnds
    <3>1. /\ pc = "audit_read"
          /\ svc' = svc \/ svc' = [svc EXCEPT !.audited = TRUE]
      BY <2>4 DEF RunStartupAuditEnds, Read
    <3>2. ~svc.startupPassed
      BY <3>1 DEF TypeInv, Located
    <3> QED
      BY <1>2, <3>1, <3>2 DEF Quiet, Services
  <2>5. CASE ApplyEnds
    BY <1>2, <2>5 DEF ApplyEnds, Services
  <2> QED
    BY <2>1, <2>2, <2>3, <2>4, <2>5
<1>4. Alone /\ svc'.fresh =>
         svc'.captured.bank = hw.bank /\ svc'.captured.irq = hw.irq
  BY <1>3 DEF ModuleInv, FreshSays
<1> QED
  BY <1>1, <1>2, <1>3, <1>4, QuietStays

\* A repair and a startup begin with a gate of their own.
LEMMA TransactionBeginsStays ==
    ASSUME TypeInv, TypeInv', ServiceFrame,
           Alone => op'.live.bank = hw.bank,
           \/ pc' = "fix_gate" /\ FixSays(pc', op', hw)
           \/ pc' = "prep_gate" /\ PrepSays(pc', op', hw)
    PROVE  ModuleInv'
<1>1. pc' \in FixLabels \/ pc' \in PrepLabels
  BY DEF FixLabels, FixBegin, PrepLabels, PrepBegin
<1>2. /\ pc' \notin BulkLabels \cup CapLabels \cup Quiet \cup DOMAIN EndKinds
                  \cup {"captured"} \cup StartupLabels
      /\ pc' \notin CapReturns
  BY <1>1, LabelFacts DEF CapReturns
<1>3. /\ pc' = "fix_gate" => pc' \notin PrepLabels
      /\ pc' = "prep_gate" => pc' \notin FixLabels
  BY DEF FixLabels, FixBegin, FixWriting, FixUndoing, FixEnding, FixReset,
         PrepLabels, PrepBegin, PrepWriting, PrepReset, PrepUndoing, PrepEnding
<1>4. /\ Alone' <=> Alone
      /\ hw' = hw
  BY ServiceUndisturbed
<1>5. CapReturned' /\ CapSays' /\ FreshSays'
  BY <1>2 DEF CapReturned, CapSays, FreshSays
<1>6. OperationSays'
  BY <1>2, <1>3, <1>4 DEF OperationSays
<1>7. RepairAlone' /\ PairsStayValid'
  BY <1>4 DEF RepairAlone, FixAlone, PairsStayValid
<1>8. StartupSays'
  BY <1>1, <1>2 DEF StartupSays, InStartup
<1>9. PassedIsApplied' /\ VerifiedRollbackRestores'
  BY <1>2, LabelFacts DEF PassedIsApplied, VerifiedRollbackRestores, Ended
<1>10. StartupPassedHolds'
  BY <1>2 DEF StartupPassedHolds, TypeInv, Located, Quiet
<1> QED
  BY <1>5, <1>6, <1>7, <1>8, <1>9, <1>10 DEF ModuleInv

\* Applying one row keeps the module invariant.
LEMMA ApplyProfileRowStays ==
    ASSUME TypeInv, ModuleInv, ApplyProfileRow
    PROVE  ModuleInv'
<1>1. TypeInv' /\ ServiceFrame
  BY ApplyProfileRowKept
<1>2. pc = "idle" /\ svc.fresh
  BY DEF ApplyProfileRow, Command, Comparable
<1>3. PICK step : Repair(svc.captured, step, "applied")
  BY DEF ApplyProfileRow
<1>4. /\ pc' = "fix_gate"
      /\ op' = [NoOp EXCEPT !.kind = "repair", !.live = svc.captured,
                            !.steps = <<step>>, !.return = "applied"]
  BY <1>3 DEF Repair, Go
<1>5. NoOp \in Ops
  BY ServiceFacts DEF TypeInv
<1>6. /\ op'.live = svc.captured /\ ~op'.retained /\ ~op'.verified
      /\ ~op'.parked /\ ~op'.reset /\ ~op'.stopVerified
  BY <1>4 DEF NoOp
<1>7. FixSays(pc', op', hw)
  BY <1>4, <1>6 DEF FixSays, FixWriting, FixUndoing, FixReset
<1>8. Alone => svc.captured.bank = hw.bank
  BY <1>2 DEF ModuleInv, FreshSays, Quiet
<1> QED
  BY <1>1, <1>4, <1>6, <1>7, <1>8, TransactionBeginsStays

\* Applying all differences keeps the module invariant.
LEMMA ApplyAllDifferencesStays ==
    ASSUME TypeInv, ModuleInv, ApplyAllDifferences
    PROVE  ModuleInv'
<1>1. TypeInv' /\ ServiceFrame
  BY ApplyAllDifferencesKept
<1>2. pc = "idle" /\ svc.fresh
  BY DEF ApplyAllDifferences, Command, Comparable
<1>3. PICK steps : /\ steps = Steps(svc.profile, svc.captured) /\ steps # <<>>
                   /\ BulkApply(svc.captured, steps, "applied")
  BY DEF ApplyAllDifferences
<1>4. svc.captured \in Live /\ svc.profile \in ValidProfiles
  BY ServiceFacts DEF TypeInv, ApplyAllDifferences, ApplicationPlanned, ValidProfiles
<1>5. /\ op'.return = "applied" /\ op'.live = svc.captured
      /\ Capture("bulk_preflight")
  BY <1>3, <1>4, BulkBegins DEF BulkReturns
<1>6. Alone => svc.captured.bank = hw.bank
  BY <1>2 DEF ModuleInv, FreshSays, Quiet
<1>7. "bulk_preflight" \in CapReturns \ {"idle"}
  BY DEF CapReturns
<1>8. ~InStartup'
  <2>1. pc' = "cap_gate" /\ cap'.return = "bulk_preflight" /\ pc' \in CapLabels
    BY <1>5, <1>7, CaptureBegins DEF CapLabels
  <2> QED
    BY <1>5, <2>1, LabelFacts DEF InStartup
<1> QED
  BY <1>1, <1>5, <1>6, <1>7, <1>8, CaptureBeginsStays

\* Beginning a deterministic startup keeps the module invariant.
LEMMA RunDeterministicStartupStays ==
    ASSUME TypeInv, ModuleInv, RunDeterministicStartup
    PROVE  ModuleInv'
<1>1. TypeInv' /\ ServiceFrame
  BY RunDeterministicStartupKept
<1>2. pc = "idle" /\ svc.fresh /\ Prepare("startup_prepared")
  BY DEF RunDeterministicStartup, Command, Comparable
<1>3. /\ pc' = "prep_gate"
      /\ op' = [NoOp EXCEPT !.kind = "prepare", !.return = "startup_prepared"]
  BY <1>2 DEF Prepare, Go
<1>4. /\ op'.live = Captured /\ op'.steps = <<>> /\ ~op'.stopVerified
  BY <1>3 DEF NoOp
<1>5. PrepSays(pc', op', hw)
  <2>1. Len(op'.steps) = 0
    BY <1>4
  <2>2. \A i \in 1 .. Len(op'.steps) : FALSE
    BY <2>1
  <2>3. PrepAt(op', hw, 0, 0)
    BY <2>2 DEF PrepAt
  <2>4. /\ pc' \notin PrepWriting \cup PrepReset \cup PrepUndoing \cup PrepEnding
        /\ pc' # "prep_readout" /\ pc' # "prep_final_gate" /\ pc' # "prep_final"
    BY <1>3 DEF PrepWriting, PrepReset, PrepUndoing, PrepEnding
  <2> QED
    BY <1>4, <2>2, <2>3, <2>4 DEF PrepSays
<1>6. Alone => Captured.bank = hw.bank
  <2>1. svc.captured = Captured
    BY <1>2 DEF TypeInv, Located, Quiet
  <2> QED
    BY <1>2, <2>1 DEF ModuleInv, FreshSays, Quiet
<1> QED
  BY <1>1, <1>3, <1>4, <1>5, <1>6, TransactionBeginsStays

\* The startup goes on or ends.
LEMMA StartupStays ==
    ASSUME TypeInv, ModuleInv, StartupPrepared \/ StartupCaptured \/ StartupApplied
    PROVE  ModuleInv'
<1>1. TypeInv' /\ ServiceFrame
  BY StartupKept
<1>2. CASE StartupFails
  <2>1. /\ op' = op /\ cap' = cap /\ pc' = "idle" /\ svc \in Services
        /\ svc' = [svc EXCEPT !.startupPassed = FALSE, !.fresh = FALSE]
    BY <1>2 DEF StartupFails, TypeInv, TypeOK
  <2>2. ~svc'.fresh /\ ~svc'.startupPassed
    BY <2>1 DEF Services
  <2> QED
    BY <1>1, <2>1, <2>2, QuietStays DEF Quiet
<1>3. CASE ~StartupFails
  <2>1. Alone => ContractHolds /\ hw.acq = 0
    <3>1. CASE StartupPrepared
      <4>1. pc = "startup_prepared" /\ op.state = "passed"
        BY <1>3, <3>1 DEF StartupPrepared
      <4>2. op.kind = "prepare"
        BY <4>1, LabelFacts DEF TypeInv, Located
      <4>3. Alone => Undisturbed
        BY <1>1, ServiceUndisturbed
      <4> QED
        BY <4>1, <4>2, <4>3 DEF ModuleInv, PassedIsApplied, Ended
    <3>2. CASE StartupCaptured \/ StartupApplied
      <4>1. pc \in {"startup_captured", "startup_applied"}
        BY <3>2 DEF StartupCaptured, StartupApplied
      <4>2. InStartup /\ pc \notin PrepLabels \cup {"startup_prepared"}
        BY <4>1, LabelFacts DEF InStartup, StartupLabels
      <4> QED
        BY <4>2 DEF ModuleInv, StartupSays
    <3> QED
      BY <3>1, <3>2
  <2>2. CASE \E r \in {"startup_captured", "startup_final"} : StartupCaptures(r)
    <3>1. PICK r \in {"startup_captured", "startup_final"} : StartupCaptures(r)
      BY <2>2
    <3>2. Capture(r) /\ op' = op /\ r \in CapReturns \ {"idle"}
      BY <3>1 DEF StartupCaptures, CapReturns
    <3> QED
      BY <1>1, <2>1, <3>2, CaptureBeginsStays
  <2>3. CASE /\ pc = "startup_captured" /\ cap.complete
             /\ BulkApply(Captured, Steps(svc.profile, Captured), "startup_applied")
             /\ Steps(svc.profile, Captured) # <<>>
             /\ ApplicationPlanned(svc.profile, Captured)
    <3>1. Captured \in Live /\ svc.profile \in ValidProfiles
      BY <2>3, ServiceFacts DEF TypeInv, ApplicationPlanned, ValidProfiles
    <3>2. PICK live, steps : live = Captured /\ steps = Steps(svc.profile, Captured)
      OBVIOUS
    <3>3. op'.live = live /\ Capture("bulk_preflight")
      BY <2>3, <3>1, <3>2, BulkBegins DEF BulkReturns
    <3>4. Alone => Captured.bank = hw.bank
      BY <2>3 DEF ModuleInv, CapReturned, CapSays, CapReturns, Captured
    <3>5. "bulk_preflight" \in CapReturns \ {"idle"}
      BY DEF CapReturns
    <3> QED
      BY <1>1, <2>1, <3>2, <3>3, <3>4, <3>5, CaptureBeginsStays
  <2> QED
    BY <1>3, <2>2, <2>3 DEF StartupPrepared, StartupCaptured, StartupApplied
<1> QED
  BY <1>2, <1>3

\* The startup's verdict keeps the module invariant: it passes only on a
\* capture that matches.
LEMMA StartupFinalStays ==
    ASSUME TypeInv, ModuleInv, StartupFinal
    PROVE  ModuleInv'
<1>1. TypeInv' /\ ServiceFrame
  BY StartupFinalKept
<1>2. CASE StartupFails
  <2>1. /\ op' = op /\ cap' = cap /\ pc' = "idle" /\ svc \in Services
        /\ svc' = [svc EXCEPT !.startupPassed = FALSE, !.fresh = FALSE]
    BY <1>2 DEF StartupFails, TypeInv, TypeOK
  <2>2. ~svc'.fresh /\ ~svc'.startupPassed
    BY <2>1 DEF Services
  <2> QED
    BY <1>1, <2>1, <2>2, QuietStays DEF Quiet
<1>3. CASE ~StartupFails
  <2>1. /\ cap.complete /\ pc = "startup_final" /\ pc' = "idle"
        /\ svc' = [svc EXCEPT !.startupPassed = TRUE, !.captured = Captured,
                              !.complete = TRUE, !.fresh = TRUE]
        /\ op' = op /\ cap' = cap
    BY <1>3 DEF StartupFinal
  <2>2. svc'.captured = Captured /\ svc'.startupPassed
    BY <2>1 DEF TypeInv, TypeOK, Services
  <2>3. svc'.captured.bank = svc'.profile.bank
    BY <1>1, <2>2 DEF TypeInv, Located
  <2>4. Alone => cap.bank = hw.bank /\ cap.irq = hw.irq /\ hw.selector = 0
    BY <2>1 DEF ModuleInv, CapReturned, CapSays, CapReturns
  <2>5. InStartup /\ pc \notin PrepLabels \cup {"startup_prepared"}
    BY <2>1, LabelFacts DEF InStartup, StartupLabels
  <2>6. Alone => ContractHolds /\ hw.acq = 0
    BY <2>5 DEF ModuleInv, StartupSays
  <2> QED
    BY <1>1, <2>1, <2>2, <2>3, <2>4, <2>6, QuietStays DEF Quiet, Captured
<1> QED
  BY <1>2, <1>3

\* MVME starts or stops: nothing is said of the module any more.
LEMMA MvmeStays ==
    ASSUME TypeInv, ModuleInv, MvmeStart \/ MvmeStop
    PROVE  ModuleInv'
<1>1. pc' = pc /\ op' = op /\ cap' = cap /\ svc' = svc
  BY DEF MvmeStart, MvmeStop
<1>2. ~Alone' /\ ~Undisturbed'
  <2>1. CASE MvmeStart
    BY <2>1 DEF MvmeStart, Alone, Undisturbed
  <2>2. CASE MvmeStop
    BY <1>1, <2>2 DEF MvmeStop, Alone, Undisturbed, TypeInv, Located
  <2> QED
    BY <2>1, <2>2
<1>3. CapReturned'
  BY <1>1 DEF ModuleInv, CapReturned
<1>4. CapSays' /\ FreshSays' /\ OperationSays' /\ RepairAlone' /\ StartupSays'
  BY <1>2 DEF CapSays, FreshSays, OperationSays, RepairAlone, StartupSays
<1>5. /\ PassedIsApplied' /\ VerifiedRollbackRestores' /\ PairsStayValid'
      /\ StartupPassedHolds'
  BY <1>2 DEF PassedIsApplied, VerifiedRollbackRestores, PairsStayValid,
              StartupPassedHolds
<1> QED
  BY <1>3, <1>4, <1>5 DEF ModuleInv

\* The initial states satisfy the module invariant: nothing was captured,
\* nothing is claimed.
LEMMA ModuleInit ==
    ASSUME Init
    PROVE  ModuleInv
<1>1. pc = "idle" /\ op = NoOp /\ ~svc.fresh /\ ~svc.startupPassed
  BY DEF Init
<1>2. /\ pc \notin BulkLabels \cup FixLabels \cup PrepLabels \cup CapLabels
      /\ pc \notin StartupLabels \cup (CapReturns \ {"idle"}) /\ ~Ended
  BY <1>1 DEF BulkLabels, BulkBegin, BulkWriting, BulkUndoing, BulkEnding,
       FixLabels, FixBegin, FixWriting, FixUndoing, FixEnding, FixReset,
       PrepLabels, PrepBegin, PrepWriting, PrepReset, PrepUndoing, PrepEnding,
       CapLabels, StartupLabels, CapReturns, Ended
<1>3. op.kind = "none"
  BY <1>1 DEF NoOp
<1>4. /\ CapReturned /\ CapSays /\ FreshSays /\ OperationSays /\ RepairAlone
      /\ StartupSays
  BY <1>1, <1>2 DEF CapReturned, CapSays, FreshSays, OperationSays, RepairAlone,
                    StartupSays, InStartup
<1>5. /\ PassedIsApplied /\ VerifiedRollbackRestores /\ PairsStayValid
      /\ StartupPassedHolds
  BY <1>1, <1>2, <1>3
     DEF PassedIsApplied, VerifiedRollbackRestores, PairsStayValid,
         StartupPassedHolds
<1> QED
  BY <1>4, <1>5 DEF ModuleInv

\* Every step keeps the module invariant.
LEMMA ModuleKept ==
    ASSUME TypeInv, ModuleInv, [Next]_vars
    PROVE  ModuleInv'
<1>1. CASE ServiceNext
  BY <1>1, CaptureConfigurationStays, QuietCommandsStay, ApplyProfileRowStays,
     ApplyAllDifferencesStays, RunDeterministicStartupStays, StartupStays,
     StartupFinalStays DEF ServiceNext
<1>2. CASE UNCHANGED vars
  <2>1. /\ hw' = hw /\ mvme' = mvme /\ pc' = pc /\ op' = op /\ cap' = cap
        /\ svc' = svc
    BY <1>2 DEF vars
  <2>2. CapReturned' /\ CapSays' /\ FreshSays' /\ OperationSays' /\ RepairAlone'
    BY <2>1 DEF ModuleInv, CapReturned, CapSays, FreshSays, OperationSays,
                RepairAlone, Alone, Undisturbed
  <2>3. StartupSays'
    BY <2>1 DEF ModuleInv, StartupSays, InStartup, ContractHolds, Alone
  <2>4. PassedIsApplied'
    BY <2>1 DEF ModuleInv, PassedIsApplied, Ended, Undisturbed, ContractHolds
  <2>5. VerifiedRollbackRestores' /\ PairsStayValid' /\ StartupPassedHolds'
    BY <2>1 DEF ModuleInv, VerifiedRollbackRestores, PairsStayValid,
                StartupPassedHolds, Ended, Undisturbed, ContractHolds, Alone
  <2> QED
    BY <2>2, <2>3, <2>4, <2>5 DEF ModuleInv
<1> QED
  BY <1>1, <1>2, BulkStays, RepairStays, PreparationStays, CaptureStays,
     MvmeStays DEF Next, Done

----------------------------------------------------------------------------
(***************************************************************************)
(*                          16. The theorems                               *)
(***************************************************************************)
\* In every reachable state the module is as the invariant says.
LEMMA ModuleAlways ==
    Spec => [](TypeInv /\ ModuleInv)
<1>1. Init => TypeInv /\ IntrusionInv /\ ModuleInv
  BY TypeInit, ModuleInit
<1>2. TypeInv /\ IntrusionInv /\ ModuleInv /\ [Next]_vars
         => TypeInv' /\ IntrusionInv' /\ ModuleInv'
  BY TypeKept, ModuleKept
<1> QED
  BY <1>1, <1>2, PTL DEF Spec

\* A capture that counts as fresh shows what is on the module, as long as MVME
\* has not acted: every command that changes the module withdraws it
\* (OwnershipService::ApplyProfileRow, ApplyAllDifferences,
\* RunDeterministicStartup).
THEOREM FreshCaptureIsLive == Spec => []FreshIsLive
<1>1. TypeInv /\ ModuleInv => FreshIsLive
  <2>1. SUFFICES ASSUME TypeInv, ModuleInv, pc = "idle", svc.fresh, Alone
                 PROVE  svc.captured = [bank |-> hw.bank, irq |-> hw.irq]
    BY DEF FreshIsLive
  <2>2. svc.captured \in Live
    BY <2>1, ServiceFacts DEF TypeInv
  <2>3. svc.captured.bank = hw.bank /\ svc.captured.irq = hw.irq
    BY <2>1 DEF ModuleInv, FreshSays, Quiet
  <2> QED
    BY <2>2, <2>3 DEF Live
<1> QED
  BY <1>1, ModuleAlways, PTL

\* An application, a repair or a preparation that reports Passed has left the
\* module as planned, stopped, parked and with the readout reset after the last
\* write, whatever accesses failed on the way; and as long as the startup
\* counts as passed the module has the profile and the readout contract
\* (ApplyFw2051ScpProfile, RepairFw2051ScpProfileValue,
\* PrepareFw2051ModuleForStartup, RunDeterministicStartup).
THEOREM AppliedIsOnTheModule == Spec => []AppliedHolds
<1>1. ModuleInv => AppliedHolds
  BY DEF ModuleInv, AppliedHolds
<1> QED
  BY <1>1, ModuleAlways, PTL

\* A rollback that is reported as verified has undone every write, and no
\* moment of an application or of its rollback makes a coupled pair invalid
\* that was valid before (ScpBulkApplyOperation.cpp,
\* PlanFw2051ScpCoupledWriteOrder).
THEOREM RollbackIsAlwaysSafe == Spec => []RollbackIsSafe
<1>1. ModuleInv => RollbackIsSafe
  BY DEF ModuleInv, RollbackIsSafe
<1> QED
  BY <1>1, ModuleAlways, PTL
=============================================================================

------------------------------ MODULE ScpPlan ------------------------------
(***************************************************************************)
(* ScpRegistry.cpp, the comparison of ScpProfile.cpp and                   *)
(* ScpTransactionPlan.cpp: the banked settings, when two of them depend on *)
(* each other, and the order in which a profile is written.                *)
(*                                                                         *)
(* A configuration is what a capture of all quads records: the banked      *)
(* settings and the module-wide IRQ level.  Of the banked settings three   *)
(* stand for all: one without dependency and one coupled pair, in which    *)
(* the constrained setting may not exceed its boundary.                    *)
(***************************************************************************)
EXTENDS Naturals, Sequences, FiniteSets

CONSTANTS
    QuadCount,   \* 8 in the code
    MaxValue     \* largest register value of the model

ASSUME PlanAssumption == QuadCount \in Nat \ {0} /\ MaxValue \in Nat

Quads == 0 .. QuadCount - 1
Values == 0 .. MaxValue

\* Fw2051ScpSettingRegistry
Settings == {"gain", "timingFilter", "shapingTime"}
Constrained == "timingFilter"
Boundary == "shapingTime"
Quad == [Settings -> Values]
Banks == [Quads -> Quad]
Configuration == [bank : Banks, irq : Values]

\* Fw2051ScpDependencySatisfied for the coupled pair.
DependencySatisfied(constrained, boundary) == constrained <= boundary
Coupled(quad) == DependencySatisfied(quad[Constrained], quad[Boundary])

\* FindFw2051StartupPreparationMismatches: the readout contract asks for 1.
RequiredIrqLevel == 1

----------------------------------------------------------------------------
\* CompareFw2051ScpConfiguration
DiffersAt(profile, live, q, s) == profile.bank[q][s] # live.bank[q][s]
BankedDifferences(profile, live) ==
    {d \in Quads \X Settings : DiffersAt(profile, live, d[1], d[2])}
SameConfiguration(profile, live) ==
    BankedDifferences(profile, live) = {} /\ profile.irq = live.irq

\* addDifference: a step, unless it would change nothing.
Difference(profile, live, q, s) ==
    IF DiffersAt(profile, live, q, s)
      THEN <<[quad |-> q, setting |-> s, expected |-> live.bank[q][s],
              profile |-> profile.bank[q][s]]>>
      ELSE <<>>

\* PlanFw2051ScpCoupledWriteOrder
CoupledWriteOrder(liveBoundary, constrained) ==
    IF DependencySatisfied(constrained, liveBoundary)
      THEN <<Constrained, Boundary>> ELSE <<Boundary, Constrained>>

\* The steps of one quad.
QuadSteps(profile, live, q) ==
    LET order == CoupledWriteOrder(live.bank[q][Boundary],
                                   profile.bank[q][Constrained])
        step(s) == Difference(profile, live, q, s)
    IN  step("gain") \o step(order[1]) \o step(order[2])

\* The steps of the quads in ascending order.
Steps(profile, live) ==
    LET upTo[n \in 0 .. QuadCount] ==
            IF n = 0 THEN <<>>
            ELSE upTo[n - 1] \o QuadSteps(profile, live, n - 1)
    IN  upTo[QuadCount]

\* PlanFw2051ScpProfileApplication: blocked by a module-wide difference and by
\* a profile whose own pair is invalid.
ApplicationPlanned(profile, live) ==
    /\ profile.irq = live.irq
    /\ \A q \in Quads : Coupled(profile.bank[q])
    /\ Len(Steps(profile, live)) = Cardinality(BankedDifferences(profile, live))

\* PlanFw2051ScpStandaloneStartup: the module-wide difference is left to the
\* startup preparation.
StartupPlanned(profile, live) ==
    /\ profile.irq = RequiredIrqLevel
    /\ ApplicationPlanned(profile, [live EXCEPT !.irq = RequiredIrqLevel])
=============================================================================

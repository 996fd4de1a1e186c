---------------------------- MODULE MCScpService ----------------------------
(***************************************************************************)
(* An instance of ScpService with two quads.  Between the configurations   *)
(* lie transitions that must widen the boundary first, ones that must      *)
(* lower the constrained value first, and ones that change both quads.     *)
(***************************************************************************)
EXTENDS ScpService

Q(g, t, s) == [x \in Settings |-> CASE x = "gain" -> g
                                    [] x = "timingFilter" -> t
                                    [] x = "shapingTime" -> s]
Low  == [q \in Quads |-> IF q = 0 THEN Q(0, 0, 0) ELSE Q(0, 1, 1)]
High == [q \in Quads |-> IF q = 0 THEN Q(0, 1, 1) ELSE Q(1, 1, 1)]
MCLiveBanks == {Low, High}
MCProfiles == {[bank |-> b, irq |-> 1] : b \in MCLiveBanks}

----------------------------------------------------------------------------
\* What is reported as applied is on the module, also at the end of a startup
\* and until a command changes it (ApplyFw2051ScpProfile,
\* RepairFw2051ScpProfileValue, PrepareFw2051ModuleForStartup,
\* RunDeterministicStartup).
AppliedHolds == PassedIsApplied /\ StartupPassedHolds

\* A rollback that is reported as verified has undone every write, also one
\* that was reported as failed and took effect, and neither the application
\* nor its rollback makes a coupled pair invalid between its two writes
\* (ScpBulkApplyOperation.cpp, ScpTransactionPlan.cpp).
RollbackIsSafe == VerifiedRollbackRestores /\ PairsStayValid
=============================================================================

------------------------ MODULE MCOwnershipService ------------------------
(***************************************************************************)
(* Small instances of OwnershipService for TLC.  One tunable quad beside   *)
(* the parking bank, one non-target module.  The two banks start with      *)
(* different sample words, and MVME writes a word and a parameter value    *)
(* that FIDGET never writes.                                               *)
(***************************************************************************)
EXTENDS OwnershipService

MCFoundSample == [b \in Banks |-> 4 * b]
MCFoundParam == [b \in Banks |-> 0]
=============================================================================

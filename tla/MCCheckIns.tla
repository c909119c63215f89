------------------------------ MODULE MCCheckIns ------------------------------
(***************************************************************************)
(* A small instance of CheckIns: four requests for the slot of one member  *)
(* and one occurrence, so that check-ins and undos meet on one receipt     *)
(* while the directory changes.                                            *)
(***************************************************************************)
EXTENDS CheckIns, TLC

CONSTANTS r1, r2, r3, r4, o1, m1, e1

MCRequests == {r1, r2, r3, r4}
MCEventOf == [o \in {o1} |-> e1]
MCSymmetry == Permutations(MCRequests)

=============================================================================

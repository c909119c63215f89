----------------------------- MODULE MCDirectory -----------------------------
(***************************************************************************)
(* A small instance of Directory: three requests, enough for an archive, a *)
(* purge and a save to meet, over groups that can nest.                    *)
(***************************************************************************)
EXTENDS Directory, TLC

MCSymmetry == Permutations(Requests) \cup Permutations(Groups)

=============================================================================

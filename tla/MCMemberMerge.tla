----------------------------- MODULE MCMemberMerge -----------------------------
(***************************************************************************)
(* A small instance of MemberMerge: merges of two members beside the       *)
(* check-ins and undos of either, over the receipts of earlier services.   *)
(***************************************************************************)
EXTENDS MemberMerge, TLC

CONSTANTS r1, r2, o1, o2, k, l, e1, x1, x2, earlier

MCEventOf == [o \in Occurrences |-> e1]
MCCallers == Requests \cup Merges \cup {earlier}

(* Of what an update says of the code each kind is there, and updates with *)
(* and without groups.                                                     *)
MCUpdates ==
    {[groups |-> Groups, coded |-> TRUE, code |-> c] : c \in Codes}
    \cup {[groups |-> {}, coded |-> TRUE, code |-> None],
          [groups |-> Groups, coded |-> FALSE, code |-> None]}

MCSymmetry ==
    Permutations(Members) \cup Permutations(Requests) \cup Permutations(Merges)
        \cup Permutations(Occurrences)

=============================================================================

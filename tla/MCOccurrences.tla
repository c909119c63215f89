---------------------------- MODULE MCOccurrences ----------------------------
(***************************************************************************)
(* Small instances of Occurrences.  In the first an event whose rule no    *)
(* longer expands stands before a recurring one, and one request comes     *)
(* beside the timer.  In the second two requests meet at one occurrence.   *)
(***************************************************************************)
EXTENDS Occurrences, TLC

CONSTANTS r1, r2, timer

MCSchedule == (1 :> {}) @@ (2 :> {1, 2})
MCWindows == {<<1, 2>>, <<3, 6>>}

OneStart == (1 :> {1})
TwoWindows == {<<1, 2>>, <<2, 3>>}

Symmetry == Permutations(Requests)

=============================================================================

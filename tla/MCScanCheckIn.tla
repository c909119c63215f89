---------------------------- MODULE MCScanCheckIn ----------------------------
(***************************************************************************)
(* A small instance of ScanCheckIn: a member's card, a stray one, 3 calls.   *)
(***************************************************************************)
EXTENDS ScanCheckIn, TLC

CONSTANTS c1, c2, m1

(* A card of the member, and one that is not (or no longer) assigned.      *)
MCCards == c1 :> m1 @@ c2 :> None

=============================================================================

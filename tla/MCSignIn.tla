------------------------------ MODULE MCSignIn ------------------------------
(* Two accounts on one device.  What can come between the steps of a claim *)
(* happens to one of them; the other is at most invited.                   *)
EXTENDS SignIn, TLC

CONSTANTS e1, e2

MCMaxEdits == e1 :> 2 @@ e2 :> 1
=============================================================================

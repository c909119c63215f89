------------------------------ MODULE MCEditors ------------------------------
(* Small directories for the editors.  Where a lost answer of an earlier   *)
(* editor matters an editor is opened twice, elsewhere once.               *)
EXTENDS Editors

MCMaxDrafts ==
    [s \in Screens |-> IF s \in {"groups", "users", "sessions"} THEN 2 ELSE 1]
=============================================================================

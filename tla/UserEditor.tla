----------------------------- MODULE UserEditor ------------------------------
(***************************************************************************)
(* The editor of the Users screen.  It has no reload and no lock: whoever  *)
(* meets a newer version closes the editor and opens it from the list      *)
(* again, and may as well try the same save again.                         *)
(***************************************************************************)
EXTENDS Editing

UserBusy == Pending({"save", "archive"})

OpenUser ==
    \E d \in {listed[i] : i \in Ids} : OpenEditor(d, TRUE)

EditUser == ~UserBusy /\ ~ed.dirty /\ Type("none")

SaveUser == ~UserBusy /\ SendSave("none", FALSE)

AskToArchiveUser == ed.doc # Nothing /\ ed.doc.active /\ AskTo("archive")

ArchiveUser == "archive" \in ed.asked /\ ~UserBusy /\ Send("archive", "archive")

KeepUser == Keep("archive")

UserStep ==
    \/ OpenUser \/ CloseSheet(UserBusy)
    \/ /\ Open
       /\ \/ EditUser \/ SaveUser \/ AskToArchiveUser \/ ArchiveUser \/ KeepUser
          \/ CloseOn("save") \/ CloseOn("archive")
=============================================================================

----------------------------- MODULE FieldEditor -----------------------------
(***************************************************************************)
(* The editor of the Custom fields screen.  It locks itself on a stale     *)
(* document but not on an uncertain outcome, and the two answers to its    *)
(* question stay open while it is locked.                                  *)
(***************************************************************************)
EXTENDS Editing

FieldError == ErrorOf(<<"save", "archive", "reload">>)
FieldBusy == Pending({"save", "archive", "reload"})

FieldLocked == FieldBusy \/ FieldError = "stale" \/ OverArchived

OpenField ==
    \E d \in {listed[i] : i \in Ids} : OpenEditor(d, TRUE)

EditField == ~FieldLocked /\ ~ed.dirty /\ Type("none")

SaveField == ~FieldLocked /\ SendSave("none", FALSE)

AskToArchiveField ==
    ed.doc # Nothing /\ ed.doc.active /\ ~FieldLocked /\ AskTo("archive")

ArchiveField ==
    "archive" \in ed.asked /\ ed.doc # Nothing /\ ~FieldBusy /\ Send("archive", "archive")

KeepField == ~FieldBusy /\ Keep("archive")

ReloadField == FieldError = "stale" /\ ed.doc # Nothing /\ Send("reload", "get")

FieldStep ==
    \/ OpenField \/ CloseSheet(FieldBusy)
    \/ /\ Open
       /\ \/ EditField \/ SaveField \/ AskToArchiveField \/ ArchiveField \/ KeepField
          \/ ReloadField
          \/ CloseOn("save") \/ CloseOn("archive")
          \/ TakeReloaded({"save", "archive"}, {"archive"})
=============================================================================

----------------------------- MODULE GroupEditor -----------------------------
(***************************************************************************)
(* The editor of the Groups screen.  It locks itself on every uncertain    *)
(* outcome: only a reload, or for a new group closing the draft, goes on.  *)
(***************************************************************************)
EXTENDS Editing

GroupError == ErrorOf(<<"save", "archive", "reload">>)
GroupBusy == Pending({"save", "archive", "reload"})

(* Fault: an uncertain outcome does not lock the editor.                  *)
GroupLockedOnStale == GroupBusy \/ GroupError = "stale" \/ OverArchived

GroupLocked == GroupBusy \/ GroupError \in {"stale", "uncertain"} \/ OverArchived

OpenGroup ==
    \E d \in {listed[i] : i \in Ids} : OpenEditor(d, TRUE)

EditGroup == ~GroupLocked /\ ~ed.dirty /\ Type("none")

SaveGroup == ~GroupLocked /\ SendSave("none", FALSE)

AskToArchiveGroup ==
    ed.doc # Nothing /\ ed.doc.active /\ ~GroupLocked /\ AskTo("archive")

ArchiveGroup ==
    "archive" \in ed.asked /\ ~GroupLocked /\ Send("archive", "archive")

KeepGroup == ~GroupBusy /\ Keep("archive")

ReloadGroup ==
    GroupError \in {"stale", "uncertain"} /\ ed.doc # Nothing /\ Send("reload", "get")

GroupStep ==
    \/ OpenGroup \/ CloseSheet(GroupBusy)
    \/ /\ Open
       /\ \/ EditGroup \/ SaveGroup \/ AskToArchiveGroup \/ ArchiveGroup \/ KeepGroup
          \/ ReloadGroup
          \/ CloseOn("save") \/ CloseOn("archive")
          \/ TakeReloaded({"save", "archive"}, {"archive"})
=============================================================================

---------------------------- MODULE ChurchEditor -----------------------------
(***************************************************************************)
(* The editor of the Manage churches screen, which also deletes an         *)
(* archived church for good.  A reload forgets the errors of a save and of *)
(* an archive, not that of a purge.                                        *)
(***************************************************************************)
EXTENDS Editing

ChurchError == ErrorOf(<<"save", "archive", "purge", "reload">>)
ChurchBusy == Pending({"save", "archive", "purge", "reload"})

OpenChurch ==
    \E d \in {listed[i] : i \in Ids} : OpenEditor(d, TRUE)

EditChurch == ~ChurchBusy /\ ~ed.dirty /\ Type("none")

SaveChurch == ~ChurchBusy /\ ChurchError # "stale" /\ SendSave("none", FALSE)

AskToArchiveChurch == ed.doc # Nothing /\ ~ChurchBusy /\ AskTo("archive")

ArchiveChurch ==
    /\ "archive" \in ed.asked /\ ~ChurchBusy /\ ChurchError # "stale"
    /\ Send("archive", "archive")

AskToPurgeChurch == OverArchived /\ ~ChurchBusy /\ AskTo("purge")

PurgeChurch ==
    /\ "purge" \in ed.asked /\ ~ChurchBusy /\ ChurchError # "stale"
    /\ Send("purge", "purge")

KeepChurch == ~ChurchBusy /\ \E question \in {"archive", "purge"} : Keep(question)

ReloadChurch == ChurchError = "stale" /\ ed.doc # Nothing /\ Send("reload", "get")

ChurchStep ==
    \/ OpenChurch \/ CloseSheet(ChurchBusy)
    \/ /\ Open
       /\ \/ EditChurch \/ SaveChurch \/ AskToArchiveChurch \/ ArchiveChurch
          \/ AskToPurgeChurch \/ PurgeChurch \/ KeepChurch \/ ReloadChurch
          \/ CloseOn("save") \/ CloseOn("archive") \/ CloseOn("purge")
          \/ TakeReloaded({"save", "archive"}, {"archive"})
=============================================================================

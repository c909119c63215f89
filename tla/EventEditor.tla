----------------------------- MODULE EventEditor -----------------------------
(***************************************************************************)
(* The editor of the Events screen.  It stays open on what it saved, and   *)
(* it has the server generate an event's next session.                     *)
(***************************************************************************)
EXTENDS Editing

EventError == ErrorOf(<<"save", "archive", "reload", "generate">>)
EventBusy == Pending({"save", "archive", "reload", "generate"})

OpenEvent ==
    \E d \in {listed[i] : i \in Ids} : (d # Nothing => d.active) /\ OpenEditor(d, TRUE)

EditEvent == ~EventBusy /\ ~ed.dirty /\ Type("none")

SaveEvent == ~EventBusy /\ EventError # "stale" /\ ~OverArchived /\ SendSave("none", FALSE)

GenerateNext ==
    ed.doc # Nothing /\ ed.doc.active /\ ~EventBusy /\ Send("generate", "generate")

TakeGenerated ==
    /\ Succeeded("generate")
    /\ Drawn(ed)
    /\ HangUp("generate")

AskToArchiveEvent == ed.doc # Nothing /\ ed.doc.active /\ ~EventBusy /\ AskTo("archive")

ArchiveEvent ==
    "archive" \in ed.asked /\ ~EventBusy /\ EventError # "stale" /\ Send("archive", "archive")

KeepEvent == ~EventBusy /\ Keep("archive")

ReloadEvent == EventError = "stale" /\ ed.doc # Nothing /\ Send("reload", "get")

EventStep ==
    \/ OpenEvent \/ CloseSheet(EventBusy)
    \/ /\ Open
       /\ \/ EditEvent \/ SaveEvent \/ GenerateNext \/ TakeGenerated
          \/ AskToArchiveEvent \/ ArchiveEvent \/ KeepEvent \/ ReloadEvent
          \/ StayOn("save", {}) \/ CloseOn("archive")
          \/ TakeReloaded({"save", "archive"}, {"archive"})
=============================================================================

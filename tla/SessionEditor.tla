---------------------------- MODULE SessionEditor ----------------------------
(***************************************************************************)
(* The editor of one session of an active event.  What it offers depends   *)
(* on the time it was last drawn at.  A save and an archive do not wait    *)
(* for each other, and a reload forgets only the error of a save.          *)
(***************************************************************************)
EXTENDS Editing

SessionStale == ErrorOf(<<"save", "archive">>) = "stale"
SessionBusy == Pending({"save", "archive", "reload"})
Saveless == ~Pending({"save", "reload"}) /\ ~SessionStale

Held == ed.doc.value = "held"
ScheduleEditable == ed.at = "before"
GroupsEditable == ed.at # "over" /\ Held /\ ed.doc.active
Completed == ed.at = "over"

OpenSession ==
    \E i \in Ids : listed[i] # Nothing /\ OpenEditor(listed[i], TRUE)

EditSession ==
    /\ ScheduleEditable \/ GroupsEditable
    /\ ~Pending({"save"}) /\ ~ed.dirty /\ Type(ed.value)

(* save.mutate: a session that was drawn as one to come and has started is *)
(* refused by the editor itself; of one drawn later the state is kept.     *)
SaveAs(value, cancelling) ==
    IF ScheduleEditable /\ clock # "before"
    THEN /\ Drawn([ed EXCEPT !.err["save"] = "refused"])
         /\ InEditor
    ELSE /\ Mutate("save", SaveRequest(IF ScheduleEditable THEN value ELSE ed.doc.value,
                                       ed.doc.active, cancelling))
         /\ Drawn(Began(ed, "save"))

SaveSession ==
    /\ ScheduleEditable \/ GroupsEditable
    /\ ed.doc.active /\ Saveless /\ SaveAs(ed.value, FALSE)

RestoreOccurrence == ScheduleEditable /\ ~Held /\ Saveless /\ SaveAs("held", FALSE)

AskToCancel == ScheduleEditable /\ Held /\ Saveless /\ ~ed.dirty /\ AskTo("cancel")

ConfirmCancellation == "cancel" \in ed.asked /\ Saveless /\ SaveAs("cancelled", TRUE)

KeepOccurrence == ~Pending({"save"}) /\ Keep("cancel")

AskToArchiveSession ==
    /\ Completed /\ ed.doc.active /\ ~SessionBusy /\ ~SessionStale /\ ~ed.dirty
    /\ AskTo("archive")

(* archive.mutate: archives a completed session, or restores it.           *)
Shelve(active) ==
    /\ ~Pending({"archive", "reload"}) /\ ~SessionStale
    /\ Mutate("archive", SaveRequest(ed.doc.value, active, FALSE))
    /\ Drawn(Began(ed, "archive"))

ConfirmArchive == "archive" \in ed.asked /\ Shelve(FALSE)
RestoreArchived == Completed /\ ~ed.doc.active /\ Shelve(TRUE)

KeepSession == ~Pending({"archive"}) /\ Keep("archive")

ReloadSession == SessionStale /\ Send("reload", "get")

StartCheckIn ==
    CloseSheet(~Held \/ ~ed.doc.active \/ ed.dirty \/ Pending({"save", "reload"}))

SessionStep ==
    \/ OpenSession \/ CloseSheet(SessionBusy)
    \/ /\ Open
       /\ \/ EditSession \/ SaveSession \/ RestoreOccurrence
          \/ AskToCancel \/ ConfirmCancellation \/ KeepOccurrence
          \/ AskToArchiveSession \/ ConfirmArchive \/ RestoreArchived \/ KeepSession
          \/ ReloadSession \/ StartCheckIn
          \/ StayOn("save", {"cancel"}) \/ StayOn("archive", {"archive"})
          \/ TakeReloaded({"save"}, {})
=============================================================================

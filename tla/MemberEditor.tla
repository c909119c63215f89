---------------------------- MODULE MemberEditor -----------------------------
(***************************************************************************)
(* The editor of the Members screen.  It is opened on a document fetched   *)
(* for it; it locks itself on an uncertain outcome; it asks before a       *)
(* stored scan code is replaced.  A photo is uploaded or removed beside    *)
(* the draft: the member is fetched again and the draft goes on, over the  *)
(* new version.  A photo picked for a new member is uploaded once the      *)
(* member is created.                                                      *)
(***************************************************************************)
EXTENDS Editing

MemberError == ErrorOf(<<"save", "archive", "reload">>)
MemberBusy == Pending({"save", "archive", "reload"})

MemberLocked ==
    ~ed.editing \/ MemberBusy \/ MemberError = "uncertain" \/ ed.replacing \/ OverArchived

(* MemberDetails: the row's member is fetched before its editor is drawn.  *)
OpenMember ==
    \/ OpenEditor(Nothing, TRUE)
    \/ \E i \in Ids : listed[i] # Nothing /\ Stored(i) /\ OpenEditor(docs[i], FALSE)

StartEditing ==
    /\ ~ed.editing /\ ed.doc # Nothing /\ ed.doc.active
    /\ Drawn([ed EXCEPT !.editing = TRUE])
    /\ InEditor

EditMember == ~MemberLocked /\ \E code \in ScanCodes \cup {"none"} : Type(code)

MaySave ==
    ed.editing /\ ~MemberBusy /\ MemberError \notin {"stale", "uncertain"}
    /\ ~ed.replacing /\ ~OverArchived

(* Fault: nobody is asked before a scan code is taken away.               *)
ReplacesByAnother ==
    ed.doc # Nothing /\ ed.doc.value # "none" /\ ed.value \notin {"none", ed.doc.value}

Replaces == ed.doc # Nothing /\ ed.doc.value # "none" /\ ed.value # ed.doc.value

SaveMember == MaySave /\ ~Replaces /\ SendSave(ed.value, FALSE)

AskToReplaceCode ==
    /\ MaySave /\ Replaces
    /\ Drawn([ed EXCEPT !.replacing = TRUE])
    /\ InEditor

ConfirmReplacement ==
    /\ ed.replacing /\ ~MemberBusy
    /\ Mutate("save", SaveRequest(ed.value, TRUE, TRUE))
    /\ Drawn([Began(ed, "save") EXCEPT !.replacing = FALSE])

KeepEditing ==
    /\ ed.replacing /\ ~MemberBusy
    /\ Drawn([ed EXCEPT !.replacing = FALSE])
    /\ InEditor

AskToArchiveMember == ed.doc # Nothing /\ ed.doc.active /\ ~MemberBusy /\ AskTo("archive")

ArchiveMember ==
    "archive" \in ed.asked /\ ~MemberBusy /\ MemberError # "stale" /\ Send("archive", "archive")

KeepMember == ~MemberBusy /\ Keep("archive")

ReloadMember ==
    MemberError \in {"stale", "uncertain"} /\ ed.doc # Nothing /\ Send("reload", "get")
-----------------------------------------------------------------------------
(* Photos.                                                                 *)

PickPhoto ==
    /\ ~MemberLocked /\ ed.doc = Nothing
    /\ Drawn([ed EXCEPT !.picked = ~@])
    /\ InEditor

ChangePhoto ==
    /\ ~MemberLocked /\ ed.doc # Nothing
    /\ \E verb \in {"upload"} \cup IF ed.doc.photo THEN {"remove"} ELSE {} : Send("photo", verb)

RefreshMember ==
    Succeeded("photo") /\ wire[awaits["photo"]].request.op # "get" /\ GoOn("photo", Request("get"))

TakeRefreshed ==
    /\ Succeeded("photo") /\ wire[awaits["photo"]].request.op = "get"
    /\ Drawn([ed EXCEPT !.doc = Answer("photo").doc, !.refreshed = TRUE])
    /\ HangUp("photo")

UploadPicked ==
    /\ Succeeded("save") /\ ed.picked /\ ~Uploading
    /\ GoOn("save", [Request("upload") EXCEPT !.id = Answer("save").doc.id])

(* With the photo or, with a notice, without it the editor is closed.      *)
CloseOnSave ==
    /\ Answered("save")
    /\ Uploading \/ (Succeeded("save") /\ ~ed.picked)
    /\ Close /\ UNCHANGED losses

LosePicked ==
    /\ Uploading /\ losses < MaxLosses
    /\ losses' = losses + 1
    /\ Close

MemberStep ==
    \/ OpenMember \/ CloseSheet(MemberBusy)
    \/ /\ Open
       /\ \/ StartEditing \/ EditMember \/ SaveMember \/ AskToReplaceCode
          \/ ConfirmReplacement \/ KeepEditing
          \/ AskToArchiveMember \/ ArchiveMember \/ KeepMember \/ ReloadMember
          \/ PickPhoto \/ ChangePhoto \/ RefreshMember \/ TakeRefreshed \/ UploadPicked
          \/ CloseOnSave \/ LosePicked \/ CloseOn("archive")
          \/ TakeReloaded({"save", "archive"}, {"archive"})
=============================================================================

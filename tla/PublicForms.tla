----------------------------- MODULE PublicForms -----------------------------
(***************************************************************************)
(* The two forms a member of the congregation fills in without signing in: *)
(* a registration, which may also check the new member in to a session,    *)
(* and an update of what is stored.  Either page may be left at any time.  *)
(***************************************************************************)
EXTENDS Editing

(* Here "picked" says that the registration is one for a session.          *)
OpenRegistration ==
    /\ ~Open /\ drafts < MaxDrafts[screen]
    /\ drafts' = drafts + 1
    /\ \E session \in BOOLEAN : ed' = [NewEditor(Nothing, "none", TRUE) EXCEPT !.picked = session]
    /\ UNCHANGED <<screen, server, listed, wire, awaits, losses>>

FillIn == ~ed.dirty /\ Type(ed.value)

Register == SendSave("none", FALSE)

CheckInRegistered ==
    /\ Succeeded("save") /\ ed.picked /\ wire[awaits["save"]].request.op = "create"
    /\ GoOn("save", [Request("checkin") EXCEPT !.id = Answer("save").doc.id])

ThankYou ==
    /\ Succeeded("save")
    /\ ed.picked => wire[awaits["save"]].request.op = "checkin"
    /\ CloseOn("save")

RegisterStep ==
    \/ OpenRegistration \/ CloseSheet(FALSE)
    \/ /\ Open
       /\ FillIn \/ Register \/ CheckInRegistered \/ ThankYou
-----------------------------------------------------------------------------
(* The update form is opened by a link to the member.                      *)
OpenUpdate == \E i \in Ids : Stored(i) /\ OpenEditor(docs[i], TRUE)

(* The member is fetched again whenever the page regains the focus: the    *)
(* form is filled anew if what it shows has changed.                       *)
Refresh ==
    /\ Stored(ed.doc.id) /\ docs[ed.doc.id] # ed.doc
    /\ \E dirty \in {FALSE, ed.dirty} :
          Drawn([Refilled(docs[ed.doc.id]) EXCEPT !.dirty = dirty])
    /\ InEditor

(* publicMemberInput: what the form does not ask for is sent empty.        *)
SaveUpdate == ed.err["save"] # "stale" /\ SendSave("none", FALSE)

(* submit.reset: the button is there again before the member is fetched.   *)
ReloadUpdate ==
    /\ ed.err["save"] = "stale"
    /\ Drawn([ed EXCEPT !.err["save"] = "none"])
    /\ InEditor

UpdateStep ==
    \/ OpenUpdate \/ CloseSheet(FALSE)
    \/ /\ Open
       /\ FillIn \/ Refresh \/ SaveUpdate \/ ReloadUpdate \/ CloseOn("save")
=============================================================================

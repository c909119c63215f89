------------------------------- MODULE Editing -------------------------------
(***************************************************************************)
(* What the app's editors have in common.  An editor is opened over a row  *)
(* of a list, which may be out of date, or over a new draft; it keeps the  *)
(* document it came from, and each of its mutations keeps its last error.  *)
(* An answer that does not come is an error too: an uncertain one, of a    *)
(* call the server may have carried out or may yet carry out.              *)
(***************************************************************************)
EXTENDS EditedDocuments

(* useForm: the fields take the document's values.                         *)
NewEditor(d, unset, editing) ==
    [doc |-> d, other |-> Nothing, basis |-> IF d = Nothing THEN 0 ELSE d.edits, draft |-> drafts + 1,
     dirty |-> FALSE, value |-> IF d = Nothing THEN unset ELSE d.value, asked |-> {},
     editing |-> editing, replacing |-> FALSE, picked |-> FALSE, refreshed |-> FALSE,
     at |-> clock, err |-> [op \in Ops |-> "none"]]

OpenEditor(d, editing) ==
    /\ ~Open /\ drafts < MaxDrafts[screen]
    /\ drafts' = drafts + 1
    /\ ed' = NewEditor(d, "none", editing)
    /\ UNCHANGED <<screen, server, listed, wire, awaits, losses>>

(* The list is fetched again; under an open editor nobody sees it.         *)
Refetch ==
    /\ ~Open /\ listed # docs
    /\ listed' = docs
    /\ UNCHANGED <<screen, server, ed, wire, awaits, counters>>

(* The error that a screen shows: the first of a list of mutations.        *)
ErrorOf(order) ==
    LET failed == {i \in DOMAIN order : ed.err[order[i]] # "none"}
    IN  IF failed = {} THEN "none" ELSE ed.err[order[Min(failed)]]

Pending(ops) == \E op \in ops : awaits[op] # 0

OverArchived == ed.doc # Nothing /\ ~ed.doc.active

(* Whatever happens in an editor draws it again.                           *)
Drawn(e) == ed' = [e EXCEPT !.at = clock]

InEditor == UNCHANGED <<screen, server, listed, wire, awaits, counters>>

Redraw ==
    /\ Open /\ ed.at # clock
    /\ Drawn(ed)
    /\ InEditor

Type(value) ==
    /\ Drawn([ed EXCEPT !.dirty = TRUE, !.value = value])
    /\ InEditor

AskTo(question) ==
    /\ question \notin ed.asked
    /\ Drawn([ed EXCEPT !.asked = @ \cup {question}])
    /\ InEditor

Keep(question) ==
    /\ question \in ed.asked
    /\ Drawn([ed EXCEPT !.asked = @ \ {question}])
    /\ InEditor
-----------------------------------------------------------------------------
(* The editor's calls.                                                     *)

Free == {n \in Slots : wire[n] = Nothing}

Call(request) ==
    [request |-> request, phase |-> "sent", seen |-> 0, alone |-> TRUE, reply |-> Nothing]

Request(op) ==
    [op |-> op, id |-> IF ed.doc = Nothing THEN Nothing ELSE ed.doc.id,
     etag |-> IF ed.doc = Nothing THEN 0 ELSE ed.doc.etag,
     value |-> IF ed.doc = Nothing THEN "none" ELSE ed.doc.value,
     active |-> ed.doc = Nothing \/ ed.doc.active, draft |-> ed.draft,
     basis |-> ed.basis, refreshed |-> ed.refreshed, agreed |-> FALSE,
     other |-> Nothing, otherTag |-> 0]

(* mutate: the button of a pending mutation is busy; a mutation that       *)
(* begins anew forgets its own last error, and no other.                   *)
Mutate(op, request) ==
    /\ awaits[op] = 0 /\ Free # {}
    /\ wire' = [wire EXCEPT ![Min(Free)] = Call(request)]
    /\ awaits' = [awaits EXCEPT ![op] = Min(Free)]
    /\ UNCHANGED <<screen, server, listed, counters>>

Began(e, op) == [e EXCEPT !.err[op] = "none"]

SaveRequest(value, active, agreed) ==
    [Request(IF ed.doc = Nothing THEN "create" ELSE "put") EXCEPT
        !.value = value, !.active = active, !.agreed = agreed]

SendSave(value, agreed) ==
    /\ Mutate("save", SaveRequest(value, TRUE, agreed))
    /\ Drawn(Began(ed, "save"))

Send(op, verb) ==
    /\ Mutate(op, Request(verb))
    /\ Drawn(Began(ed, op))

Answer(op) == wire[awaits[op]].reply

Answered(op) == awaits[op] # 0 /\ wire[awaits[op]].phase = "served"

Succeeded(op) == Answered(op) /\ Answer(op).status = "ok"

(* The call is over: its slot is free.                                     *)
HangUp(op) ==
    /\ wire' = [wire EXCEPT ![awaits[op]] = Nothing]
    /\ awaits' = [awaits EXCEPT ![op] = 0]
    /\ UNCHANGED <<screen, server, listed, counters>>

(* The next call of a mutation that makes two.                             *)
GoOn(op, request) ==
    /\ wire' = [wire EXCEPT ![awaits[op]] = Call(request)]
    /\ UNCHANGED <<screen, server, listed, ed, awaits, counters>>

(* A save that goes on to upload a photo has been carried out: whatever    *)
(* comes of the photo, it is no error of the save (MemberEditor).          *)
Uploading == awaits["save"] # 0 /\ wire[awaits["save"]].request.op = "upload"

(* Only a merge takes its question back.                                   *)
Failed(op, error) ==
    [ed EXCEPT !.err[op] = error, !.asked = IF op = "merge" THEN {} ELSE @]

Fail(op) ==
    /\ Answered(op) /\ Answer(op).status # "ok"
    /\ op = "save" => ~Uploading
    /\ Drawn(Failed(op, Answer(op).status))
    /\ HangUp(op)

(* The connection breaks or the time is up, before or after the server has *)
(* carried out the request; one it has not may reach it later.             *)
GiveUp(op) ==
    /\ awaits[op] # 0 /\ losses < MaxLosses
    /\ op = "save" => ~Uploading
    /\ losses' = losses + 1
    /\ Drawn(Failed(op, "uncertain"))
    /\ awaits' = [awaits EXCEPT ![op] = 0]
    /\ \/ wire' = [wire EXCEPT ![awaits[op]] = Nothing]
       \/ wire[awaits[op]].phase # "served" /\ UNCHANGED wire
    /\ UNCHANGED <<screen, server, listed, drafts>>

(* The editor is gone; what it still waits for is left to the server.      *)
Close ==
    /\ ed' = Nothing
    /\ awaits' = [op \in Ops |-> 0]
    /\ wire' = [n \in Slots |->
          IF wire[n] # Nothing /\ wire[n].phase = "served" THEN Nothing ELSE wire[n]]
    /\ UNCHANGED <<screen, server, listed, drafts>>

(* A mutation that closes the editor and has the list fetched again.       *)
CloseOn(op) == Succeeded(op) /\ Close /\ UNCHANGED losses

(* Fault: the draft goes on over the document that was fetched.           *)
DraftKept(d) == [ed EXCEPT !.doc = d]

(* The form takes the document that was saved or fetched.                  *)
Refilled(d) ==
    [ed EXCEPT !.doc = d, !.basis = d.edits, !.value = d.value, !.dirty = FALSE,
               !.refreshed = FALSE]

(* Fault: the error of an archive is not forgotten.                       *)
TakeReloadedButArchive(forgotten, questions) ==
    /\ Succeeded("reload")
    /\ Drawn([Refilled(Answer("reload").doc) EXCEPT
               !.asked = @ \ questions, !.replacing = FALSE,
               !.err = [op \in Ops |-> IF op \in forgotten \ {"archive"} THEN "none" ELSE @[op]]])
    /\ HangUp("reload")

(* reload.onSuccess: the errors of the given mutations and the given       *)
(* questions are forgotten.                                                *)
TakeReloaded(forgotten, questions) ==
    /\ Succeeded("reload")
    /\ Drawn([Refilled(Answer("reload").doc) EXCEPT
               !.asked = @ \ questions, !.replacing = FALSE,
               !.err = [op \in Ops |-> IF op \in forgotten THEN "none" ELSE @[op]]])
    /\ HangUp("reload")

(* A save that leaves the editor open on what was saved.                   *)
StayOn(op, questions) ==
    /\ Succeeded(op)
    /\ Drawn([Refilled(Answer(op).doc) EXCEPT !.asked = @ \ questions])
    /\ HangUp(op)

(* Sheet.close: while a call is pending the sheet stays.  A call that does *)
(* not keep it open is left to the server.                                 *)
CloseSheet(busy) == Open /\ ~busy /\ Close /\ UNCHANGED losses
=============================================================================

------------------------------- MODULE Editors -------------------------------
(***************************************************************************)
(* The app's directory screens, one at a time: an editor, its calls, the   *)
(* server, the other editors of the same documents, and time.              *)
(***************************************************************************)
EXTENDS GroupEditor, FieldEditor, UserEditor, ChurchEditor, EventEditor,
        SessionEditor, MemberEditor, DuplicateEditor, PublicForms

First(i, value) ==
    [id |-> i, etag |-> 1, edits |-> 1, active |-> TRUE, value |-> value,
     photo |-> FALSE, by |-> 0]

Init ==
    /\ screen \in Screens
    /\ clock = "before"
    /\ \E value \in CASE screen = "sessions" -> {"held", "cancelled"}
                     [] screen = "duplicates" -> ScanCodes
                     [] screen = "update" -> {"details"}
                     [] OTHER -> {"none"} :
          docs = [i \in Ids |->
              IF i = Old THEN First(i, value)
              ELSE IF screen = "duplicates" /\ i # Max(Ids) THEN First(i, "none") ELSE Nothing]
    /\ images = {}
    /\ listed = docs
    /\ ed = Nothing
    /\ wire = [n \in Slots |-> Nothing]
    /\ awaits = [op \in Ops |-> 0]
    /\ drafts = 0 /\ losses = 0

Screen ==
    \/ screen = "groups" /\ GroupStep
    \/ screen = "fields" /\ FieldStep
    \/ screen = "users" /\ UserStep
    \/ screen = "churches" /\ ChurchStep
    \/ screen = "events" /\ EventStep
    \/ screen = "sessions" /\ SessionStep
    \/ screen = "members" /\ MemberStep
    \/ screen = "duplicates" /\ DuplicateStep
    \/ screen = "register" /\ RegisterStep
    \/ screen = "update" /\ UpdateStep

Next ==
    \/ Screen
    \/ \E op \in Ops : Fail(op) \/ GiveUp(op)
    \/ Redraw \/ Refetch
    \/ \E n \in Slots : Serve(n)
    \/ \E i \in Ids : OthersSave(i) \/ OthersArchive(i)
    \/ TimePasses

Spec == Init /\ [][Next]_vars
-----------------------------------------------------------------------------
TypeOK ==
    /\ screen \in Screens /\ clock \in Clocks
    /\ docs \in [Ids -> Docs \cup {Nothing}] /\ listed \in [Ids -> Docs \cup {Nothing}]
    /\ images \subseteq Ids
    /\ ed \in Editors \cup {Nothing}
    /\ wire \in [Slots -> Calls \cup {Nothing}]
    /\ awaits \in [Ops -> 0..MaxCalls]
    /\ drafts \in 0..MaxDrafts[screen] /\ losses \in 0..MaxLosses

Saves(n) == ServePut(n) \/ (ServeMerge(n) /\ wire[n].request.agreed)

SavesOver(n) == docs[wire[n].request.id].edits = wire[n].request.basis

(* No save, and no merge that updates its keeper, is carried out over an   *)
(* edit that its draft was not drawn from: the version sent with it is the *)
(* one the form was filled from (client.request's If-Match).  Excepted are *)
(* the drafts that go on after a photo.                                    *)
NoLostUpdate ==
    [][\A n \in Slots : Saves(n) => SavesOver(n) \/ wire[n].request.refreshed]_vars

(* The same without the exception: the comment at MemberPhoto.tsx:64-66.   *)
NeverLosesAnUpdate == [][\A n \in Slots : Saves(n) => SavesOver(n)]_vars

(* A draft becomes one document.  Where an answer may have been lost that  *)
(* is true of the screens that see to it: the editors of a group and of a  *)
(* member lock themselves, and a user is known by the email.  A            *)
(* registration whose check-in fails is sent as a whole again.             *)
SeesToIt(draft) ==
    \/ screen \in {"groups", "users", "members"}
    \/ losses = 0 /\ (screen = "register" => Open /\ ed.draft = draft /\ ~ed.picked)

CreatedOnce ==
    \A i, j \in Ids :
        Stored(i) /\ Stored(j) /\ docs[i].by = docs[j].by /\ docs[i].by # 0
            /\ SeesToIt(docs[i].by) => i = j

(* After a reload the editor goes on: it no longer takes itself for stale. *)
StaleEditor ==
    CASE screen = "groups" -> GroupError = "stale"
      [] screen = "fields" -> FieldError = "stale"
      [] screen = "churches" -> ChurchError = "stale"
      [] screen = "events" -> EventError = "stale"
      [] screen = "sessions" -> SessionStale
      [] screen = "members" -> MemberError = "stale"
      [] OTHER -> FALSE

Reloads ==
    Open /\ Succeeded("reload") /\ awaits'["reload"] = 0 /\ ed' # Nothing /\ losses' = losses

ReloadFrees == [][screen \notin {"churches", "sessions"} /\ Reloads => ~StaleEditor']_vars

ReloadAlwaysFrees == [][Reloads => ~StaleEditor']_vars

(* A member's scan code is replaced by another or taken away only by a     *)
(* save that the user was asked about, whatever the other editors did.     *)
CodeReplacedOnPurpose ==
    [][\A n \in Slots :
        ServePut(n) /\ screen = "members" =>
            LET r == wire[n].request
            IN  docs[r.id].value \in {"none", r.value} \/ r.agreed]_vars

(* A confirmed cancellation that is answered as saved leaves the session   *)
(* cancelled.                                                              *)
ConfirmedIsCancelled ==
    [][\A n \in Slots :
        ServePut(n) /\ screen = "sessions" /\ wire[n].request.agreed =>
            docs'[wire[n].request.id].value = "cancelled"]_vars

(* A merge leaves the keeper's scan code alone: no pick of it is offered,  *)
(* and a pick of another field is "the keeper" with that field replaced.   *)
KeeperKeepsCode ==
    [][\A n \in Slots :
        ServeMerge(n) =>
            LET k == wire[n].request.id IN docs'[k].value = docs[k].value]_vars

(* An update by the member leaves what its form does not ask for alone.    *)
UpdateKeepsDetails ==
    [][\A n \in Slots :
        ServePut(n) /\ screen = "update" => docs'[wire[n].request.id].value = "details"]_vars

(* An image call that met no other as it stored its image leaves the       *)
(* member marked as having a photo exactly when there is one, whatever was  *)
(* saved, archived or given up until it was carried out.                   *)
MarkedAsStored ==
    [][\A n \in Slots :
        /\ ImageCall(n, {"sent", "stored", "retry"}) /\ wire[n].alone
        /\ wire'[n] # Nothing /\ wire'[n].phase = "served" /\ wire'[n].reply.status = "ok"
        => LET i == wire[n].request.id
           IN  docs'[i].photo = (i \in images')]_vars
=============================================================================

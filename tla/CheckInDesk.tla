----------------------------- MODULE CheckInDesk -----------------------------
(***************************************************************************)
(* The check-in screen of one session: a list of members with a button     *)
(* each, and the roster of those checked in, with an undo each.            *)
(*                                                                         *)
(* What a row shows comes from two places that are kept apart: what this   *)
(* screen was answered for the member (overlay), and the session's         *)
(* attendance as it was last fetched (known), which is fetched again after *)
(* every answer.  Meanwhile the server goes on: other desks and scanners   *)
(* check the same members in and undo them, and a call that was given up   *)
(* here may still be carried out.  One call of the server is one step      *)
(* here; CheckIns has them in detail.                                      *)
(***************************************************************************)
CONSTANTS
    Members,
    Undos,          \* the undos that may be under way at a time
    Nobody          \* no member

ASSUME NobodyIsNoMember == Nobody \notin Members

VARIABLES
    present,        \* the members with an active receipt of the session
    late,           \* those whose check-in was given up and may still be carried out
    apart,          \* those that no statement is made about any more, see Elsewhere
    view,           \* the tab that is shown
    overlay,        \* of each member: what this screen was answered last
    busy,           \* the server asked to wait, and the time is not up
    known,          \* the members checked in by the attendance last fetched
    loaded,         \* it was fetched once
    fetch, copy,    \* the fetch of attendance under way, and what it has read
    call,           \* the check-in under way
    undo            \* of each undo: its member and how far it is

server == <<present, late, apart>>
attendance == <<known, loaded, fetch, copy>>
vars == <<server, view, overlay, busy, attendance, call, undo>>

Idle == [member |-> Nobody, phase |-> "idle"]

Calls ==
    [member : Members,
     phase : {"sent", "granted", "refused", "busy", "asking", "found", "unknown"}]

UndoCalls == [member : Members, phase : {"sent", "done"}]

Shown(m) == overlay[m] = "receipt" \/ m \in known

Loading == ~loaded /\ fetch \in {"sent", "read"}
Refetching == loaded /\ fetch \in {"sent", "read"}
Pending == call # Idle
Blocked == Pending \/ Loading \/ busy

Undoing(m) == \E u \in Undos : undo[u].member = m

(* The calls of this screen for one member have crossed each other, been   *)
(* lost or been forgotten.                                                 *)
LoseTrackOf(ms) == apart' = apart \cup ms
-----------------------------------------------------------------------------
(* The attendance of the session.  It is fetched anew also when a fetch is *)
(* under way, which is dropped; but nothing drops the first one.           *)

(* Fault: what is fetched already is good enough.                         *)
AwaitAttendance(ms) ==
    /\ LoseTrackOf(IF Loading THEN ms ELSE {})
    /\ UNCHANGED <<known, loaded, copy>>
    /\ fetch' = IF fetch = "read" THEN "read" ELSE "sent"

FetchAgain(ms) ==
    /\ LoseTrackOf(IF Loading THEN ms ELSE {})
    /\ UNCHANGED <<known, loaded>>
    /\ IF Loading THEN UNCHANGED <<fetch, copy>> ELSE fetch' = "sent" /\ copy' = {}

ReadAttendance ==
    /\ fetch = "sent"
    /\ fetch' = "read" /\ copy' = present
    /\ UNCHANGED <<server, view, overlay, busy, known, loaded, call, undo>>

ShowAttendance ==
    /\ fetch = "read"
    /\ known' = copy /\ loaded' = TRUE
    /\ fetch' = "idle" /\ copy' = {}
    /\ UNCHANGED <<server, view, overlay, busy, call, undo>>

(* What was fetched before is kept, and nothing is said.                   *)
FetchFails ==
    /\ fetch \in {"sent", "read"}
    /\ fetch' = "failed" /\ copy' = {}
    /\ UNCHANGED <<server, view, overlay, busy, known, loaded, call, undo>>

(* The app regains the focus or the connection.                            *)
Refocus ==
    /\ fetch \in {"idle", "failed"}
    /\ fetch' = "sent"
    /\ UNCHANGED <<server, view, overlay, busy, known, loaded, copy, call, undo>>

(* refreshCheckIn: of what was answered only receipts are kept.            *)
Refresh ==
    /\ ~Pending /\ ~Refetching
    /\ overlay' = [m \in Members |-> IF overlay[m] = "receipt" THEN "receipt" ELSE "none"]
    /\ FetchAgain({m \in Members : overlay[m] = "uncertain"})
    /\ UNCHANGED <<present, late, view, busy, call, undo>>
-----------------------------------------------------------------------------
(* A check-in.  A call without an answer is followed by a look at its      *)
(* status.                                                                 *)

CheckIn(m) ==
    /\ view = "members" /\ ~Blocked /\ ~Shown(m)
    /\ call' = [member |-> m, phase |-> "sent"]
    /\ UNCHANGED <<server, view, overlay, busy, attendance, undo>>

Goes(from, to) ==
    /\ call.phase \in from
    /\ call' = [call EXCEPT !.phase = to]

Grant ==
    /\ Goes({"sent"}, "granted")
    /\ present' = present \cup {call.member}
    /\ LoseTrackOf(IF Undoing(call.member) THEN {call.member} ELSE {})
    /\ UNCHANGED <<late, view, overlay, busy, attendance, undo>>

(* The church, the session, its event or the member is archived, or the    *)
(* session is cancelled: what was saved before is granted all the same.    *)
(* Or another call restores the undone receipt first, which is a change by *)
(* others.                                                                 *)
Refuse ==
    /\ call.member \notin present \/ call.member \in apart
    /\ Goes({"sent"}, "refused")
    /\ UNCHANGED <<server, view, overlay, busy, attendance, undo>>

TooMany ==
    /\ Goes({"sent"}, "busy")
    /\ UNCHANGED <<server, view, overlay, busy, attendance, undo>>

(* Fault: the check-in counts as failed.                                  *)
GiveUpAsRefused ==
    /\ Goes({"sent", "granted", "refused", "busy"}, "refused")
    /\ UNCHANGED <<server, view, overlay, busy, attendance, undo>>

GiveUp ==
    /\ Goes({"sent", "granted", "refused", "busy"}, "asking")
    /\ \/ UNCHANGED late
       \/ call.phase = "sent" /\ late' = late \cup {call.member}
    /\ UNCHANGED <<present, apart, view, overlay, busy, attendance, undo>>

ReadStatus ==
    /\ Goes({"asking"}, IF call.member \in present THEN "found" ELSE "unknown")
    /\ UNCHANGED <<server, view, overlay, busy, attendance, undo>>

StatusFails ==
    /\ Goes({"asking", "found"}, "unknown")
    /\ UNCHANGED <<server, view, overlay, busy, attendance, undo>>

(* onSuccess.                                                              *)
Succeed ==
    /\ call.phase \in {"granted", "found"}
    /\ call' = Idle
    /\ overlay' = [overlay EXCEPT ![call.member] = "receipt"]
    /\ FetchAgain({call.member})
    /\ UNCHANGED <<present, late, view, busy, undo>>

(* Fault: a screen that was told to wait goes on waiting.                 *)
FailAndWait ==
    /\ call.phase = "busy"
    /\ overlay' = [overlay EXCEPT ![call.member] = "uncertain"]
    /\ busy' = TRUE
    /\ UNCHANGED <<server, view, attendance, call, undo>>

(* onError.                                                                *)
Fail ==
    /\ call.phase \in {"refused", "busy", "unknown"}
    /\ call' = Idle
    /\ overlay' = [overlay EXCEPT ![call.member] =
           IF call.phase = "refused" THEN "error" ELSE "uncertain"]
    /\ busy' = (call.phase = "busy")
    /\ UNCHANGED <<server, view, attendance, undo>>

RetryTimeComes ==
    /\ busy
    /\ busy' = FALSE
    /\ UNCHANGED <<server, view, overlay, attendance, call, undo>>
-----------------------------------------------------------------------------
(* The roster and its undos.  An undo goes on when the tab is left.        *)

Turn ==
    /\ ~Pending
    /\ view' = IF view = "members" THEN "attendance" ELSE "members"
    /\ UNCHANGED <<server, overlay, busy, attendance, call, undo>>

(* The roster has a list of its own, which the cache may have kept from an *)
(* earlier visit: whoever was checked in once may be on it.                *)
Undo(u, m) ==
    /\ view = "attendance" /\ undo[u] = Idle
    /\ undo' = [undo EXCEPT ![u] = [member |-> m, phase |-> "sent"]]
    /\ UNCHANGED <<server, view, overlay, busy, attendance, call>>

ServeUndo(u) ==
    /\ undo[u].phase = "sent"
    /\ undo' = [undo EXCEPT ![u].phase = "done"]
    /\ present' = present \ {undo[u].member}
    /\ LoseTrackOf(IF call.member = undo[u].member THEN {call.member} ELSE {})
    /\ UNCHANGED <<late, view, overlay, busy, attendance, call>>

(* onSuccess: what was answered for the member is forgotten.               *)
UndoSucceeds(u) ==
    /\ undo[u].phase = "done"
    /\ undo' = [undo EXCEPT ![u] = Idle]
    /\ overlay' = [overlay EXCEPT ![undo[u].member] = "none"]
    /\ FetchAgain({undo[u].member})
    /\ UNCHANGED <<present, late, view, busy, call>>

RefuseUndo(u) ==
    /\ undo[u].phase = "sent"
    /\ undo' = [undo EXCEPT ![u] = Idle]
    /\ UNCHANGED <<server, view, overlay, busy, attendance, call>>

(* Nothing asks for the status of an undo.                                 *)
LoseUndo(u) ==
    /\ undo[u] # Idle
    /\ undo' = [undo EXCEPT ![u] = Idle]
    /\ LoseTrackOf({undo[u].member})
    /\ UNCHANGED <<present, late, view, overlay, busy, attendance, call>>
-----------------------------------------------------------------------------
(* The screen is left, by the user or because the session became invalid,  *)
(* and opened again: the attendance may still be in the cache.             *)
Reopen ==
    /\ view' = "members" /\ busy' = FALSE
    /\ overlay' = [m \in Members |-> "none"]
    /\ call' = Idle /\ undo' = [u \in Undos |-> Idle]
    /\ late' = late \cup {m \in Members : call = [member |-> m, phase |-> "sent"]}
    /\ LoseTrackOf({m \in Members :
           overlay[m] = "uncertain" \/ call.member = m \/ Undoing(m)})
    /\ copy' = {} /\ UNCHANGED present
    /\ \/ fetch = "idle" /\ UNCHANGED <<known, loaded, fetch>>
       \/ fetch' = "sent" /\ UNCHANGED <<known, loaded>>
       \/ fetch' = "sent" /\ known' = {} /\ loaded' = FALSE

(* Another desk, a scanner or a merge; a check-in that was given up.       *)
Elsewhere(m) ==
    /\ present' = IF m \in present THEN present \ {m} ELSE present \cup {m}
    /\ LoseTrackOf({m})
    /\ UNCHANGED <<late, view, overlay, busy, attendance, call, undo>>

LateCheckIn(m) ==
    /\ m \in late
    /\ late' = late \ {m}
    /\ present' = present \cup {m}
    /\ LoseTrackOf({m})
    /\ UNCHANGED <<view, overlay, busy, attendance, call, undo>>
-----------------------------------------------------------------------------
Init ==
    /\ present \in SUBSET Members
    /\ late = {} /\ apart = {}
    /\ view = "members" /\ busy = FALSE
    /\ overlay = [m \in Members |-> "none"]
    /\ known = {} /\ loaded = FALSE
    /\ fetch = "sent" /\ copy = {}
    /\ call = Idle
    /\ undo = [u \in Undos |-> Idle]

Attendance == ReadAttendance \/ ShowAttendance \/ FetchFails

Ends == GiveUp \/ ReadStatus \/ StatusFails \/ Succeed \/ Fail

Next ==
    \/ Attendance \/ Refocus \/ Refresh
    \/ \E m \in Members : CheckIn(m) \/ Elsewhere(m) \/ LateCheckIn(m)
    \/ Grant \/ Refuse \/ TooMany \/ Ends \/ RetryTimeComes
    \/ Turn
    \/ \E u \in Undos :
          \/ \E m \in Members : Undo(u, m)
          \/ ServeUndo(u) \/ UndoSucceeds(u) \/ RefuseUndo(u) \/ LoseUndo(u)
    \/ Reopen

(* A request ends when its 15 seconds are up, and a timer counts the wait  *)
(* down.                                                                   *)
Fairness == WF_vars(Attendance) /\ WF_vars(Ends) /\ WF_vars(RetryTimeComes)

Spec == Init /\ [][Next]_vars /\ Fairness
-----------------------------------------------------------------------------
TypeOK ==
    /\ present \subseteq Members /\ late \subseteq Members /\ apart \subseteq Members
    /\ view \in {"members", "attendance"}
    /\ overlay \in [Members -> {"none", "receipt", "error", "uncertain"}]
    /\ busy \in BOOLEAN
    /\ known \subseteq Members /\ loaded \in BOOLEAN
    /\ fetch \in {"idle", "sent", "read", "failed"}
    /\ copy \subseteq Members
    /\ call \in Calls \cup {Idle}
    /\ undo \in [Undos -> UndoCalls \cup {Idle}]

AtRest == call = Idle /\ fetch = "idle" /\ \A u \in Undos : undo[u] = Idle

(* When every call has been answered, a row shows its member as checked in *)
(* exactly when the server has it so, or says that it does not know: the   *)
(* overlay and the attendance that was fetched, whatever order they        *)
(* changed in, add up to the truth.  Excepted are the members that others  *)
(* changed, and those whose own calls crossed or were lost.                *)
HonestAtRest ==
    AtRest =>
        \A m \in Members \ apart :
            overlay[m] = "uncertain" \/ (Shown(m) <=> m \in present)

(* A check-in that is shown as failed for good was not carried out: only   *)
(* "Confirmation pending" stands for one that may have been.               *)
ErrorsAreTrue ==
    \A m \in Members \ apart : overlay[m] = "error" /\ call.member # m => m \notin present

(* The buttons of the list come back, unless the screen is left again and  *)
(* again: no call, no fetch and no wait blocks them for ever.              *)
Unblocked == <>[][~Reopen]_vars => []<>~Blocked

=============================================================================

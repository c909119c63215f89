----------------------------- MODULE ScanCheckIn -----------------------------
(***************************************************************************)
(* The app's scanning screen: one operator's device, the network and the   *)
(* service's scan endpoints.                                               *)
(*                                                                         *)
(* A scan starts a call of `process`, which sends the code and, when the   *)
(* outcome is uncertain, asks for the scan's status.  The device may turn  *)
(* to something else meanwhile, an answer may never come, and the service  *)
(* carries out a request whose caller has given up on it.                  *)
(*                                                                         *)
(* What the operator can do is what was drawn last: the handlers of one    *)
(* drawing see the state of that drawing, and events may come before the   *)
(* next one.  Only refs (latch, generation) are always current.  A drawing *)
(* takes less time than an answer from the network, and its effects run    *)
(* with it.                                                                *)
(***************************************************************************)
EXTENDS Naturals

CONSTANTS
    Codes,
    Members,
    None,
    Cards,          \* of each code, the member it resolves to at first
    MaxCalls,       \* bound on calls of process
    MaxTurns,       \* bound on turning away from the screen or back
    MaxChanges      \* bound on what others do: undo, reissue a code, close the session

ASSUME CardsType ==
    /\ Cards \in [Codes -> Members \cup {None}]
    /\ \A c, d \in Codes : Cards[c] = Cards[d] => c = d \/ Cards[c] = None

ASSUME CodesType == Codes # {} /\ None \notin Codes \cup Members

ASSUME BoundsType == {MaxCalls, MaxTurns, MaxChanges} \subseteq Nat

Calls == 1 .. MaxCalls

VARIABLES
    holder,         \* service: of each code, the member it resolves to
    present,        \* service: the members checked in
    open,           \* service: whether the session accepts check-ins
    scan,           \* service: how far it is with the scan that a call sent
    subject,        \* service: the member that scan resolved to
    reply,          \* of each call: the answer that is under way to it
    ui,             \* the screen's state
    drawn,          \* the state as drawn last
    result,         \* what the screen confirms
    latch,          \* ref: a call is being processed
    generation,     \* ref: counted up when calls become obsolete
    controller,     \* ref: the call to abort
    stage,          \* of each call: what it awaits
    code,           \* of each call: its code
    version,        \* of each call: the generation it began in
    aborted,        \* the calls under way whose requests were aborted
    turns, changes, \* counters for the bounds
    discharged      \* (history) the scans the screen need not answer for any more:
                    \* confirmed, put aside for a review, or taken away with it

service == <<holder, present, open>>
wire == <<scan, subject, reply>>
refs == <<latch, generation, controller>>
process == <<stage, code, version, aborted>>
vars == <<service, wire, ui, drawn, result, refs, process, turns, changes, discharged>>

Screens ==
    [active : BOOLEAN, busy : BOOLEAN, closed : BOOLEAN, limited : BOOLEAN,
     pending : Codes \cup {None}]

(* The screen as it is when it is put up, and its refs are new too.        *)
Fresh(active) ==
    [active |-> active, busy |-> FALSE, closed |-> FALSE, limited |-> FALSE, pending |-> None]

Stages == {"unused", "scan", "recover", "status", "done"}

Refused == {"limited", "unknown", "closed"}
NoReply == [kind |-> "none", member |-> None]

(* The opposite of `current`: what comes of the call is not used any more. *)
Obsolete(p) == version[p] # generation \/ p \in aborted

-----------------------------------------------------------------------------
(* The service.                                                            *)

Reply(p, kind, member) ==
    reply' = [reply EXCEPT ![p] = [kind |-> kind, member |-> member]]

(* The answer to a scan; nobody waits for it when the call has gone on.    *)
ReplyToScan(p, kind, member) ==
    IF stage[p] = "scan" /\ ~Obsolete(p) THEN Reply(p, kind, member) ELSE UNCHANGED reply

(* ResolveScan: the limiter's lease, then the code's member.               *)
ResolveScan(p) ==
    /\ scan[p] = "sent"
    /\ \/ /\ ReplyToScan(p, "limited", None)
          /\ scan' = [scan EXCEPT ![p] = "over"]
          /\ UNCHANGED subject
       \/ /\ holder[code[p]] = None
          /\ ReplyToScan(p, "unknown", None)
          /\ scan' = [scan EXCEPT ![p] = "over"]
          /\ UNCHANGED subject
       \/ /\ holder[code[p]] # None
          /\ scan' = [scan EXCEPT ![p] = "resolved"]
          /\ subject' = [subject EXCEPT ![p] = holder[code[p]]]
          /\ UNCHANGED reply
    /\ UNCHANGED <<service, ui, drawn, result, refs, process, turns, changes, discharged>>

(* CheckIn of the member, whoever has the code by now.                     *)
CheckInMember(p) ==
    LET m == subject[p] IN
    /\ scan[p] = "resolved"
    /\ IF open \/ m \in present
       THEN /\ present' = present \cup {m}
            /\ ReplyToScan(p, "checked_in", m)
            /\ scan' = [scan EXCEPT ![p] = IF m \in present THEN "over" ELSE "carried_out"]
       ELSE /\ ReplyToScan(p, "closed", None)
            /\ scan' = [scan EXCEPT ![p] = "over"]
            /\ UNCHANGED present
    /\ subject' = [subject EXCEPT ![p] = None]
    /\ UNCHANGED <<holder, open, ui, drawn, result, refs, process, turns, changes, discharged>>

(* The status of a code: whether the member who has it now is checked in.  *)
ReadStatus(p) ==
    LET m == holder[code[p]] IN
    /\ stage[p] \in {"recover", "status"}
    /\ ~Obsolete(p)
    /\ reply[p] = NoReply
    /\ \/ Reply(p, "limited", None)
       \/ m = None /\ Reply(p, "unknown", None)
       \/ m # None /\ Reply(p, IF m \in present THEN "checked_in" ELSE "absent", m)
    /\ UNCHANGED <<service, scan, subject, ui, drawn, result, refs, process, turns, changes, discharged>>

-----------------------------------------------------------------------------
(* process(code, statusOnly).                                              *)

MayProcessAnyTime == drawn.active /\ ~drawn.closed /\ ~drawn.limited    \* fault: no latch

MayProcess == drawn.active /\ ~latch /\ ~drawn.closed /\ ~drawn.limited

Begin(p, c, first) ==
    /\ MayProcess
    /\ stage[p] = "unused"
    /\ \A q \in Calls : q < p => stage[q] # "unused"
    /\ latch' = TRUE
    /\ controller' = p
    /\ stage' = [stage EXCEPT ![p] = first]
    /\ code' = [code EXCEPT ![p] = c]
    /\ version' = [version EXCEPT ![p] = generation]
    /\ ui' = [ui EXCEPT !.busy = TRUE, !.pending = c]
    /\ result' = None
    /\ UNCHANGED <<service, subject, reply, drawn, generation, aborted, turns, changes, discharged>>

MayScanWhenever == TRUE     \* fault: the input stays enabled

(* The input is enabled and takes a code.                                  *)
MayScan == ~drawn.busy /\ drawn.pending = None

Scan(p, c) ==
    /\ MayScan
    /\ Begin(p, c, "scan")
    /\ scan' = [scan EXCEPT ![p] = "sent"]

(* The button "Check scan status".                                         *)
CheckStatus(p) ==
    /\ drawn.pending # None /\ ~drawn.busy
    /\ Begin(p, drawn.pending, "status")
    /\ UNCHANGED scan

(* The button "Leave recovery for manual review".                          *)
LeaveRecovery ==
    /\ drawn.pending # None /\ ~drawn.busy
    /\ ui' = [ui EXCEPT !.pending = None]
    /\ discharged' = discharged \cup {p \in Calls : stage[p] # "unused" /\ code[p] = drawn.pending}
    /\ UNCHANGED <<service, wire, drawn, result, refs, process, turns, changes>>

Running(p) == stage[p] \in {"scan", "recover", "status"}

(* What a call keeps to itself is gone when it returns.                    *)
Return(p) ==
    /\ stage' = [stage EXCEPT ![p] = "done"]
    /\ reply' = [reply EXCEPT ![p] = NoReply]
    /\ version' = [version EXCEPT ![p] = 0]
    /\ aborted' = aborted \ {p}

(* A current call ends: the latch is released with the screen's new state. *)
End(p, screen) ==
    /\ Return(p)
    /\ latch' = FALSE
    /\ ui' = [screen EXCEPT !.busy = FALSE]
    /\ UNCHANGED <<service, scan, subject, drawn, generation, controller, code, turns, changes>>

Confirm(p) ==
    /\ End(p, [ui EXCEPT !.pending = None])
    /\ result' = [code |-> code[p], member |-> reply[p].member]
    /\ discharged' = discharged \cup {q \in Calls : stage[q] # "unused" /\ code[q] = code[p]}

Fail(p, screen) == End(p, screen) /\ UNCHANGED <<result, discharged>>

Awaits(p, stages) ==
    /\ stage[p] \in stages
    /\ ~Obsolete(p)
    /\ drawn = ui

(* The answer to a scan.                                                   *)
ScanAnswered(p) ==
    /\ Awaits(p, {"scan"})
    /\ \/ reply[p].kind = "checked_in" /\ Confirm(p)
       \/ reply[p].kind = "limited" /\ Fail(p, [ui EXCEPT !.limited = TRUE, !.pending = None])
       \/ reply[p].kind = "unknown" /\ Fail(p, [ui EXCEPT !.pending = None])
       \/ reply[p].kind = "closed" /\ Fail(p, [ui EXCEPT !.closed = TRUE, !.pending = None])

ScanFailed(p) ==        \* fault: an answer that does not come is a refusal
    /\ Awaits(p, {"scan"})
    /\ Fail(p, [ui EXCEPT !.pending = None])

(* The time limit, a lost connection or a failure of the service: what     *)
(* became of the scan is uncertain, and the call goes on to ask.           *)
ScanUncertain(p) ==
    /\ Awaits(p, {"scan"})
    /\ stage' = [stage EXCEPT ![p] = "recover"]
    /\ reply' = [reply EXCEPT ![p] = NoReply]
    /\ UNCHANGED <<service, scan, subject, ui, drawn, result, refs, code, version, aborted,
                   turns, changes, discharged>>

(* The answer about the status; without a receipt the code stays pending.  *)
StatusAnswered(p) ==
    /\ Awaits(p, {"recover", "status"})
    /\ \/ reply[p].kind = "checked_in" /\ Confirm(p)
       \/ reply[p].kind = "limited" /\ Fail(p, [ui EXCEPT !.limited = TRUE])
       \/ reply[p].kind \in {"absent", "unknown"} /\ Fail(p, ui)

StatusUncertain(p) ==
    /\ Awaits(p, {"recover", "status"})
    /\ Fail(p, ui)

(* The requests of an obsolete call fail and nothing more comes of it.     *)
Abandon(p) ==
    /\ Running(p) /\ Obsolete(p)
    /\ Return(p)
    /\ UNCHANGED <<service, scan, subject, ui, drawn, result, refs, code, turns, changes, discharged>>

Settle(p) ==
    ScanAnswered(p) \/ ScanUncertain(p) \/ StatusAnswered(p) \/ StatusUncertain(p) \/ Abandon(p)

-----------------------------------------------------------------------------
(* The screen.                                                             *)

LeaveCalls ==       \* fault: calls go on when the operator turns away
    UNCHANGED <<generation, aborted>>

(* The effect's clean-up: whatever is under way becomes obsolete.          *)
DropCalls ==
    /\ generation' = generation + 1
    /\ aborted' = aborted \cup {p \in Calls : p = controller /\ Running(p)}

KeepLatch == ui' = ui /\ UNCHANGED latch       \* fault: an aborted call keeps the latch

(* The effect of the screen's becoming inactive.                           *)
FreeLatch ==
    IF ui.active
    THEN ui' = ui /\ UNCHANGED latch
    ELSE ui' = [ui EXCEPT !.busy = FALSE] /\ latch' = FALSE

(* Drawing the state; when `active` changed its effects run.               *)
Draw ==
    /\ drawn # ui
    /\ drawn' = ui
    /\ IF drawn.active = ui.active
       THEN UNCHANGED <<ui, latch, generation, aborted>>
       ELSE DropCalls /\ FreeLatch
    /\ UNCHANGED <<service, wire, result, controller, stage, code, version, turns, changes, discharged>>

(* The screen loses or gains the focus, or the app the foreground.         *)
Turn ==
    /\ turns < MaxTurns
    /\ turns' = turns + 1
    /\ ui' = [ui EXCEPT !.active = ~@]
    /\ UNCHANGED <<service, wire, drawn, result, refs, process, changes, discharged>>

(* The check-in screen takes the scanner away: the poll of the session     *)
(* fails or finds it closed, the church gives up scan codes, or the        *)
(* operator turns to another view.  Calls are dropped as by DropCalls, and *)
(* what was pending is gone when the scanner is put up again (away and     *)
(* back: two turns).                                                       *)
Remount ==
    /\ turns + 2 <= MaxTurns
    /\ turns' = turns + 2
    /\ DropCalls
    /\ discharged' = discharged \cup {p \in Calls : stage[p] # "unused" /\ code[p] = ui.pending}
    /\ ui' = Fresh(ui.active) /\ drawn' = Fresh(ui.active)
    /\ result' = None /\ latch' = FALSE /\ controller' = None
    /\ UNCHANGED <<service, wire, stage, code, version, changes>>

(* The time to retry has come.                                             *)
RetryTimeComes ==
    /\ ui.limited
    /\ ui' = [ui EXCEPT !.limited = FALSE]
    /\ drawn' = [drawn EXCEPT !.limited = FALSE]
    /\ UNCHANGED <<service, wire, result, refs, process, turns, changes, discharged>>

(* Other desks: check-ins, undos, another member for a code (which leaves  *)
(* scans of it to a review of the attendance), the end of the session.     *)
Elsewhere ==
    /\ changes < MaxChanges
    /\ changes' = changes + 1
    /\ \/ \E m \in Members : present' = (present \ {m}) /\ UNCHANGED <<holder, open>>
       \/ \E m \in Members : present' = present \cup {m} /\ UNCHANGED <<holder, open>>
       \/ \E c \in Codes, m \in Members \cup {None} :
             /\ holder' = [d \in Codes |->
                              IF d = c THEN m ELSE IF holder[d] = m THEN None ELSE holder[d]]
             /\ UNCHANGED <<present, open>>
       \/ open' = FALSE /\ UNCHANGED <<present, holder>>
    /\ UNCHANGED <<wire, ui, drawn, result, refs, process, turns, discharged>>

Init ==
    /\ holder = Cards
    /\ present = {}
    /\ open = TRUE
    /\ scan = [p \in Calls |-> "none"]
    /\ subject = [p \in Calls |-> None]
    /\ reply = [p \in Calls |-> NoReply]
    /\ ui = Fresh(TRUE)
    /\ drawn = ui
    /\ result = None
    /\ latch = FALSE
    /\ generation = 0
    /\ controller = None
    /\ stage = [p \in Calls |-> "unused"]
    /\ code = [p \in Calls |-> CHOOSE c \in Codes : TRUE]
    /\ version = [p \in Calls |-> 0]
    /\ aborted = {}
    /\ turns = 0
    /\ changes = 0
    /\ discharged = {}

Next ==
    \/ \E p \in Calls :
          \/ \E c \in Codes : Scan(p, c)
          \/ CheckStatus(p)
          \/ ResolveScan(p)
          \/ CheckInMember(p)
          \/ ReadStatus(p)
          \/ Settle(p)
    \/ LeaveRecovery
    \/ Draw
    \/ Turn \/ Remount
    \/ RetryTimeComes
    \/ Elsewhere

(* The app draws its state, and every request ends within the time limit.  *)
Spec ==
    /\ Init
    /\ [][Next]_vars
    /\ WF_vars(Draw)
    /\ \A p \in Calls : WF_vars(Settle(p))

-----------------------------------------------------------------------------
(* Properties.                                                             *)

(* Every variable has its type.                                            *)
TypeOK ==
    /\ holder \in [Codes -> Members \cup {None}]
    /\ present \in SUBSET Members
    /\ open \in BOOLEAN
    /\ scan \in [Calls -> {"none", "sent", "resolved", "carried_out", "over"}]
    /\ subject \in [Calls -> Members \cup {None}]
    /\ reply \in [Calls -> [kind : Refused \cup {"none", "checked_in", "absent"},
                            member : Members \cup {None}]]
    /\ ui \in Screens /\ drawn \in Screens
    /\ result \in {None} \cup [code : Codes, member : Members]
    /\ latch \in BOOLEAN
    /\ generation \in Nat
    /\ controller \in Calls \cup {None}
    /\ stage \in [Calls -> Stages]
    /\ code \in [Calls -> Codes]
    /\ version \in [Calls -> Nat]
    /\ aborted \in SUBSET Calls
    /\ turns \in 0 .. MaxTurns
    /\ changes \in 0 .. MaxChanges
    /\ discharged \in SUBSET Calls

(* One call at a time is current, and it is current exactly while the      *)
(* latch is held; obsolete ones may still be ending (plan of the scanner:  *)
(* process one request at a time).                                         *)
LatchHeldByCurrent ==
    /\ latch <=> \E p \in Calls : Running(p) /\ ~Obsolete(p)
    /\ \A p, q \in Calls :
          Running(p) /\ ~Obsolete(p) /\ Running(q) /\ ~Obsolete(q) => p = q

(* What the screen confirms is the code that was processed last; a late    *)
(* answer to an earlier scan is never shown as the result of this one.     *)
ResultOfLastScan ==
    result # None =>
        \A p \in Calls :
            /\ stage[p] # "unused"
            /\ \A q \in Calls : q > p => stage[q] = "unused"
            => result.code = code[p]

(* A check-in that was carried out is not forgotten while its screen stays *)
(* up: when its call has ended, the operator has seen a confirmation of    *)
(* the code, still has it pending, or has left it for a manual review.     *)
(* Excepted is what was pending when the screen was taken away.            *)
CarriedOutNotForgotten ==
    \A p \in Calls :
        scan[p] = "carried_out" /\ ~Running(p) =>
            p \in discharged \/ ui.pending = code[p]

(* No code is scanned while the screen has one pending, that is while what *)
(* became of a scan from that screen is uncertain, whatever drawing the    *)
(* handler is of (README: never repeat an uncertain scan write, confirm    *)
(* status first).                                                          *)
NoScanWhilePending ==
    [][\A p \in Calls : scan[p] = "none" /\ scan'[p] = "sent" => ui.pending = None]_vars

(* The scanner is never stuck: the latch is always released again.         *)
LatchReleased == latch ~> ~latch

=============================================================================

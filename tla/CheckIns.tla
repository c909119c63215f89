------------------------------- MODULE CheckIns -------------------------------
(***************************************************************************)
(* CheckInService: check-in and undo handlers that run concurrently.       *)
(*                                                                         *)
(* A handler is an async method; between two awaits other handlers run, so *)
(* every await of the repository is a step of its own and what a handler   *)
(* has read may be out of date when it writes.  A request makes one call.  *)
(* The clock is read once by a request, so an instant that a receipt       *)
(* records is named by the request that read it.                           *)
(*                                                                         *)
(* The directory (church, members, events, occurrences) is changed by      *)
(* other handlers; here each of their final writes is one action.          *)
(***************************************************************************)
EXTENDS Naturals, Sequences

CONSTANTS
    Requests,       \* check-in and undo calls
    Callers,        \* every call that may have left its time on a receipt
    Occurrences,
    Members,
    Events,
    Church,         \* the church's own directory document
    Groups,
    EventOf,        \* the event an occurrence belongs to (Occurrence.EventId)
    NoReceipt,      \* the slot holds no attendance document
    MaxEdits        \* bound on directory changes

Documents == {Church} \cup Members \cup Events \cup Occurrences
Slots == Occurrences \X Members
Snapshots == SUBSET Groups

ASSUME CallersType == Requests \subseteq Callers
ASSUME EventOfType == EventOf \in [Occurrences -> Events]
ASSUME MaxEditsType == MaxEdits \in Nat

VARIABLES
    status,         \* of each directory document: missing, active or archived
    groups,         \* of each member: Member.GroupIds
    closed,         \* occurrences that are cancelled or archived
    edits,          \* directory changes so far
    receipt,        \* of each slot: its Attendance document
    version,        \* of each slot: the last ETag given out for it
    op,             \* of each request: CheckIn or Undo
    slot,           \* of each request: the slot it names
    pc,             \* of each request: what its handler awaits next
    seen,           \* of each request: the receipt its handler holds, then returns
    taken,          \* of each request: the groups it read from the member
    open,           \* of each request: whether the occurrence it read was open
    answer,         \* of each request: its outcome
    arrival         \* of each request (history): what was stored when it arrived

directory == <<status, groups, closed, edits>>
call == <<op, slot>>
attendance == <<receipt, version>>
handler == <<pc, seen, taken, open, answer>>
vars == <<directory, attendance, call, handler, arrival>>

Store == INSTANCE Repository WITH NoDocument <- NoReceipt

Actions == {"checked_in", "undone", "merged_from", "merged_to"}
Entries == [action : Actions, at : Callers]

(* An Attendance document.  It is created by a check-in, so its audit is   *)
(* never empty.  A slot's ETags are numbered in the order they are given   *)
(* out.                                                                    *)
Receipts ==
    [active : BOOLEAN, etag : Nat, groups : Snapshots, at : Callers,
     audit : Seq(Entries) \ {<<>>}]

Granted == {"created", "undone"}
Refusals == {"not_found", "archived", "check_in_closed", "stale_version", "failed"}
Answers == Granted \cup {"already"} \cup Refusals \cup {"none"}
Steps == {"waiting", "receipt", "church", "member", "occurrence", "event", "save",
          "conflict", "done"}

-----------------------------------------------------------------------------
(* A handler's control.                                                    *)

(* The handler answers and ends; its locals die with it.                   *)
Answer(r, outcome, body) ==
    /\ pc' = [pc EXCEPT ![r] = "done"]
    /\ answer' = [answer EXCEPT ![r] = outcome]
    /\ seen' = [seen EXCEPT ![r] = body]
    /\ taken' = [taken EXCEPT ![r] = {}]
    /\ open' = [open EXCEPT ![r] = FALSE]

Await(r, step) == pc' = [pc EXCEPT ![r] = step]

(* directory.Get<T>(..., active: true): anything but an active document is *)
(* an error the handler lets through.                                      *)
RefusedUnless(d) == IF status[d] = "missing" THEN "not_found" ELSE "archived"

NeededBy(s) == {Church, s[1], s[2], EventOf[s[1]]}

(* A request reaches the API.                                              *)
Arrive(r) ==
    /\ pc[r] = "waiting"
    /\ Await(r, "receipt")
    /\ arrival' = [arrival EXCEPT ![r] =
           [receipt |-> receipt[slot[r]],
            shut |-> \E d \in NeededBy(slot[r]) : status[d] = "archived"]]
    /\ UNCHANGED <<directory, attendance, call, seen, taken, open, answer>>

(* Both handlers first read the receipt of the slot.  A check-in that      *)
(* finds the member present answers at once with the saved receipt.        *)
ReadForCheckInAfterChurch(r) ==     \* fault: the directory is consulted first
    /\ op[r] = "CheckIn"
    /\ pc[r] = "receipt"
    /\ IF status[Church] # "active"
       THEN Answer(r, RefusedUnless(Church), NoReceipt)
       ELSE IF receipt[slot[r]] # NoReceipt /\ receipt[slot[r]].active
       THEN Answer(r, "already", receipt[slot[r]])
       ELSE /\ Await(r, "church")
            /\ seen' = [seen EXCEPT ![r] = receipt[slot[r]]]
            /\ UNCHANGED <<taken, open, answer>>
    /\ UNCHANGED <<directory, attendance, call, arrival>>

ReadForCheckIn(r) ==
    LET stored == receipt[slot[r]] IN
    /\ op[r] = "CheckIn"
    /\ pc[r] = "receipt"
    /\ IF stored # NoReceipt /\ stored.active
       THEN Answer(r, "already", stored)
       ELSE /\ Await(r, "church")
            /\ seen' = [seen EXCEPT ![r] = stored]
            /\ UNCHANGED <<taken, open, answer>>
    /\ UNCHANGED <<directory, attendance, call, arrival>>

ReadForUndo(r) ==
    LET stored == receipt[slot[r]] IN
    /\ op[r] = "Undo"
    /\ pc[r] = "receipt"
    /\ IF stored = NoReceipt
       THEN Answer(r, "not_found", NoReceipt)
       ELSE IF ~stored.active
       THEN Answer(r, "already", stored)
       ELSE /\ Await(r, "save")
            /\ seen' = [seen EXCEPT ![r] = stored]
            /\ UNCHANGED <<taken, open, answer>>
    /\ UNCHANGED <<directory, attendance, call, arrival>>

-----------------------------------------------------------------------------
(* The directory reads of a check-in, in the code's order.                 *)

ReadChurch(r) ==
    /\ pc[r] = "church"
    /\ IF status[Church] = "active"
       THEN Await(r, "member") /\ UNCHANGED <<seen, taken, open, answer>>
       ELSE Answer(r, RefusedUnless(Church), NoReceipt)
    /\ UNCHANGED <<directory, attendance, call, arrival>>

ReadAnyMember(r) ==     \* fault: the member is read without asking for an active one
    LET m == slot[r][2] IN
    /\ pc[r] = "member"
    /\ IF status[m] # "missing"
       THEN /\ Await(r, "occurrence")
            /\ taken' = [taken EXCEPT ![r] = groups[m]]
            /\ UNCHANGED <<seen, open, answer>>
       ELSE Answer(r, RefusedUnless(m), NoReceipt)
    /\ UNCHANGED <<directory, attendance, call, arrival>>

ReadMember(r) ==
    LET m == slot[r][2] IN
    /\ pc[r] = "member"
    /\ IF status[m] = "active"
       THEN /\ Await(r, "occurrence")
            /\ taken' = [taken EXCEPT ![r] = groups[m]]
            /\ UNCHANGED <<seen, open, answer>>
       ELSE Answer(r, RefusedUnless(m), NoReceipt)
    /\ UNCHANGED <<directory, attendance, call, arrival>>

ReadOccurrence(r) ==
    LET o == slot[r][1] IN
    /\ pc[r] = "occurrence"
    /\ IF status[o] = "active"
       THEN /\ Await(r, "event")
            /\ open' = [open EXCEPT ![r] = o \notin closed]
            /\ UNCHANGED <<seen, taken, answer>>
       ELSE Answer(r, RefusedUnless(o), NoReceipt)
    /\ UNCHANGED <<directory, attendance, call, arrival>>

(* The event is checked before the occurrence's own flags, which were read *)
(* one step earlier.                                                       *)
ReadEvent(r) ==
    LET e == EventOf[slot[r][1]] IN
    /\ pc[r] = "event"
    /\ IF status[e] # "active"
       THEN Answer(r, RefusedUnless(e), NoReceipt)
       ELSE IF ~open[r]
       THEN Answer(r, "check_in_closed", NoReceipt)
       ELSE Await(r, "save") /\ UNCHANGED <<seen, taken, open, answer>>
    /\ UNCHANGED <<directory, attendance, call, arrival>>

-----------------------------------------------------------------------------
(* The write that ends a handler.                                          *)

Entry(r, action) == [action |-> action, at |-> r]

(* The repository stores doc under the slot's next ETag.                   *)
Put(s, doc) ==
    /\ receipt' = [receipt EXCEPT ![s] = doc]
    /\ version' = [version EXCEPT ![s] = @ + 1]

NextETag(r) == version[slot[r]] + 1

NewReceipt(r) ==
    [active |-> TRUE, etag |-> NextETag(r), groups |-> taken[r], at |-> r,
     audit |-> <<Entry(r, "checked_in")>>]

(* The handler's copy of the receipt, changed.                             *)
Restored(r) ==
    [seen[r] EXCEPT !.active = TRUE, !.groups = taken[r], !.at = r,
                    !.etag = NextETag(r), !.audit = Append(@, Entry(r, "checked_in"))]

Voided(r) ==
    [seen[r] EXCEPT !.active = FALSE, !.etag = NextETag(r),
                    !.audit = Append(@, Entry(r, "undone"))]

(* No receipt was there: create one.  If there is one by now, it is read   *)
(* again and answered as it then is.                                       *)
CreateReceipt(r) ==
    /\ op[r] = "CheckIn"
    /\ pc[r] = "save"
    /\ seen[r] = NoReceipt
    /\ IF Store!MayCreate(receipt[slot[r]])
       THEN Put(slot[r], NewReceipt(r)) /\ Answer(r, "created", NewReceipt(r))
       ELSE Await(r, "conflict") /\ UNCHANGED <<attendance, seen, taken, open, answer>>
    /\ UNCHANGED <<directory, call, arrival>>

ReadConflict(r) ==
    LET stored == receipt[slot[r]] IN
    /\ pc[r] = "conflict"
    /\ Answer(r, IF stored = NoReceipt THEN "failed" ELSE "already", stored)
    /\ UNCHANGED <<directory, attendance, call, arrival>>

ReplaceReceipt(r, doc, outcome) ==
    LET stored == receipt[slot[r]] IN
    /\ pc[r] = "save"
    /\ IF Store!MayReplace(stored, seen[r].etag)
       THEN Put(slot[r], doc) /\ Answer(r, outcome, doc)
       ELSE /\ Answer(r, Store!ReplaceRefusal(stored), NoReceipt)
            /\ UNCHANGED attendance
    /\ UNCHANGED <<directory, call, arrival>>

(* An undone receipt was there: check in again on top of it.               *)
RestoreReceipt(r) ==
    /\ op[r] = "CheckIn"
    /\ seen[r] # NoReceipt
    /\ ReplaceReceipt(r, Restored(r), "created")

VoidReceipt(r) ==
    /\ op[r] = "Undo"
    /\ ReplaceReceipt(r, Voided(r), "undone")

Handle(r) ==
    \/ Arrive(r)
    \/ ReadForCheckIn(r)
    \/ ReadForUndo(r)
    \/ ReadChurch(r)
    \/ ReadMember(r)
    \/ ReadOccurrence(r)
    \/ ReadEvent(r)
    \/ CreateReceipt(r)
    \/ ReadConflict(r)
    \/ RestoreReceipt(r)
    \/ VoidReceipt(r)

-----------------------------------------------------------------------------
(* The final writes of the directory handlers.                             *)

Edit ==
    /\ edits < MaxEdits
    /\ edits' = edits + 1
    /\ UNCHANGED <<attendance, call, handler, arrival>>

(* DirectoryService.Save of a new member; EventService.Generate, which     *)
(* needs the event.                                                        *)
CreateDocument(d) ==
    /\ status[d] = "missing"
    /\ d \in Occurrences => status[EventOf[d]] # "missing"
    /\ status' = [status EXCEPT ![d] = "active"]
    /\ UNCHANGED <<groups, closed>>
    /\ Edit

(* DirectoryService.Archive.  Nothing archives an occurrence's document.   *)
ArchiveDocument(d) ==
    /\ d \notin Occurrences
    /\ status[d] = "active"
    /\ status' = [status EXCEPT ![d] = "archived"]
    /\ UNCHANGED <<groups, closed>>
    /\ Edit

(* DirectoryService.Save of an active member with other groups.            *)
Regroup(m, gs) ==
    /\ status[m] = "active"
    /\ groups[m] # gs
    /\ groups' = [groups EXCEPT ![m] = gs]
    /\ UNCHANGED <<status, closed>>
    /\ Edit

(* EventService.Override: cancel or archive an occurrence, or the reverse. *)
Override(o) ==
    /\ status[o] = "active"
    /\ closed' = IF o \in closed THEN closed \ {o} ELSE closed \cup {o}
    /\ UNCHANGED <<status, groups>>
    /\ Edit

ChangeDirectory ==
    \/ \E d \in Documents : CreateDocument(d) \/ ArchiveDocument(d)
    \/ \E m \in Members, gs \in Snapshots : Regroup(m, gs)
    \/ \E o \in Occurrences : Override(o)

-----------------------------------------------------------------------------
Init ==
    /\ status \in [Documents -> {"missing", "active"}]
    /\ status[Church] = "active"
    /\ \A o \in Occurrences : status[o] = "active" => status[EventOf[o]] = "active"
    /\ groups = [m \in Members |-> {}]
    /\ closed = {}
    /\ edits = 0
    /\ receipt = [s \in Slots |-> NoReceipt]
    /\ version = [s \in Slots |-> 0]
    /\ op \in [Requests -> {"CheckIn", "Undo"}]
    /\ slot \in [Requests -> Slots]
    /\ pc = [r \in Requests |-> "waiting"]
    /\ seen = [r \in Requests |-> NoReceipt]
    /\ taken = [r \in Requests |-> {}]
    /\ open = [r \in Requests |-> FALSE]
    /\ answer = [r \in Requests |-> "none"]
    /\ arrival = [r \in Requests |-> [receipt |-> NoReceipt, shut |-> FALSE]]

Next == (\E r \in Requests : Handle(r)) \/ ChangeDirectory

Spec == Init /\ [][Next]_vars

-----------------------------------------------------------------------------
(* Properties.                                                             *)

(* NoReceipt is neither a document nor the presence the ledger derives.    *)
ASSUME NoReceiptType ==
    /\ NoReceipt \notin Receipts
    /\ NoReceipt \notin [groups : Snapshots, at : Callers]

DirectoryOK ==
    /\ status \in [Documents -> {"missing", "active", "archived"}]
    /\ groups \in [Members -> Snapshots]
    /\ closed \in SUBSET Occurrences
    /\ edits \in 0 .. MaxEdits

AttendanceOK ==
    /\ receipt \in [Slots -> Receipts \cup {NoReceipt}]
    /\ version \in [Slots -> Nat]

RequestOK ==
    /\ op \in [Requests -> {"CheckIn", "Undo"}]
    /\ slot \in [Requests -> Slots]
    /\ arrival \in [Requests -> [receipt : Receipts \cup {NoReceipt}, shut : BOOLEAN]]

HandlerOK ==
    /\ pc \in [Requests -> Steps]
    /\ seen \in [Requests -> Receipts \cup {NoReceipt}]
    /\ taken \in [Requests -> Snapshots]
    /\ open \in [Requests -> BOOLEAN]
    /\ answer \in [Requests -> Answers]

(* Every variable has its type.                                            *)
TypeOK == DirectoryOK /\ AttendanceOK /\ RequestOK /\ HandlerOK

(* An ETag names one version: a handler that is about to write and holds   *)
(* the ETag of the stored receipt holds that very receipt, however long    *)
(* ago it read it.  A restore or an undo that is accepted therefore acts   *)
(* on what is stored, not on what was (CheckInService.CheckIn and Undo     *)
(* build the new document from their copy).                                *)
ETagNamesVersion ==
    \A r \in Requests :
        pc[r] \notin {"waiting", "done"} /\ seen[r] # NoReceipt =>
            /\ seen[r].etag <= version[slot[r]]
            /\ Store!MayReplace(receipt[slot[r]], seen[r].etag)
                   => receipt[slot[r]] = seen[r]

(* A check-in that arrives after the church, the member or the event was   *)
(* archived makes no entry, whatever else is going on.                     *)
LateCheckInRefused ==
    \A r \in Requests :
        op[r] = "CheckIn" /\ arrival[r].shut => answer[r] # "created"

(* A member who is checked in when a check-in arrives, and still is by the *)
(* same receipt when it has been answered, was not told of an error:       *)
(* archiving does not hide a saved receipt.                                *)
SavedReceiptRecoverable ==
    \A r \in Requests :
        /\ op[r] = "CheckIn"
        /\ arrival[r].receipt # NoReceipt
        /\ arrival[r].receipt.active
        /\ arrival[r].receipt = receipt[slot[r]]
        => answer[r] \notin Refusals

(* Check-in implements the ledger of accepted entries: entries are never   *)
(* lost, doubled or reordered, a present member's snapshot is the one its  *)
(* check-in took, and the requests answered 201 (or undone) are exactly    *)
(* the ones that made an entry, one each.                                  *)
Ledger == INSTANCE AttendanceLedger WITH
    Absent <- NoReceipt,
    ledger <- [s \in Slots |->
                  IF receipt[s] = NoReceipt THEN <<>> ELSE receipt[s].audit],
    presence <- [s \in Slots |->
                  IF receipt[s] # NoReceipt /\ receipt[s].active
                  THEN [groups |-> receipt[s].groups, at |-> receipt[s].at]
                  ELSE NoReceipt],
    granted <- {r \in Requests : answer[r] \in Granted}

ImplementsLedger == Ledger!Spec

(* A check-in that is answered 201 or 200 comes with a receipt that counts *)
(* as attendance (README: repeats return 200 with the saved receipt).      *)
SuccessMeansPresent ==
    \A r \in Requests :
        op[r] = "CheckIn" /\ answer[r] \in {"created", "already"} => seen[r].active

(* A check-in is idempotent: a repeat is answered 200, it does not conflict *)
(* (Plans/20261002-check-in-status-restore-cr1.md).                        *)
CheckInNeverStale ==
    \A r \in Requests : op[r] = "CheckIn" => answer[r] # "stale_version"

=============================================================================

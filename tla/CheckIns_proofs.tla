---------------------------- MODULE CheckIns_proofs ----------------------------
(***************************************************************************)
(* Proofs about CheckIns for any requests, members, occurrences, events,   *)
(* groups and bound on directory changes.                                  *)
(***************************************************************************)
EXTENDS CheckIns, TLAPS

-----------------------------------------------------------------------------
(* Type correctness.  An undo that is about to write holds the receipt it  *)
(* read; without that its write would have no type.                        *)

UndoHoldsReceipt ==
    \A r \in Requests :
        op[r] = "Undo" /\ pc[r] \notin {"waiting", "receipt", "done"}
            => pc[r] = "save" /\ seen[r] # NoReceipt

TypeInv == TypeOK /\ UndoHoldsReceipt

(* The documents the three writes build are Attendance documents.          *)
LEMMA WrittenReceipts ==
    ASSUME TypeInv, NEW r \in Requests
    PROVE  /\ NewReceipt(r) \in Receipts
           /\ seen[r] # NoReceipt =>
                  /\ Restored(r) \in Receipts /\ Restored(r).etag = NextETag(r)
                  /\ Voided(r) \in Receipts /\ Voided(r).etag = NextETag(r)
  <1>1. slot[r] \in Slots /\ NextETag(r) \in Nat /\ taken[r] \in Snapshots
    BY DEF TypeInv, TypeOK, AttendanceOK, RequestOK, HandlerOK, NextETag
  <1>2. Entry(r, "checked_in") \in Entries /\ Entry(r, "undone") \in Entries
    BY CallersType DEF Entry, Entries, Actions
  <1>3. NewReceipt(r) \in Receipts
    BY <1>1, <1>2, CallersType DEF NewReceipt, Receipts
  <1>4. ASSUME seen[r] # NoReceipt
        PROVE  /\ Restored(r) \in Receipts /\ Restored(r).etag = NextETag(r)
               /\ Voided(r) \in Receipts /\ Voided(r).etag = NextETag(r)
    <2>1. seen[r] \in Receipts
      BY <1>4 DEF TypeInv, TypeOK, HandlerOK
    <2>2. /\ Append(seen[r].audit, Entry(r, "checked_in")) \in Seq(Entries) \ {<<>>}
          /\ Append(seen[r].audit, Entry(r, "undone")) \in Seq(Entries) \ {<<>>}
      BY <2>1, <1>2 DEF Receipts
    <2>3. Restored(r) \in Receipts /\ Voided(r) \in Receipts
      BY <1>1, <2>1, <2>2, CallersType DEF Restored, Voided, Receipts
    <2>4. Restored(r).etag = NextETag(r) /\ Voided(r).etag = NextETag(r)
      BY <2>1 DEF Restored, Voided, Receipts
    <2>5. QED
      BY <2>3, <2>4
  <1>5. QED
    BY <1>3, <1>4

(* What a handler keeps when it answers or goes on with some of its        *)
(* variables changed to values of their types.                             *)
LEMMA AnswerKeepsType ==
    ASSUME TypeInv, NEW r \in Requests, NEW outcome \in Answers,
           NEW body \in Receipts \cup {NoReceipt},
           Answer(r, outcome, body), UNCHANGED call
    PROVE  HandlerOK' /\ UndoHoldsReceipt'
  <1>1. HandlerOK'
    BY DEF TypeInv, TypeOK, HandlerOK, Answer, Steps, Snapshots
  <1>2. UndoHoldsReceipt'
    BY DEF TypeInv, TypeOK, HandlerOK, UndoHoldsReceipt, Answer, call
  <1>3. QED
    BY <1>1, <1>2

LEMMA AwaitKeepsType ==
    ASSUME TypeInv, NEW r \in Requests, NEW step \in Steps, Await(r, step),
           NEW body \in Receipts \cup {NoReceipt}, seen' = [seen EXCEPT ![r] = body],
           op[r] = "Undo" => step = "save" /\ body # NoReceipt,
           taken' \in [Requests -> Snapshots], open' \in [Requests -> BOOLEAN],
           UNCHANGED <<call, answer>>
    PROVE  HandlerOK' /\ UndoHoldsReceipt'
  <1>1. HandlerOK'
    BY DEF TypeInv, TypeOK, HandlerOK, Await
  <1>2. UndoHoldsReceipt'
    BY DEF TypeInv, TypeOK, HandlerOK, UndoHoldsReceipt, Await, call
  <1>3. QED
    BY <1>1, <1>2

(* Past the first read, only an undo may write and only a check-in reads   *)
(* the directory.                                                          *)
LEMMA OnlyCheckIns ==
    ASSUME TypeInv, NEW r \in Requests,
           pc[r] \in {"church", "member", "occurrence", "event", "conflict"}
    PROVE  op[r] # "Undo"
  BY DEF TypeInv, UndoHoldsReceipt

LEMMA SameSeen ==
    ASSUME TypeInv, NEW r \in Requests, UNCHANGED seen
    PROVE  /\ seen' = [seen EXCEPT ![r] = seen[r]]
           /\ seen[r] \in Receipts \cup {NoReceipt}
  BY DEF TypeInv, TypeOK, HandlerOK

(* A step of request r that leaves the other parts alone.                  *)
LEMMA RestKeepsType ==
    ASSUME TypeInv, UNCHANGED <<directory, attendance, call, arrival>>
    PROVE  DirectoryOK' /\ AttendanceOK' /\ RequestOK'
  BY DEF TypeInv, TypeOK, DirectoryOK, AttendanceOK, RequestOK, directory, attendance, call

LEMMA TypeInvInit == Init => TypeInv
  <1> SUFFICES ASSUME Init PROVE TypeInv
    OBVIOUS
  <1>1. DirectoryOK /\ AttendanceOK
    BY MaxEditsType DEF Init, DirectoryOK, AttendanceOK, Snapshots
  <1>2. RequestOK /\ HandlerOK /\ UndoHoldsReceipt
    BY DEF Init, RequestOK, HandlerOK, UndoHoldsReceipt, Snapshots, Steps, Answers
  <1>3. QED
    BY <1>1, <1>2 DEF TypeInv, TypeOK

LEMMA TypeInvStep == TypeInv /\ [Next]_vars => TypeInv'
  <1> SUFFICES ASSUME TypeInv, [Next]_vars
               PROVE  TypeInv'
    OBVIOUS
  <1> USE DEF TypeInv, TypeOK
  <1>1. ASSUME NEW r \in Requests, Arrive(r)
        PROVE  TypeInv'
    <2>1. slot[r] \in Slots /\ receipt[slot[r]] \in Receipts \cup {NoReceipt}
      BY DEF RequestOK, AttendanceOK
    <2>2. RequestOK'
      BY <1>1, <2>1 DEF Arrive, RequestOK, call
    <2>3. HandlerOK' /\ UndoHoldsReceipt'
      BY <1>1 DEF Arrive, Await, HandlerOK, UndoHoldsReceipt, Steps, call
    <2>4. DirectoryOK' /\ AttendanceOK'
      BY <1>1 DEF Arrive, DirectoryOK, AttendanceOK, directory, attendance
    <2>5. QED
      BY <2>2, <2>3, <2>4
  <1>2. ASSUME NEW r \in Requests, ReadForCheckIn(r)
        PROVE  TypeInv'
    <2>1. receipt[slot[r]] \in Receipts \cup {NoReceipt}
      BY DEF RequestOK, AttendanceOK
    <2>2. HandlerOK' /\ UndoHoldsReceipt'
      <3>1. CASE receipt[slot[r]] # NoReceipt /\ receipt[slot[r]].active
        BY <1>2, <2>1, <3>1, AnswerKeepsType DEF ReadForCheckIn, Answers
      <3>2. CASE ~(receipt[slot[r]] # NoReceipt /\ receipt[slot[r]].active)
        BY <1>2, <2>1, <3>2, AwaitKeepsType DEF ReadForCheckIn, Steps, HandlerOK
      <3>3. QED
        BY <3>1, <3>2
    <2>3. QED
      BY <1>2, <2>2, RestKeepsType DEF ReadForCheckIn
  <1>3. ASSUME NEW r \in Requests, ReadForUndo(r)
        PROVE  TypeInv'
    <2>1. receipt[slot[r]] \in Receipts \cup {NoReceipt}
      BY DEF RequestOK, AttendanceOK
    <2>2. HandlerOK' /\ UndoHoldsReceipt'
      <3>1. CASE receipt[slot[r]] = NoReceipt
        BY <1>3, <3>1, AnswerKeepsType DEF ReadForUndo, Answers, Refusals
      <3>2. CASE receipt[slot[r]] # NoReceipt /\ ~receipt[slot[r]].active
        BY <1>3, <2>1, <3>2, AnswerKeepsType DEF ReadForUndo, Answers
      <3>3. CASE receipt[slot[r]] # NoReceipt /\ receipt[slot[r]].active
        BY <1>3, <2>1, <3>3, AwaitKeepsType DEF ReadForUndo, Steps, HandlerOK
      <3>4. QED
        BY <3>1, <3>2, <3>3
    <2>3. QED
      BY <1>3, <2>2, RestKeepsType DEF ReadForUndo
  <1>4. ASSUME NEW r \in Requests, ReadChurch(r)
        PROVE  TypeInv'
    <2>1. CASE status[Church] = "active"
      BY <1>4, <2>1, OnlyCheckIns, SameSeen, AwaitKeepsType, RestKeepsType
         DEF ReadChurch, Steps, HandlerOK
    <2>2. CASE status[Church] # "active"
      BY <1>4, <2>2, AnswerKeepsType, RestKeepsType
         DEF ReadChurch, RefusedUnless, Answers, Refusals
    <2>3. QED
      BY <2>1, <2>2
  <1>5. ASSUME NEW r \in Requests, ReadMember(r)
        PROVE  TypeInv'
    <2>1. CASE status[slot[r][2]] = "active"
      <3>1. groups[slot[r][2]] \in Snapshots
        BY DEF RequestOK, DirectoryOK, Slots
      <3>2. QED
        BY <1>5, <2>1, <3>1, OnlyCheckIns, SameSeen, AwaitKeepsType, RestKeepsType
           DEF ReadMember, Steps, HandlerOK
    <2>2. CASE status[slot[r][2]] # "active"
      BY <1>5, <2>2, AnswerKeepsType, RestKeepsType
         DEF ReadMember, RefusedUnless, Answers, Refusals
    <2>3. QED
      BY <2>1, <2>2
  <1>6. ASSUME NEW r \in Requests, ReadOccurrence(r)
        PROVE  TypeInv'
    <2>1. CASE status[slot[r][1]] = "active"
      <3>1. open' \in [Requests -> BOOLEAN]
        BY <1>6, <2>1 DEF ReadOccurrence, HandlerOK
      <3>2. /\ "event" \in Steps
            /\ Await(r, "event") /\ UNCHANGED <<call, answer>>
            /\ taken' \in [Requests -> Snapshots]
            /\ UNCHANGED seen
            /\ pc[r] = "occurrence"
            /\ UNCHANGED <<directory, attendance, call, arrival>>
        BY <1>6, <2>1 DEF ReadOccurrence, Steps, HandlerOK
      <3>3. QED
        BY <3>1, <3>2, OnlyCheckIns, SameSeen, AwaitKeepsType, RestKeepsType
    <2>2. CASE status[slot[r][1]] # "active"
      BY <1>6, <2>2, AnswerKeepsType, RestKeepsType
         DEF ReadOccurrence, RefusedUnless, Answers, Refusals
    <2>3. QED
      BY <2>1, <2>2
  <1>7. ASSUME NEW r \in Requests, ReadEvent(r)
        PROVE  TypeInv'
    <2>1. CASE status[EventOf[slot[r][1]]] = "active" /\ open[r]
      BY <1>7, <2>1, OnlyCheckIns, SameSeen, AwaitKeepsType, RestKeepsType
         DEF ReadEvent, Steps, HandlerOK
    <2>2. CASE ~(status[EventOf[slot[r][1]]] = "active" /\ open[r])
      BY <1>7, <2>2, AnswerKeepsType, RestKeepsType
         DEF ReadEvent, RefusedUnless, Answers, Refusals
    <2>3. QED
      BY <2>1, <2>2
  <1>8. ASSUME NEW r \in Requests, CreateReceipt(r)
        PROVE  TypeInv'
    <2>1. NewReceipt(r) \in Receipts
      BY WrittenReceipts
    <2>2. CASE Store!MayCreate(receipt[slot[r]])
      <3>1. HandlerOK' /\ UndoHoldsReceipt'
        BY <1>8, <2>1, <2>2, AnswerKeepsType DEF CreateReceipt, Answers, Granted
      <3>2. DirectoryOK' /\ AttendanceOK' /\ RequestOK'
        BY <1>8, <2>1, <2>2
           DEF CreateReceipt, Put, DirectoryOK, AttendanceOK, RequestOK, directory, call
      <3>3. QED
        BY <3>1, <3>2
    <2>3. CASE ~Store!MayCreate(receipt[slot[r]])
      BY <1>8, <2>3, SameSeen, AwaitKeepsType, RestKeepsType
         DEF CreateReceipt, Steps, HandlerOK
    <2>4. QED
      BY <2>2, <2>3
  <1>9. ASSUME NEW r \in Requests, ReadConflict(r)
        PROVE  TypeInv'
    <2>1. receipt[slot[r]] \in Receipts \cup {NoReceipt}
      BY DEF RequestOK, AttendanceOK
    <2>2. QED
      BY <1>9, <2>1, AnswerKeepsType, RestKeepsType DEF ReadConflict, Answers, Refusals
  <1>10. ASSUME NEW r \in Requests, NEW doc \in Receipts, NEW outcome \in Granted,
                ReplaceReceipt(r, doc, outcome)
         PROVE  TypeInv'
    <2>1. CASE Store!MayReplace(receipt[slot[r]], seen[r].etag)
      <3>1. HandlerOK' /\ UndoHoldsReceipt'
        BY <1>10, <2>1, AnswerKeepsType DEF ReplaceReceipt, Answers
      <3>2. DirectoryOK' /\ AttendanceOK' /\ RequestOK'
        BY <1>10, <2>1
           DEF ReplaceReceipt, Put, DirectoryOK, AttendanceOK, RequestOK, directory, call
      <3>3. QED
        BY <3>1, <3>2
    <2>2. CASE ~Store!MayReplace(receipt[slot[r]], seen[r].etag)
      BY <1>10, <2>2, AnswerKeepsType, RestKeepsType
         DEF ReplaceReceipt, Store!ReplaceRefusal, Answers, Refusals
    <2>3. QED
      BY <2>1, <2>2
  <1>11. ASSUME NEW r \in Requests, RestoreReceipt(r)
         PROVE  TypeInv'
    BY <1>10, <1>11, WrittenReceipts DEF RestoreReceipt, Granted
  <1>12. ASSUME NEW r \in Requests, VoidReceipt(r)
         PROVE  TypeInv'
    BY <1>10, <1>12, WrittenReceipts DEF VoidReceipt, ReplaceReceipt, Granted, UndoHoldsReceipt
  <1>13. CASE ChangeDirectory
    <2>1. AttendanceOK' /\ RequestOK' /\ HandlerOK' /\ UndoHoldsReceipt'
      BY <1>13
         DEF ChangeDirectory, CreateDocument, ArchiveDocument, Regroup, Override, Edit,
             attendance, call, handler, AttendanceOK, RequestOK, HandlerOK, UndoHoldsReceipt
    <2>2. DirectoryOK'
      BY <1>13, MaxEditsType
         DEF ChangeDirectory, CreateDocument, ArchiveDocument, Regroup, Override, Edit,
             DirectoryOK
    <2>3. QED
      BY <2>1, <2>2
  <1>14. CASE UNCHANGED vars
    BY <1>14, RestKeepsType DEF vars, call, handler, HandlerOK, UndoHoldsReceipt
  <1>15. QED
    BY <1>1, <1>2, <1>3, <1>4, <1>5, <1>6, <1>7, <1>8, <1>9, <1>11, <1>12, <1>13, <1>14
       DEF Next, Handle

(* Every variable keeps its type, whatever handlers and edits interleave.  *)
THEOREM TypeCorrect == Spec => []TypeOK
  <1>1. TypeInv => TypeOK
    BY DEF TypeInv
  <1>2. QED
    BY TypeInvInit, TypeInvStep, <1>1, PTL DEF Spec

-----------------------------------------------------------------------------
(* Versions.  The argument: a stored receipt carries an ETag that was given *)
(* out, every write uses the next one, and a handler holds a copy it read   *)
(* of the slot; so a copy with the stored ETag is the stored document.      *)

StoredVersions ==
    \A s \in Slots : receipt[s] # NoReceipt => receipt[s].etag <= version[s]

(* What a handler has between its first read and its answer.               *)
HandlersHold ==
    \A r \in Requests :
        /\ pc[r] # "done" => answer[r] = "none"
        /\ pc[r] \in {"waiting", "receipt"} => seen[r] = NoReceipt
        /\ pc[r] # "done" /\ seen[r] # NoReceipt => (seen[r].active <=> op[r] = "Undo")

VersionInv == TypeInv /\ StoredVersions /\ HandlersHold /\ ETagNamesVersion

(* A write puts a document with the slot's next ETag and ends the handler. *)
Writes(r, doc) ==
    /\ doc.etag = NextETag(r)
    /\ Put(slot[r], doc)
    /\ pc' = [pc EXCEPT ![r] = "done"]

(* A step of a handler writes, or leaves the receipts alone; then it ends, *)
(* or goes on with the copy it had or the one it reads now.                *)
LEMMA StepShape ==
    ASSUME TypeInv, NEW r \in Requests, Handle(r)
    PROVE  /\ UNCHANGED call
           /\ \/ \E doc \in Receipts : Writes(r, doc)
              \/ UNCHANGED attendance
           /\ \A q \in Requests \ {r} :
                  /\ pc'[q] = pc[q] /\ seen'[q] = seen[q]
                  /\ answer'[q] = answer[q] /\ arrival'[q] = arrival[q]
           /\ \/ pc'[r] = "done"
              \/ /\ pc[r] # "done" /\ answer'[r] = answer[r]
                 /\ \/ /\ seen'[r] = seen[r]
                       /\ pc'[r] \in {"waiting", "receipt"} => pc[r] \in {"waiting", "receipt"}
                    \/ /\ seen'[r] = receipt[slot[r]]
                       /\ pc'[r] \notin {"waiting", "receipt"}
                       /\ seen'[r] # NoReceipt => (seen'[r].active <=> op[r] = "Undo")
  <1> USE DEF TypeInv, TypeOK, HandlerOK, RequestOK, Answer, Await, call, attendance
  <1>1. CASE Arrive(r)
    BY <1>1 DEF Arrive
  <1>2. CASE ReadForCheckIn(r)
    BY <1>2 DEF ReadForCheckIn
  <1>3. CASE ReadForUndo(r)
    BY <1>3 DEF ReadForUndo
  <1>4. CASE ReadChurch(r)
    BY <1>4 DEF ReadChurch
  <1>5. CASE ReadMember(r)
    BY <1>5 DEF ReadMember
  <1>6. CASE ReadOccurrence(r)
    BY <1>6 DEF ReadOccurrence
  <1>7. CASE ReadEvent(r)
    BY <1>7 DEF ReadEvent
  <1>8. CASE CreateReceipt(r)
    <2>1. NewReceipt(r) \in Receipts /\ NewReceipt(r).etag = NextETag(r)
      BY WrittenReceipts DEF NewReceipt
    <2>2. QED
      BY <1>8, <2>1 DEF CreateReceipt, Writes
  <1>9. CASE ReadConflict(r)
    BY <1>9 DEF ReadConflict
  <1>10. CASE RestoreReceipt(r)
    <2>1. Restored(r) \in Receipts /\ Restored(r).etag = NextETag(r)
      BY <1>10, WrittenReceipts DEF RestoreReceipt
    <2>2. QED
      BY <1>10, <2>1 DEF RestoreReceipt, ReplaceReceipt, Writes
  <1>11. CASE VoidReceipt(r)
    <2>1. seen[r] # NoReceipt
      BY <1>11 DEF VoidReceipt, ReplaceReceipt, UndoHoldsReceipt
    <2>2. Voided(r) \in Receipts /\ Voided(r).etag = NextETag(r)
      BY <2>1, WrittenReceipts
    <2>3. QED
      BY <1>11, <2>2 DEF VoidReceipt, ReplaceReceipt, Writes
  <1>12. QED
    BY <1>1, <1>2, <1>3, <1>4, <1>5, <1>6, <1>7, <1>8, <1>9, <1>10, <1>11 DEF Handle

(* Edits of the directory and stutters touch no request and no receipt.    *)
LEMMA RestShape ==
    ASSUME ChangeDirectory \/ UNCHANGED vars
    PROVE  UNCHANGED <<attendance, call, handler, arrival>>
  BY DEF ChangeDirectory, CreateDocument, ArchiveDocument, Regroup, Override, Edit, vars

LEMMA VersionInvStep == VersionInv /\ [Next]_vars => VersionInv'
  <1> SUFFICES ASSUME VersionInv, [Next]_vars
               PROVE  VersionInv'
    OBVIOUS
  <1>1. TypeInv /\ TypeInv'
    BY TypeInvStep DEF VersionInv
  <1>2. ASSUME NEW r \in Requests, Handle(r)
        PROVE  StoredVersions' /\ HandlersHold' /\ ETagNamesVersion'
    <2>1. slot \in [Requests -> Slots] /\ version \in [Slots -> Nat]
      BY <1>1 DEF TypeInv, TypeOK, RequestOK, AttendanceOK
    <2>2. HandlersHold'
      BY <1>2, <1>1, StepShape DEF VersionInv, HandlersHold, call
    <2>3. CASE UNCHANGED attendance
      BY <1>2, <1>1, <2>1, <2>3, StepShape
         DEF VersionInv, HandlersHold, StoredVersions, ETagNamesVersion, Store!MayReplace,
             call, attendance
    <2>4. CASE \E doc \in Receipts : Writes(r, doc)
      <3>1. PICK doc \in Receipts : Writes(r, doc)
        BY <2>4
      <3>2. StoredVersions'
        BY <3>1, <2>1, <1>1
           DEF VersionInv, StoredVersions, Writes, Put, NextETag, TypeInv, TypeOK, AttendanceOK
      <3>3. ETagNamesVersion'
        <4> SUFFICES ASSUME NEW q \in Requests,
                            pc'[q] \notin {"waiting", "done"} /\ seen'[q] # NoReceipt
                     PROVE  /\ seen'[q].etag <= version'[slot'[q]]
                            /\ Store!MayReplace(receipt[slot[q]], seen[q].etag)'
                                   => receipt'[slot'[q]] = seen'[q]
          BY DEF ETagNamesVersion
        <4>1. q # r /\ pc'[q] = pc[q] /\ seen'[q] = seen[q] /\ slot'[q] = slot[q]
          BY <1>1, <1>2, <3>1, StepShape DEF Writes, call, TypeInv, TypeOK, HandlerOK
        <4>2. seen[q] \in Receipts /\ seen[q].etag \in Nat
          BY <1>1, <4>1 DEF TypeInv, TypeOK, HandlerOK, Receipts
        <4>3. /\ seen[q].etag <= version[slot[q]]
              /\ Store!MayReplace(receipt[slot[q]], seen[q].etag) => receipt[slot[q]] = seen[q]
          BY <4>1 DEF VersionInv, ETagNamesVersion
        <4>4. CASE slot[q] = slot[r]
          <5>1. receipt'[slot[q]] = doc /\ version'[slot[q]] = version[slot[q]] + 1
            BY <3>1, <2>1, <4>4, <1>1 DEF Writes, Put, TypeInv, TypeOK, AttendanceOK
          <5>2. doc.etag = version[slot[q]] + 1
            BY <3>1, <4>4 DEF Writes, NextETag
          <5>3. QED
            BY <5>1, <5>2, <4>1, <4>2, <4>3, <2>1 DEF Store!MayReplace
        <4>5. CASE slot[q] # slot[r]
          <5>1. receipt'[slot[q]] = receipt[slot[q]] /\ version'[slot[q]] = version[slot[q]]
            BY <3>1, <2>1, <4>5, <1>1 DEF Writes, Put, TypeInv, TypeOK, AttendanceOK
          <5>2. QED
            BY <5>1, <4>1, <4>3 DEF Store!MayReplace
        <4>6. QED
          BY <4>4, <4>5
      <3>4. QED
        BY <2>2, <3>2, <3>3
    <2>5. QED
      BY <1>1, <1>2, <2>2, <2>3, <2>4, StepShape
  <1>3. CASE ChangeDirectory \/ UNCHANGED vars
    BY <1>3, <1>1, RestShape
       DEF VersionInv, HandlersHold, StoredVersions, ETagNamesVersion, Store!MayReplace,
           attendance, call, handler
  <1>4. QED
    BY <1>1, <1>2, <1>3 DEF Next, VersionInv

LEMMA VersionInvInit == Init => VersionInv
  BY TypeInvInit DEF Init, VersionInv, StoredVersions, HandlersHold, ETagNamesVersion

(* A handler that may write holds the stored version, not an older one.    *)
THEOREM ETagsNameVersions == Spec => []ETagNamesVersion
  <1>1. VersionInv => ETagNamesVersion
    BY DEF VersionInv
  <1>2. QED
    BY VersionInvInit, VersionInvStep, <1>1, PTL DEF Spec

-----------------------------------------------------------------------------
(* Late check-ins.  Archiving is final, and each document a check-in needs *)
(* is read after it arrives: a check-in that arrived too late still has an *)
(* archived document ahead of it, so it never gets to its write.           *)

(* The documents the handler has yet to read.                              *)
Ahead(r) ==
    CASE pc[r] \in {"waiting", "receipt", "church"} -> NeededBy(slot[r])
      [] pc[r] = "member" -> NeededBy(slot[r]) \ {Church}
      [] pc[r] = "occurrence" -> {slot[r][1], EventOf[slot[r][1]]}
      [] pc[r] = "event" -> {EventOf[slot[r][1]]}
      [] OTHER -> {}

Late(r) == op[r] = "CheckIn" /\ arrival[r].shut

LateBlocked ==
    \A r \in Requests :
        Late(r) => /\ answer[r] # "created"
                   /\ pc[r] # "done" => \E d \in Ahead(r) : status[d] = "archived"

LateInv == VersionInv /\ LateBlocked

LEMMA LateInvStep == LateInv /\ [Next]_vars => LateInv'
  <1> SUFFICES ASSUME LateInv, [Next]_vars
               PROVE  LateInv'
    OBVIOUS
  <1>1. TypeInv /\ HandlersHold /\ VersionInv'
    BY VersionInvStep DEF LateInv, VersionInv
  <1>2. ASSUME NEW r \in Requests, Handle(r)
        PROVE  LateBlocked'
    <2> SUFFICES ASSUME NEW q \in Requests, Late(q)'
                 PROVE  /\ answer'[q] # "created"
                        /\ pc'[q] # "done" => \E d \in Ahead(q)' : status'[d] = "archived"
      BY DEF LateBlocked
    <2>1. UNCHANGED <<status, op, slot>>
      BY <1>2
         DEF Handle, Arrive, ReadForCheckIn, ReadForUndo, ReadChurch, ReadMember,
             ReadOccurrence, ReadEvent, CreateReceipt, ReadConflict, RestoreReceipt,
             VoidReceipt, ReplaceReceipt, directory, call
    <2>2. CASE q # r
      <3>1. pc'[q] = pc[q] /\ answer'[q] = answer[q] /\ arrival'[q] = arrival[q]
        BY <1>1, <1>2, <2>2, StepShape
      <3>2. QED
        BY <3>1, <2>1 DEF LateInv, LateBlocked, Late, Ahead, NeededBy
    <2>3. CASE q = r /\ Arrive(r)
      <3>1. pc'[q] = "receipt" /\ answer'[q] = answer[q]
        BY <2>3, <1>1 DEF Arrive, Await, TypeInv, TypeOK, HandlerOK
      <3>2. arrival'[q].shut = (\E d \in NeededBy(slot[q]) : status[d] = "archived")
        BY <2>3, <1>1 DEF Arrive, TypeInv, TypeOK, RequestOK
      <3>3. answer[q] # "created"
        BY <2>3, <1>1 DEF Arrive, HandlersHold
      <3>4. QED
        BY <3>1, <3>2, <3>3, <2>1 DEF Late, Ahead, NeededBy
    <2>4. CASE q = r /\ ~Arrive(r)
      <3>1. UNCHANGED arrival
        BY <1>2, <2>4
           DEF Handle, ReadForCheckIn, ReadForUndo, ReadChurch, ReadMember,
               ReadOccurrence, ReadEvent, CreateReceipt, ReadConflict, RestoreReceipt,
               VoidReceipt, ReplaceReceipt
      <3>2. Late(r)
        BY <3>1, <2>1, <2>4 DEF Late
      <3>3. /\ slot[r] \in Slots /\ pc \in [Requests -> Steps]
            /\ answer \in [Requests -> Answers] /\ answer[r] # "created"
            /\ pc[r] # "done" => \E d \in Ahead(r) : status[d] = "archived"
        BY <3>2, <1>1 DEF LateInv, LateBlocked, TypeInv, TypeOK, HandlerOK, RequestOK
      <3> USE DEF Ahead, NeededBy, Answer, Await
      <3>4. CASE ReadForCheckIn(r)
        BY <2>1, <2>4, <3>3, <3>4 DEF ReadForCheckIn
      <3>5. CASE ReadForUndo(r)
        BY <3>2, <3>5 DEF ReadForUndo, Late
      <3>6. CASE ReadChurch(r)
        BY <2>1, <2>4, <3>3, <3>6 DEF ReadChurch, RefusedUnless
      <3>7. CASE ReadMember(r)
        BY <2>1, <2>4, <3>3, <3>7 DEF ReadMember, RefusedUnless
      <3>8. CASE ReadOccurrence(r)
        BY <2>1, <2>4, <3>3, <3>8 DEF ReadOccurrence, RefusedUnless
      <3>9. CASE ReadEvent(r)
        BY <2>1, <2>4, <3>3, <3>9 DEF ReadEvent, RefusedUnless
      <3>10. CASE CreateReceipt(r)
        BY <3>3, <3>10 DEF CreateReceipt
      <3>11. CASE ReadConflict(r)
        BY <2>1, <2>4, <3>3, <3>11 DEF ReadConflict
      <3>12. CASE RestoreReceipt(r)
        BY <3>3, <3>12 DEF RestoreReceipt, ReplaceReceipt
      <3>13. CASE VoidReceipt(r)
        BY <3>2, <3>13 DEF VoidReceipt, Late
      <3>14. QED
        BY <1>2, <2>4, <3>4, <3>5, <3>6, <3>7, <3>8, <3>9, <3>10, <3>11, <3>12, <3>13
           DEF Handle
    <2>5. QED
      BY <2>2, <2>3, <2>4
  <1>3. CASE ChangeDirectory \/ UNCHANGED vars
    <2>1. UNCHANGED <<op, slot, pc, answer, arrival>>
      BY <1>3, RestShape DEF call, handler
    <2>2. \A d \in Documents : status[d] = "archived" => status'[d] = "archived"
      <3>1. status \in [Documents -> {"missing", "active", "archived"}]
        BY <1>1 DEF TypeInv, TypeOK, DirectoryOK
      <3>2. CASE \E d \in Documents : CreateDocument(d) \/ ArchiveDocument(d)
        BY <3>1, <3>2 DEF CreateDocument, ArchiveDocument
      <3>3. CASE UNCHANGED status
        BY <3>3
      <3>4. QED
        BY <1>3, <3>2, <3>3 DEF ChangeDirectory, Regroup, Override, vars, directory
    <2>3. \A r \in Requests : Ahead(r) \subseteq Documents
      BY <1>1, EventOfType
         DEF Ahead, NeededBy, Documents, TypeInv, TypeOK, RequestOK, Slots
    <2>4. ASSUME NEW r \in Requests, Late(r)'
          PROVE  /\ answer'[r] # "created"
                 /\ pc'[r] # "done" => \E d \in Ahead(r)' : status'[d] = "archived"
      <3>1. Late(r) /\ Ahead(r)' = Ahead(r)
        BY <2>1, <2>4 DEF Late, Ahead, NeededBy
      <3>2. /\ answer[r] # "created"
            /\ pc[r] # "done" => \E d \in Ahead(r) : status[d] = "archived"
        BY <3>1 DEF LateInv, LateBlocked
      <3>3. QED
        BY <3>1, <3>2, <2>1, <2>2, <2>3
    <2>5. QED
      BY <1>1, <2>4 DEF LateInv, LateBlocked
  <1>4. QED
    BY <1>1, <1>2, <1>3 DEF Next, LateInv

LEMMA LateInvInit == Init => LateInv
  BY VersionInvInit DEF Init, LateInv, LateBlocked, Late

(* No check-in that arrives after an archive makes an entry.               *)
THEOREM LateCheckInsRefused == Spec => []LateCheckInRefused
  <1>1. LateInv => LateCheckInRefused
    BY DEF LateInv, LateBlocked, Late, LateCheckInRefused
  <1>2. QED
    BY LateInvInit, LateInvStep, <1>1, PTL DEF Spec

-----------------------------------------------------------------------------
(* Refinement.  An accepted write is one entry of the ledger, made on the  *)
(* receipt the handler holds, which is the stored one; every other step    *)
(* stutters.                                                               *)

Ended(r, outcome) == answer' = [answer EXCEPT ![r] = outcome]

(* A step that writes no receipt grants nothing.                           *)
LEMMA QuietStep ==
    ASSUME TypeInv, UNCHANGED <<receipt, slot>>,
           \/ UNCHANGED answer
           \/ \E r \in Requests, outcome \in Answers \ Granted :
                  pc[r] # "done" /\ answer[r] = "none" /\ Ended(r, outcome)
    PROVE  UNCHANGED Ledger!vars
  <1>1. {r \in Requests : answer'[r] \in Granted} = {r \in Requests : answer[r] \in Granted}
    BY DEF TypeInv, TypeOK, HandlerOK, Ended, Granted
  <1>2. QED
    BY <1>1 DEF Ledger!vars

(* An accepted check-in of an absent member.                               *)
LEMMA AttendStep ==
    ASSUME TypeInv, NEW r \in Requests, answer[r] = "none", Ended(r, "created"),
           NEW doc \in Receipts, doc.active, doc.at = r,
           receipt[slot[r]] # NoReceipt => ~receipt[slot[r]].active,
           doc.audit = Append(IF receipt[slot[r]] = NoReceipt THEN <<>>
                              ELSE receipt[slot[r]].audit, Entry(r, "checked_in")),
           Put(slot[r], doc)
    PROVE  Ledger!Next
  <1>1. /\ slot[r] \in Slots /\ receipt \in [Slots -> Receipts \cup {NoReceipt}]
        /\ answer \in [Requests -> Answers]
    BY DEF TypeInv, TypeOK, HandlerOK, AttendanceOK, RequestOK
  <1>2. receipt' = [receipt EXCEPT ![slot[r]] = doc]
    BY DEF Put
  <1>3. doc # NoReceipt /\ doc.groups \in Snapshots
    BY NoReceiptType DEF Receipts
  <1>4. Ledger!Enter(r, slot[r], "checked_in")
    BY <1>1, <1>2, <1>3 DEF Ledger!Enter, Ended, Granted, Entry
  <1>5. Ledger!Attend(r, slot[r], doc.groups)
    BY <1>1, <1>2, <1>3, <1>4 DEF Ledger!Attend
  <1>6. QED
    BY <1>1, <1>3, <1>5 DEF Ledger!Next

(* An accepted undo of a present member.                                   *)
LEMMA LeaveStep ==
    ASSUME TypeInv, NEW r \in Requests, answer[r] = "none", Ended(r, "undone"),
           NEW doc \in Receipts, ~doc.active,
           receipt[slot[r]] # NoReceipt, receipt[slot[r]].active,
           doc.audit = Append(receipt[slot[r]].audit, Entry(r, "undone")),
           Put(slot[r], doc)
    PROVE  Ledger!Next
  <1>1. /\ slot[r] \in Slots /\ receipt \in [Slots -> Receipts \cup {NoReceipt}]
        /\ answer \in [Requests -> Answers]
    BY DEF TypeInv, TypeOK, HandlerOK, AttendanceOK, RequestOK
  <1>2. receipt' = [receipt EXCEPT ![slot[r]] = doc]
    BY DEF Put
  <1>3. doc # NoReceipt
    BY NoReceiptType
  <1>4. Ledger!Enter(r, slot[r], "undone")
    BY <1>1, <1>2, <1>3 DEF Ledger!Enter, Ended, Granted, Entry
  <1>5. [groups |-> receipt[slot[r]].groups, at |-> receipt[slot[r]].at] # NoReceipt
    BY <1>1, NoReceiptType DEF Receipts
  <1>6. Ledger!Leave(r, slot[r])
    BY <1>1, <1>2, <1>3, <1>4, <1>5 DEF Ledger!Leave
  <1>7. QED
    BY <1>1, <1>6 DEF Ledger!Next, Ledger!Leave

LEMMA LedgerInit == Init => Ledger!Init
  BY DEF Init, Ledger!Init, Granted

LEMMA LedgerStep == VersionInv /\ [Next]_vars => [Ledger!Next]_(Ledger!vars)
  <1> SUFFICES ASSUME VersionInv, [Next]_vars
               PROVE  Ledger!Next \/ UNCHANGED Ledger!vars
    OBVIOUS
  <1>1. TypeInv
    BY DEF VersionInv
  <1>2. ASSUME NEW r \in Requests, Handle(r)
        PROVE  Ledger!Next \/ UNCHANGED Ledger!vars
    <2>1. pc[r] # "done" /\ answer[r] = "none"
      BY <1>2
         DEF Handle, Arrive, ReadForCheckIn, ReadForUndo, ReadChurch, ReadMember,
             ReadOccurrence, ReadEvent, CreateReceipt, ReadConflict, RestoreReceipt,
             VoidReceipt, ReplaceReceipt, VersionInv, HandlersHold
    <2>2. CASE CreateReceipt(r)
      <3>1. CASE Store!MayCreate(receipt[slot[r]])
        <4>1. NewReceipt(r) \in Receipts
          BY <1>1, WrittenReceipts
        <4>2. /\ Put(slot[r], NewReceipt(r)) /\ Ended(r, "created")
              /\ receipt[slot[r]] = NoReceipt
          BY <2>2, <3>1 DEF CreateReceipt, Answer, Ended, Store!MayCreate
        <4>3. /\ NewReceipt(r).active /\ NewReceipt(r).at = r
              /\ NewReceipt(r).audit = Append(<<>>, Entry(r, "checked_in"))
          BY DEF NewReceipt
        <4>4. QED
          BY <1>1, <2>1, <4>1, <4>2, <4>3, AttendStep
      <3>2. CASE ~Store!MayCreate(receipt[slot[r]])
        BY <1>1, <2>2, <3>2, QuietStep DEF CreateReceipt, attendance, call
      <3>3. QED
        BY <3>1, <3>2
    <2>3. CASE RestoreReceipt(r)
      <3>1. CASE Store!MayReplace(receipt[slot[r]], seen[r].etag)
        <4>1. receipt[slot[r]] = seen[r] /\ seen[r] # NoReceipt /\ ~seen[r].active
          BY <2>1, <2>3, <3>1
             DEF RestoreReceipt, ReplaceReceipt, VersionInv, ETagNamesVersion, HandlersHold
        <4>2. Restored(r) \in Receipts /\ seen[r] \in Receipts
          BY <1>1, <4>1, WrittenReceipts DEF TypeInv, TypeOK, HandlerOK
        <4>3. Put(slot[r], Restored(r)) /\ Ended(r, "created")
          BY <2>3, <3>1 DEF RestoreReceipt, ReplaceReceipt, Answer, Ended
        <4>4. /\ Restored(r).active /\ Restored(r).at = r
              /\ Restored(r).audit = Append(seen[r].audit, Entry(r, "checked_in"))
          BY <4>2 DEF Restored, Receipts
        <4>5. QED
          BY <1>1, <2>1, <4>1, <4>2, <4>3, <4>4, AttendStep
      <3>2. CASE ~Store!MayReplace(receipt[slot[r]], seen[r].etag)
        BY <1>1, <2>1, <2>3, <3>2, QuietStep
           DEF RestoreReceipt, ReplaceReceipt, Answer, Ended, Store!ReplaceRefusal,
               Answers, Granted, Refusals, attendance, call
      <3>3. QED
        BY <3>1, <3>2
    <2>4. CASE VoidReceipt(r)
      <3>1. CASE Store!MayReplace(receipt[slot[r]], seen[r].etag)
        <4>1. receipt[slot[r]] = seen[r] /\ seen[r] # NoReceipt /\ seen[r].active
          BY <1>1, <2>1, <2>4, <3>1
             DEF VoidReceipt, ReplaceReceipt, VersionInv, ETagNamesVersion, HandlersHold,
                 TypeInv, UndoHoldsReceipt
        <4>2. Voided(r) \in Receipts /\ seen[r] \in Receipts
          BY <1>1, <4>1, WrittenReceipts DEF TypeInv, TypeOK, HandlerOK
        <4>3. Put(slot[r], Voided(r)) /\ Ended(r, "undone")
          BY <2>4, <3>1 DEF VoidReceipt, ReplaceReceipt, Answer, Ended
        <4>4. /\ ~Voided(r).active
              /\ Voided(r).audit = Append(seen[r].audit, Entry(r, "undone"))
          BY <4>2 DEF Voided, Receipts
        <4>5. QED
          BY <1>1, <2>1, <4>1, <4>2, <4>3, <4>4, LeaveStep
      <3>2. CASE ~Store!MayReplace(receipt[slot[r]], seen[r].etag)
        BY <1>1, <2>1, <2>4, <3>2, QuietStep
           DEF VoidReceipt, ReplaceReceipt, Answer, Ended, Store!ReplaceRefusal,
               Answers, Granted, Refusals, attendance, call
      <3>3. QED
        BY <3>1, <3>2
    <2>5. CASE Arrive(r) \/ ReadForCheckIn(r) \/ ReadForUndo(r) \/ ReadConflict(r)
      BY <1>1, <2>1, <2>5, QuietStep
         DEF Arrive, ReadForCheckIn, ReadForUndo, ReadConflict, Answer, Ended, Answers,
             Granted, Refusals, attendance, call
    <2>6. CASE ReadChurch(r) \/ ReadMember(r) \/ ReadOccurrence(r) \/ ReadEvent(r)
      BY <1>1, <2>1, <2>6, QuietStep
         DEF ReadChurch, ReadMember, ReadOccurrence, ReadEvent, RefusedUnless, Answer,
             Ended, Answers, Granted, Refusals, attendance, call
    <2>7. QED
      BY <1>2, <2>2, <2>3, <2>4, <2>5, <2>6 DEF Handle
  <1>3. CASE ChangeDirectory \/ UNCHANGED vars
    BY <1>1, <1>3, RestShape, QuietStep DEF attendance, call, handler
  <1>4. QED
    BY <1>2, <1>3 DEF Next

(* The handlers, whatever interleaves, implement the ledger.               *)
THEOREM CheckInsImplementLedger == Spec => ImplementsLedger
  BY VersionInvInit, VersionInvStep, LedgerInit, LedgerStep, PTL
     DEF Spec, ImplementsLedger, Ledger!Spec

-----------------------------------------------------------------------------
(* Recoverability.  A check-in goes past its first read only when that     *)
(* read found the member absent; then the receipt stored is a later        *)
(* version than the active one that was there when it arrived.             *)

Had(r) == arrival[r].receipt

MovedOn(r) == receipt[slot[r]].etag > Had(r).etag

Since(r) ==
    /\ receipt[slot[r]] # NoReceipt
    /\ receipt[slot[r]] = Had(r) \/ MovedOn(r)
    /\ /\ op[r] = "CheckIn" /\ Had(r).active
       /\ pc[r] # "receipt"
       /\ pc[r] # "done" \/ answer[r] \in Refusals
       => MovedOn(r)

SinceArrival ==
    \A r \in Requests : pc[r] # "waiting" /\ Had(r) # NoReceipt => Since(r)

RecoverInv == VersionInv /\ SinceArrival

LEMMA RecoverInvStep == RecoverInv /\ [Next]_vars => RecoverInv'
  <1> SUFFICES ASSUME RecoverInv, [Next]_vars
               PROVE  RecoverInv'
    OBVIOUS
  <1>1. TypeInv /\ StoredVersions /\ VersionInv'
    BY VersionInvStep DEF RecoverInv, VersionInv
  <1>2. /\ slot \in [Requests -> Slots] /\ version \in [Slots -> Nat]
        /\ receipt \in [Slots -> Receipts \cup {NoReceipt}]
        /\ \A r \in Requests : Had(r) \in Receipts \cup {NoReceipt}
        /\ \A doc \in Receipts : doc.etag \in Nat /\ doc # NoReceipt
    BY <1>1, NoReceiptType
       DEF TypeInv, TypeOK, AttendanceOK, RequestOK, Had, Receipts
  <1>3. ASSUME NEW r \in Requests, Handle(r)
        PROVE  SinceArrival'
    <2> SUFFICES ASSUME NEW q \in Requests, pc'[q] # "waiting", Had(q)' # NoReceipt
                 PROVE  Since(q)'
      BY DEF SinceArrival
    <2>1. UNCHANGED <<op, slot>>
      BY <1>1, <1>3, StepShape DEF call
    <2>2. CASE \E doc \in Receipts : Writes(r, doc)
      <3>1. PICK doc \in Receipts : Writes(r, doc)
        BY <2>2
      <3>2. ~Arrive(r) /\ pc[q] # "waiting" /\ Had(q)' = Had(q)
        BY <1>1, <1>3, <2>2, StepShape
           DEF Handle, Arrive, ReadForCheckIn, ReadForUndo, ReadChurch, ReadMember,
               ReadOccurrence, ReadEvent, CreateReceipt, ReadConflict, RestoreReceipt,
               VoidReceipt, ReplaceReceipt, Had, Writes, Await, TypeInv, TypeOK, HandlerOK
      <3>3. Since(q)
        BY <3>2 DEF RecoverInv, SinceArrival
      <3>4. CASE slot[q] = slot[r]
        <4>1. receipt'[slot[q]] = doc /\ doc.etag = version[slot[q]] + 1
          BY <3>1, <3>4, <1>2 DEF Writes, Put, NextETag
        <4>2. receipt[slot[q]].etag <= version[slot[q]]
          BY <1>1, <1>2, <3>3 DEF StoredVersions, Since
        <4>3. Had(q) \in Receipts
          BY <1>2, <3>2
        <4>4. receipt[slot[q]] \in Receipts /\ doc # NoReceipt
          BY <1>2, <3>3 DEF Since
        <4>5. Had(q).etag <= receipt[slot[q]].etag
          BY <1>2, <3>3, <4>3, <4>4 DEF Since, MovedOn
        <4>6. version[slot[q]] \in Nat /\ Had(q).etag \in Nat /\ receipt[slot[q]].etag \in Nat
          BY <1>2, <4>3, <4>4
        <4>7. doc.etag > Had(q).etag
          BY <4>1, <4>2, <4>5, <4>6
        <4>8. QED
          BY <2>1, <3>2, <4>1, <4>4, <4>7 DEF Since, MovedOn
      <3>5. CASE slot[q] # slot[r]
        <4>1. receipt'[slot[q]] = receipt[slot[q]]
          BY <3>1, <3>5, <1>2 DEF Writes, Put
        <4>2. pc'[q] = pc[q] /\ answer'[q] = answer[q]
          BY <1>1, <1>3, <3>5, StepShape
        <4>3. QED
          BY <2>1, <3>2, <3>3, <4>1, <4>2 DEF Since, MovedOn
      <3>6. QED
        BY <3>4, <3>5
    <2>3. CASE UNCHANGED attendance /\ q # r
      <3>1. /\ pc'[q] = pc[q] /\ answer'[q] = answer[q] /\ Had(q)' = Had(q)
            /\ UNCHANGED receipt
        BY <1>1, <1>3, <2>3, StepShape DEF Had, attendance
      <3>2. Since(q)
        BY <3>1 DEF RecoverInv, SinceArrival
      <3>3. QED
        BY <2>1, <3>1, <3>2 DEF Since, MovedOn
    <2>4. CASE Arrive(r) /\ q = r
      BY <1>1, <1>2, <2>1, <2>4
         DEF Arrive, Await, Since, Had, TypeInv, TypeOK, HandlerOK, RequestOK, attendance
    <2>5. CASE UNCHANGED attendance /\ q = r /\ ~Arrive(r)
      <3>1. /\ pc[r] \notin {"waiting", "done"} /\ UNCHANGED arrival
            /\ pc[r] = "receipt" => ReadForCheckIn(r) \/ ReadForUndo(r)
            /\ pc'[r] # "receipt"
        BY <1>1, <1>3, <2>5
           DEF Handle, ReadForCheckIn, ReadForUndo, ReadChurch, ReadMember,
               ReadOccurrence, ReadEvent, CreateReceipt, ReadConflict, RestoreReceipt,
               VoidReceipt, ReplaceReceipt, Await, Answer, TypeInv, TypeOK, HandlerOK
      <3>2. Since(q) /\ Had(q)' = Had(q)
        BY <2>5, <3>1 DEF RecoverInv, SinceArrival, Had
      <3>3. CASE pc[r] # "receipt"
        BY <2>1, <2>5, <3>1, <3>2, <3>3 DEF Since, MovedOn, attendance
      <3>4. CASE pc[r] = "receipt" /\ receipt[slot[r]].active /\ op[r] = "CheckIn"
        <4>1. answer'[r] = "already" /\ pc'[r] = "done"
          BY <1>1, <2>5, <3>1, <3>2, <3>4
             DEF ReadForCheckIn, ReadForUndo, Answer, Since, TypeInv, TypeOK, HandlerOK
        <4>2. QED
          BY <2>1, <2>5, <3>2, <4>1 DEF Since, MovedOn, Refusals, attendance
      <3>5. CASE pc[r] = "receipt" /\ ~(receipt[slot[r]].active /\ op[r] = "CheckIn")
        BY <2>1, <2>5, <3>1, <3>2, <3>5 DEF Since, MovedOn, attendance
      <3>6. QED
        BY <3>3, <3>4, <3>5
    <2>6. QED
      BY <1>1, <1>3, <2>2, <2>3, <2>4, <2>5, StepShape
  <1>4. CASE ChangeDirectory \/ UNCHANGED vars
    BY <1>1, <1>4, RestShape
       DEF RecoverInv, SinceArrival, Since, MovedOn, Had, attendance, call, handler
  <1>5. QED
    BY <1>1, <1>3, <1>4 DEF Next, RecoverInv

LEMMA RecoverInvInit == Init => RecoverInv
  BY VersionInvInit DEF Init, RecoverInv, SinceArrival

(* A saved receipt stays recoverable through any change of the directory.  *)
THEOREM SavedReceiptsRecoverable == Spec => []SavedReceiptRecoverable
  <1>1. RecoverInv => SavedReceiptRecoverable
    <2> SUFFICES ASSUME RecoverInv, NEW r \in Requests, op[r] = "CheckIn",
                        Had(r) # NoReceipt, Had(r).active, Had(r) = receipt[slot[r]],
                        answer[r] \in Refusals
                 PROVE  FALSE
      BY DEF SavedReceiptRecoverable, Had
    <2>1. TypeInv /\ pc[r] = "done"
      BY DEF RecoverInv, VersionInv, HandlersHold, Refusals
    <2>2. Had(r) \in Receipts /\ Had(r).etag \in Nat
      BY <2>1 DEF TypeInv, TypeOK, RequestOK, Had, Receipts
    <2>3. MovedOn(r)
      BY <2>1 DEF RecoverInv, SinceArrival, Since
    <2>4. QED
      BY <2>2, <2>3 DEF MovedOn
  <1>2. QED
    BY RecoverInvInit, RecoverInvStep, <1>1, PTL DEF Spec

=============================================================================

--------------------------- MODULE MemberMerge_proofs ---------------------------
(***************************************************************************)
(* Proofs about MemberMerge for any merges, requests, members, codes and   *)
(* occurrences, and any bound on directory changes.                        *)
(***************************************************************************)
EXTENDS MemberMerge, CheckIns_proofs, FiniteSetTheorems

-----------------------------------------------------------------------------
(* Types.                                                                  *)

Stages ==
    {"waiting", "load_keeper", "load_loser", "release", "save_church", "save_read", "save_groups",
     "save", "gather_keeper", "gather_loser", "move", "archive_church", "archive_read", "archive",
     "done"}
Saving == {"release", "save_church", "save_read", "save_groups", "save"}
Loading == {"waiting", "load_keeper", "load_loser"}

Outcomes ==
    {"none", "merged", "not_found", "archived", "stale_version", "scan_code_conflict",
     "already_exists"}

(* What a merge that was called with `given` holds before its next await.  *)
Fits(given, step, held) ==
    /\ step # "waiting" => given # None
    /\ step \in Saving => given.update # None
    /\ step = "load_loser" => held.keep # None
    /\ step \notin Loading \cup {"done"} =>
           held.keep # None /\ held.lose # None /\ held.keep.active
    /\ step = "release" => held.lose.active
    /\ step = "move" =>
           \A o \in held.todo : held.losers[o] # NoReceipt /\ held.losers[o].active
    /\ step = "gather_loser" =>
           \A o \in Occurrences \ held.todo : held.losers[o] = ActiveOnly(held.losers[o])

(* The documents, and the merges.                                          *)
DataOK ==
    /\ TypeInv
    /\ tag \in [Members -> Nat]
    /\ code \in [Members -> Codes \cup {None}]
    /\ retired \in Snapshots

ControlOK ==
    /\ MergeRecordsOK
    /\ \A x \in Merges : Keep(x) # Lose(x)
    /\ stage \in [Merges -> Stages]
    /\ result \in [Merges -> Outcomes]
    /\ gathered \in [Merges -> [Occurrences -> Nat]]
    /\ \A x \in Merges : Fits(sent[x], stage[x], work[x])
    /\ \A x \in Merges : result[x] # "none" => stage[x] = "done"

MergeTypeInv == DataOK /\ ControlOK

LEMMA MergeParts ==
    ASSUME MergeTypeInv, NEW x \in Merges
    PROVE  /\ Keep(x) \in Members /\ Lose(x) \in Members /\ Keep(x) # Lose(x)
           /\ work[x] \in Held /\ sent[x] \in MergeCalls \cup {None}
           /\ \A m \in Members : Doc(m) \in MemberDocs /\ Doc(m) # None
           /\ \A o \in Occurrences : /\ KeeperSlot(x, o) \in Slots /\ LoserSlot(x, o) \in Slots
                                     /\ receipt[KeeperSlot(x, o)] \in Receipts \cup {NoReceipt}
                                     /\ receipt[LoserSlot(x, o)] \in Receipts \cup {NoReceipt}
  <1>1. Keep(x) \in Members /\ Lose(x) \in Members /\ Keep(x) # Lose(x)
    BY DEF MergeTypeInv, ControlOK, MergeRecordsOK, Keep, Lose
  <1>2. work[x] \in Held /\ sent[x] \in MergeCalls \cup {None}
    BY DEF MergeTypeInv, ControlOK, MergeRecordsOK
  <1>3. \A m \in Members : Doc(m) \in MemberDocs
    BY DEF MergeTypeInv, DataOK, TypeInv, TypeOK, DirectoryOK, Doc, MemberDocs
  <1>4. \A m \in Members : Doc(m) # None
    BY <1>3, NoneType
  <1>5. \A s \in Slots : receipt[s] \in Receipts \cup {NoReceipt}
    BY DEF MergeTypeInv, DataOK, TypeInv, TypeOK, AttendanceOK
  <1>6. \A o \in Occurrences : KeeperSlot(x, o) \in Slots /\ LoserSlot(x, o) \in Slots
    BY <1>1 DEF KeeperSlot, LoserSlot, Slots
  <1>7. QED
    BY <1>1, <1>2, <1>3, <1>4, <1>5, <1>6

LEMMA MergeTypes == MergeTypeInv => MergeTypeOK
  <1> SUFFICES ASSUME MergeTypeInv PROVE MergeTypeOK
    OBVIOUS
  <1>1. /\ TypeOK /\ tag \in [Members -> Nat] /\ code \in [Members -> Codes \cup {None}]
        /\ retired \in Snapshots
    BY DEF MergeTypeInv, DataOK, TypeInv
  <1>2. \A x \in Merges : Fits(sent[x], stage[x], work[x])
    BY DEF MergeTypeInv, ControlOK
  <1>3. QED
    BY <1>1, <1>2 DEF MergeTypeOK, MergeTypeInv, ControlOK, Fits, Loading

(* A merge that goes on keeps its type if what it holds fits its next      *)
(* await; one that ends always does.  The others are not touched.          *)
Untouched(y) ==
    /\ stage'[y] = stage[y] /\ work'[y] = work[y] /\ result'[y] = result[y]
    /\ sent'[y] = sent[y] /\ pair'[y] = pair[y] /\ gathered'[y] = gathered[y]

LEMMA ProceedKeepsControl ==
    ASSUME ControlOK, NEW x \in Merges, NEW step \in Stages, NEW held \in Held,
           Proceed(x, step, held), stage[x] # "done",
           NEW given \in MergeCalls \cup {None}, Fits(given, step, held),
           sent' = [sent EXCEPT ![x] = given],
           UNCHANGED pair, gathered' \in [Merges -> [Occurrences -> Nat]],
           \A y \in Merges \ {x} : gathered'[y] = gathered[y]
    PROVE  ControlOK' /\ \A y \in Merges \ {x} : Untouched(y)
  <1>1. \A y \in Merges \ {x} : Untouched(y)
    BY DEF ControlOK, MergeRecordsOK, Proceed, Untouched
  <1>2. MergeRecordsOK' /\ stage' \in [Merges -> Stages]
    BY DEF ControlOK, MergeRecordsOK, Proceed
  <1>3. stage'[x] = step /\ work'[x] = held /\ sent'[x] = given /\ result' = result
    BY DEF ControlOK, MergeRecordsOK, Proceed
  <1>4. \A y \in Merges : Fits(sent[y], stage[y], work[y])'
    BY <1>1, <1>3 DEF ControlOK, Untouched, Fits, ActiveOnly
  <1>5. \A y \in Merges : result'[y] # "none" => stage'[y] = "done"
    BY <1>1, <1>3 DEF ControlOK, Untouched
  <1>6. QED
    BY <1>1, <1>2, <1>3, <1>4, <1>5 DEF ControlOK, Keep, Lose

LEMMA IdleType == Idle \in Held
  BY DEF Idle, Held, Snapshots

LEMMA EndKeepsControl ==
    ASSUME ControlOK, NEW x \in Merges, NEW outcome \in Outcomes, End(x, outcome),
           stage[x] # "waiting", UNCHANGED <<pair, sent, gathered>>
    PROVE  ControlOK' /\ \A y \in Merges \ {x} : Untouched(y)
  <1>1. \A y \in Merges \ {x} : Untouched(y)
    BY DEF ControlOK, MergeRecordsOK, End, Untouched
  <1>2. MergeRecordsOK' /\ stage' \in [Merges -> Stages] /\ result' \in [Merges -> Outcomes]
    BY IdleType DEF ControlOK, MergeRecordsOK, End, Stages
  <1>3. stage'[x] = "done" /\ sent'[x] = sent[x] /\ sent[x] # None
    BY DEF ControlOK, End, Fits
  <1>4. \A y \in Merges : Fits(sent[y], stage[y], work[y])'
    BY <1>1, <1>3 DEF ControlOK, Untouched, Fits, ActiveOnly, Saving, Loading
  <1>5. \A y \in Merges : result'[y] # "none" => stage'[y] = "done"
    BY <1>1, <1>3 DEF ControlOK, Untouched
  <1>6. QED
    BY <1>1, <1>2, <1>4, <1>5 DEF ControlOK, Keep, Lose

-----------------------------------------------------------------------------
(* What a step does to the documents: a member's is left alone or gets its *)
(* next ETag; a receipt is left alone, written with the slot's next ETag,  *)
(* or removed.  Nothing that is archived becomes active, see StayArchived. *)

MemberMoves(m) ==
    \/ Doc(m)' = Doc(m) /\ status'[m] = status[m]
    \/ tag'[m] = tag[m] + 1

SlotMoves(s) ==
    \/ receipt'[s] = receipt[s] /\ version'[s] = version[s]
    \/ /\ receipt'[s] # NoReceipt /\ receipt'[s].etag = version[s] + 1
       /\ version'[s] = version[s] + 1
    \/ receipt'[s] = NoReceipt /\ version'[s] = version[s]

DataMoves ==
    /\ DataOK'
    /\ \A m \in Members : MemberMoves(m)
    /\ \A s \in Slots : SlotMoves(s)

LEMMA NothingMoves ==
    ASSUME DataOK, UNCHANGED Shared, UNCHANGED <<call, handler, arrival>>
    PROVE  DataMoves
  <1>1. UNCHANGED <<vars, details>>
    BY DEF Shared, vars, details
  <1>2. TypeInv'
    BY <1>1, TypeInvStep DEF DataOK
  <1>3. DataOK'
    BY <1>1, <1>2 DEF DataOK, details
  <1>4. UNCHANGED <<status, groups, tag, code, receipt, version>>
    BY <1>1 DEF vars, details, directory, attendance
  <1>5. QED
    BY <1>3, <1>4 DEF DataMoves, MemberMoves, SlotMoves, Doc

LEMMA PutMemberMoves ==
    ASSUME DataOK, NEW m \in Members, NEW doc \in MemberDocs, PutMember(m, doc),
           UNCHANGED <<attendance, call, handler, arrival>>
    PROVE  DataMoves
  <1>1. DirectoryOK'
    BY DEF DataOK, TypeInv, TypeOK, DirectoryOK, PutMember, MemberDocs
  <1>2. AttendanceOK' /\ RequestOK' /\ HandlerOK' /\ UndoHoldsReceipt'
    BY DEF DataOK, TypeInv, TypeOK, AttendanceOK, RequestOK, HandlerOK, UndoHoldsReceipt,
           attendance, call, handler
  <1>3. /\ tag' \in [Members -> Nat] /\ code' \in [Members -> Codes \cup {None}]
        /\ retired' \in Snapshots
    BY DEF DataOK, PutMember, MemberDocs
  <1>4. \A n \in Members : MemberMoves(n)
    BY DEF DataOK, TypeInv, TypeOK, DirectoryOK, PutMember, MemberMoves, Doc
  <1>5. \A s \in Slots : SlotMoves(s)
    BY DEF SlotMoves, attendance
  <1>6. QED
    BY <1>1, <1>2, <1>3, <1>4, <1>5 DEF DataMoves, DataOK, TypeInv, TypeOK

LEMMA ReceiptsMove ==
    ASSUME DataOK, UNCHANGED <<directory, details, call, handler, arrival>>,
           receipt' \in [Slots -> Receipts \cup {NoReceipt}], version' \in [Slots -> Nat],
           \A s \in Slots : SlotMoves(s)
    PROVE  DataMoves
  <1>1. DirectoryOK' /\ AttendanceOK' /\ RequestOK' /\ HandlerOK' /\ UndoHoldsReceipt'
    BY DEF DataOK, TypeInv, TypeOK, DirectoryOK, AttendanceOK, RequestOK, HandlerOK,
           UndoHoldsReceipt, directory, call, handler
  <1>2. UNCHANGED <<status, groups, tag, code, retired>>
    BY DEF details, directory
  <1>3. \A n \in Members : MemberMoves(n)
    BY <1>2 DEF MemberMoves, Doc
  <1>4. QED
    BY <1>1, <1>2, <1>3 DEF DataMoves, DataOK, TypeInv, TypeOK

LEMMA PutMoves ==
    ASSUME DataOK, NEW s \in Slots, NEW doc \in Receipts, doc.etag = version[s] + 1,
           Put(s, doc), UNCHANGED <<directory, details, call, handler, arrival>>
    PROVE  DataMoves
  <1>1. /\ receipt \in [Slots -> Receipts \cup {NoReceipt}] /\ version \in [Slots -> Nat]
        /\ doc # NoReceipt
    BY NoReceiptType DEF DataOK, TypeInv, TypeOK, AttendanceOK
  <1>2. receipt' \in [Slots -> Receipts \cup {NoReceipt}] /\ version' \in [Slots -> Nat]
    BY <1>1 DEF Put
  <1>3. \A t \in Slots : SlotMoves(t)
    BY <1>1 DEF Put, SlotMoves
  <1>4. QED
    BY <1>2, <1>3, ReceiptsMove

LEMMA PutInsteadMoves ==
    ASSUME DataOK, NEW s \in Slots, NEW t \in Slots, s # t, NEW doc \in Receipts,
           doc.etag = version[t] + 1, PutInstead(s, t, doc),
           UNCHANGED <<directory, details, call, handler, arrival>>
    PROVE  DataMoves
  <1>1. /\ receipt \in [Slots -> Receipts \cup {NoReceipt}] /\ version \in [Slots -> Nat]
        /\ doc # NoReceipt
    BY NoReceiptType DEF DataOK, TypeInv, TypeOK, AttendanceOK
  <1>2. receipt' \in [Slots -> Receipts \cup {NoReceipt}] /\ version' \in [Slots -> Nat]
    BY <1>1 DEF PutInstead
  <1>3. \A u \in Slots : SlotMoves(u)
    BY <1>1 DEF PutInstead, SlotMoves
  <1>4. QED
    BY <1>2, <1>3, ReceiptsMove

(* The check-in handlers and the directory's other handlers.               *)
LEMMA HandlersLeaveDirectory ==
    ASSUME NEW r \in Requests, Handle(r)
    PROVE  UNCHANGED directory
  BY DEF Handle, Arrive, ReadForCheckIn, ReadForUndo, ReadChurch, ReadMember, ReadOccurrence,
         ReadEvent, CreateReceipt, ReadConflict, RestoreReceipt, VoidReceipt, ReplaceReceipt

LEMMA HandleMoves ==
    ASSUME DataOK, NEW r \in Requests, Handle(r), UNCHANGED details
    PROVE  DataMoves
  <1>1. TypeInv'
    BY TypeInvStep DEF DataOK, Next
  <1>2. UNCHANGED <<status, groups, tag, code, retired>>
    BY HandlersLeaveDirectory DEF directory, details
  <1>3. \A m \in Members : MemberMoves(m)
    BY <1>2 DEF MemberMoves, Doc
  <1>4. /\ receipt \in [Slots -> Receipts \cup {NoReceipt}] /\ version \in [Slots -> Nat]
        /\ slot[r] \in Slots /\ NoReceipt \notin Receipts
    BY NoReceiptType DEF DataOK, TypeInv, TypeOK, AttendanceOK, RequestOK
  <1>5. \A s \in Slots : SlotMoves(s)
    <2>1. CASE UNCHANGED attendance
      BY <2>1 DEF SlotMoves, attendance
    <2>2. CASE \E doc \in Receipts : Writes(r, doc)
      BY <2>2, <1>4 DEF Writes, Put, NextETag, SlotMoves
    <2>3. QED
      BY <2>1, <2>2, StepShape DEF DataOK
  <1>6. QED
    BY <1>1, <1>2, <1>3, <1>5 DEF DataMoves, DataOK

LEMMA EditMoves ==
    ASSUME DataOK,
           \/ ArchiveDocument(Church) /\ UNCHANGED details
           \/ \E m \in Members : EditMember(m)
           \/ \E m \in Members, c \in Codes \cup {None} : Recode(m, c)
           \/ \E g \in Groups : RetireGroup(g)
    PROVE  DataMoves
  <1>1. UNCHANGED <<attendance, call, handler, arrival>>
    BY DEF EditMember, Recode, RetireGroup, ArchiveDocument, Regroup, Edit
  <1>2. \A s \in Slots : SlotMoves(s)
    BY <1>1 DEF SlotMoves, attendance
  <1>3. AttendanceOK' /\ RequestOK' /\ HandlerOK' /\ UndoHoldsReceipt'
    BY <1>1 DEF DataOK, TypeInv, TypeOK, AttendanceOK, RequestOK, HandlerOK, UndoHoldsReceipt,
                attendance, call, handler
  <1>4. DirectoryOK'
    BY MaxEditsType
       DEF DataOK, TypeInv, TypeOK, DirectoryOK, EditMember, Recode, RetireGroup, ArchiveDocument,
           Regroup, Edit
  <1>5. /\ tag' \in [Members -> Nat] /\ code' \in [Members -> Codes \cup {None}]
        /\ retired' \in Snapshots
    BY DEF DataOK, EditMember, Recode, RetireGroup, Snapshots, details
  <1>6. \A m \in Members : MemberMoves(m)
    <2>1. CASE ArchiveDocument(Church) /\ UNCHANGED details
      BY <2>1, MembersType
         DEF ArchiveDocument, MemberMoves, Doc, details, DataOK, TypeInv, TypeOK, DirectoryOK
    <2>2. CASE \E m \in Members : EditMember(m)
      BY <2>2
         DEF EditMember, ArchiveDocument, Regroup, MemberMoves, Doc, DataOK, TypeInv, TypeOK,
             DirectoryOK, Documents
    <2>3. CASE \E m \in Members, c \in Codes \cup {None} : Recode(m, c)
      BY <2>3 DEF Recode, MemberMoves, Doc, DataOK
    <2>4. CASE \E g \in Groups : RetireGroup(g)
      BY <2>4 DEF RetireGroup, MemberMoves, Doc
    <2>5. QED
      BY <2>1, <2>2, <2>3, <2>4
  <1>7. QED
    BY <1>2, <1>3, <1>4, <1>5, <1>6 DEF DataMoves, DataOK, TypeInv, TypeOK

-----------------------------------------------------------------------------
(* The steps of a merge keep the types.                                    *)

Stepped(x) ==
    /\ DataMoves /\ ControlOK' /\ UNCHANGED pair
    /\ \A y \in Merges \ {x} : Untouched(y)

LEMMA GoesOn ==
    ASSUME MergeTypeInv, NEW x \in Merges, stage[x] # "done", DataMoves,
           NEW step \in Stages, NEW held \in Held, Proceed(x, step, held),
           Fits(sent[x], step, held), UNCHANGED <<pair, sent, gathered>>
    PROVE  Stepped(x)
  <1>1. sent' = [sent EXCEPT ![x] = sent[x]] /\ sent[x] \in MergeCalls \cup {None}
    BY DEF MergeTypeInv, ControlOK, MergeRecordsOK
  <1>2. /\ gathered' \in [Merges -> [Occurrences -> Nat]]
        /\ \A y \in Merges \ {x} : gathered'[y] = gathered[y]
    BY DEF MergeTypeInv, ControlOK
  <1>3. QED
    BY <1>1, <1>2, ProceedKeepsControl DEF MergeTypeInv, Stepped

LEMMA EndsHere ==
    ASSUME MergeTypeInv, NEW x \in Merges, stage[x] # "waiting", DataMoves,
           NEW outcome \in Outcomes, End(x, outcome), UNCHANGED <<pair, sent, gathered>>
    PROVE  Stepped(x)
  BY EndKeepsControl DEF MergeTypeInv, Stepped

LEMMA ReadsMoveNothing ==
    ASSUME MergeTypeInv, OnlyReads
    PROVE  DataMoves /\ UNCHANGED <<pair, sent, gathered>>
  BY NothingMoves DEF MergeTypeInv, OnlyReads, OnlyMerging

LEMMA RefusedOutcome == \A d : RefusedUnless(d) \in Outcomes
  BY DEF RefusedUnless, Outcomes

LEMMA UpdateFields ==
    ASSUME NEW update \in MemberUpdates
    PROVE  /\ update.groups \in Snapshots /\ update.coded \in BOOLEAN
           /\ update.code \in Codes \cup {None}
           /\ ~update.coded => update.code = None
  <1>1. CASE \E gs \in Snapshots, c \in Codes \cup {None} :
                 update = [groups |-> gs, coded |-> TRUE, code |-> c]
    BY <1>1
  <1>2. CASE \E gs \in Snapshots : update = [groups |-> gs, coded |-> FALSE, code |-> None]
    BY <1>2
  <1> DEFINE given == {[groups |-> gs, coded |-> TRUE, code |-> c] :
                           gs \in Snapshots, c \in Codes \cup {None}}
             left == {[groups |-> gs, coded |-> FALSE, code |-> None] : gs \in Snapshots}
  <1>3. update \in given \/ update \in left
    BY DEF MemberUpdates
  <1>4. update \in given => \E gs \in Snapshots, c \in Codes \cup {None} :
                                update = [groups |-> gs, coded |-> TRUE, code |-> c]
    OBVIOUS
  <1>5. update \in left =>
            \E gs \in Snapshots : update = [groups |-> gs, coded |-> FALSE, code |-> None]
    OBVIOUS
  <1> HIDE DEF given, left
  <1>6. QED
    BY <1>1, <1>2, <1>3, <1>4, <1>5

(* The fields of what a merge holds, when some of them change.             *)
LEMMA HeldFields ==
    ASSUME NEW held \in Held
    PROVE  /\ held.keep \in MemberDocs \cup {None} /\ held.lose \in MemberDocs \cup {None}
           /\ held.unread \subseteq Groups /\ held.todo \subseteq Occurrences
           /\ \A o \in Occurrences : /\ held.keepers[o] \in Receipts \cup {NoReceipt}
                                     /\ held.losers[o] \in Receipts \cup {NoReceipt}
           /\ \A doc \in MemberDocs \cup {None} :
                  /\ [held EXCEPT !.keep = doc] \in Held
                  /\ [held EXCEPT !.lose = doc] \in Held
                  /\ [held EXCEPT !.lose = doc, !.todo = Occurrences] \in Held
           /\ \A todo \in SUBSET Occurrences : [held EXCEPT !.todo = todo] \in Held
  BY DEF Held, Snapshots

LEMMA LoadKeeperStep ==
    ASSUME MergeTypeInv, NEW x \in Merges, LoadKeeper(x)
    PROVE  Stepped(x)
  <1>1. DataMoves /\ UNCHANGED <<pair, sent, gathered>>
    BY ReadsMoveNothing DEF LoadKeeper
  <1>2. CASE status[Keep(x)] = "missing"
    BY <1>1, <1>2, EndsHere DEF LoadKeeper, Outcomes
  <1>3. CASE status[Keep(x)] # "missing"
    <2> DEFINE held == [work[x] EXCEPT !.keep = Doc(Keep(x))]
    <2>1. Proceed(x, "load_loser", held) /\ stage[x] = "load_keeper"
      BY <1>3 DEF LoadKeeper
    <2>2. held \in Held /\ held.keep # None
      BY MergeParts DEF Held
    <2>3. Fits(sent[x], "load_loser", held)
      BY <2>1, <2>2 DEF Fits, MergeTypeInv, ControlOK, Loading, Saving
    <2>4. "load_loser" \in Stages
      BY DEF Stages
    <2> HIDE DEF held
    <2>5. QED
      BY <1>1, <2>1, <2>2, <2>3, <2>4, GoesOn
  <1>4. QED
    BY <1>2, <1>3

LEMMA LoadLoserStep ==
    ASSUME MergeTypeInv, NEW x \in Merges, LoadLoser(x)
    PROVE  Stepped(x)
  <1>1. DataMoves /\ UNCHANGED <<pair, sent, gathered>>
    BY ReadsMoveNothing DEF LoadLoser
  <1>2. CASE status[Lose(x)] = "missing" \/ ~work[x].keep.active \/ ~Doc(Lose(x)).active
    BY <1>1, <1>2, EndsHere DEF LoadLoser, Outcomes
  <1>3. CASE ~(status[Lose(x)] = "missing" \/ ~work[x].keep.active \/ ~Doc(Lose(x)).active)
    <2> DEFINE held == [work[x] EXCEPT !.lose = Doc(Lose(x)), !.todo = Occurrences]
               step == AfterLoad(sent[x].update, Doc(Lose(x)))
    <2>1. Proceed(x, step, held) /\ stage[x] = "load_loser"
      BY <1>3 DEF LoadLoser
    <2>2. /\ held \in Held /\ held.keep = work[x].keep /\ held.lose = Doc(Lose(x))
          /\ held.todo = Occurrences
      BY MergeParts DEF Held
    <2>3. step \in Stages \ {"move", "load_loser", "waiting"}
      BY DEF AfterLoad, Stages
    <2>4. step \in Saving => sent[x].update # None
      BY DEF AfterLoad, Saving
    <2>5. work[x].keep # None /\ sent[x] # None /\ Doc(Lose(x)) # None
      BY <2>1, MergeParts DEF MergeTypeInv, ControlOK, Fits
    <2>6. Fits(sent[x], step, held)
      BY <1>3, <2>2, <2>3, <2>4, <2>5 DEF Fits
    <2> HIDE DEF held, step
    <2>7. QED
      BY <1>1, <2>1, <2>2, <2>3, <2>6, GoesOn
  <1>4. QED
    BY <1>2, <1>3

LEMMA WriteMoves ==
    ASSUME MergeTypeInv, UNCHANGED attendance, OnlyMerging, NEW m \in Members,
           NEW doc \in MemberDocs, PutMember(m, doc) \/ UNCHANGED <<directory, details>>
    PROVE  DataMoves /\ UNCHANGED <<pair, sent, gathered>>
  BY PutMemberMoves, NothingMoves DEF MergeTypeInv, OnlyMerging, Shared

LEMMA ReleaseCodeStep ==
    ASSUME MergeTypeInv, NEW x \in Merges, ReleaseCode(x)
    PROVE  Stepped(x)
  <1> DEFINE doc == [work[x].lose EXCEPT !.code = None]
             writes == Store!MayReplace(Doc(Lose(x)), work[x].lose.etag)
  <1>1. /\ stage[x] = "release" /\ work[x] \in Held /\ work[x].lose \in MemberDocs
        /\ Lose(x) \in Members
    BY MergeParts, HeldFields DEF ReleaseCode, MergeTypeInv, ControlOK, Fits, Loading
  <1>2. doc \in MemberDocs
    BY <1>1 DEF MemberDocs
  <1>3. PutMember(Lose(x), doc) \/ UNCHANGED <<directory, details>>
    BY DEF ReleaseCode
  <1>4. DataMoves /\ UNCHANGED <<pair, sent, gathered>>
    BY <1>1, <1>2, <1>3, WriteMoves DEF ReleaseCode
  <1>5. CASE writes
    <2>1. Proceed(x, "save_church", work[x]) /\ "save_church" \in Stages
      BY <1>5 DEF ReleaseCode, Stages
    <2>2. Fits(sent[x], "save_church", work[x])
      BY <1>1 DEF MergeTypeInv, ControlOK, Fits, Loading, Saving
    <2>3. QED
      BY <1>1, <1>4, <2>1, <2>2, GoesOn
  <1>6. CASE ~writes
    BY <1>1, <1>4, <1>6, EndsHere DEF ReleaseCode, Outcomes
  <1>7. QED
    BY <1>5, <1>6

LEMMA SaveReadsChurchStep ==
    ASSUME MergeTypeInv, NEW x \in Merges, SaveReadsChurch(x)
    PROVE  Stepped(x)
  <1>1. DataMoves /\ UNCHANGED <<pair, sent, gathered>> /\ stage[x] = "save_church"
    BY ReadsMoveNothing DEF SaveReadsChurch
  <1>2. CASE status[Church] = "active"
    <2>1. Proceed(x, "save_read", work[x]) /\ "save_read" \in Stages /\ work[x] \in Held
      BY <1>2, MergeParts DEF SaveReadsChurch, Stages
    <2>2. Fits(sent[x], "save_read", work[x])
      BY <1>1 DEF MergeTypeInv, ControlOK, Fits, Loading, Saving
    <2>3. QED
      BY <1>1, <2>1, <2>2, GoesOn
  <1>3. CASE status[Church] # "active"
    BY <1>1, <1>3, RefusedOutcome, EndsHere DEF SaveReadsChurch
  <1>4. QED
    BY <1>2, <1>3

LEMMA SaveGoesOnStep ==
    ASSUME MergeTypeInv, NEW x \in Merges, stage[x] \in {"save_read", "save_groups"}, DataMoves,
           NEW held \in Held, held.keep # None, held.keep.active, held.lose = work[x].lose,
           SaveGoesOn(x, held), UNCHANGED <<pair, sent, gathered>>
    PROVE  Stepped(x)
  <1> DEFINE step == IF held.unread = {} THEN "save" ELSE "save_groups"
  <1>1. step \in Stages /\ Proceed(x, step, held)
    BY DEF Stages, SaveGoesOn
  <1>2. Fits(sent[x], step, held)
    BY DEF MergeTypeInv, ControlOK, Fits, Loading, Saving
  <1> HIDE DEF step
  <1>3. QED
    BY <1>1, <1>2, GoesOn

LEMMA SaveReadsKeeperStep ==
    ASSUME MergeTypeInv, NEW x \in Merges, SaveReadsKeeper(x)
    PROVE  Stepped(x)
  <1>1. /\ DataMoves /\ UNCHANGED <<pair, sent, gathered>>
        /\ stage[x] = "save_read"
    BY ReadsMoveNothing DEF SaveReadsKeeper
  <1>2. CASE status[Keep(x)] # "active"
    BY <1>1, <1>2, RefusedOutcome, EndsHere DEF SaveReadsKeeper
  <1>3. CASE status[Keep(x)] = "active" /\ tag[Keep(x)] # sent[x].keep
    BY <1>1, <1>3, EndsHere DEF SaveReadsKeeper, Outcomes
  <1>4. CASE status[Keep(x)] = "active" /\ tag[Keep(x)] = sent[x].keep
    <2> DEFINE held == [work[x] EXCEPT !.keep = Doc(Keep(x)), !.unread = sent[x].update.groups]
    <2>1. SaveGoesOn(x, held)
      BY <1>4 DEF SaveReadsKeeper
    <2>2. sent[x].update.groups \in Snapshots
      BY <1>1, MergeParts, UpdateFields
         DEF MergeCalls, MergeTypeInv, ControlOK, Fits, Saving
    <2>3. /\ held \in Held /\ held.keep = Doc(Keep(x)) /\ held.lose = work[x].lose
          /\ held.keep # None
      BY <2>2, MergeParts DEF Held
    <2>4. Doc(Keep(x)).active
      BY <1>4 DEF Doc
    <2> HIDE DEF held
    <2>5. QED
      BY <1>1, <2>1, <2>3, <2>4, SaveGoesOnStep
  <1>5. QED
    BY <1>2, <1>3, <1>4

LEMMA SaveReadsGroupStep ==
    ASSUME MergeTypeInv, NEW x \in Merges, NEW g \in Groups, SaveReadsGroup(x, g)
    PROVE  Stepped(x)
  <1>1. DataMoves /\ UNCHANGED <<pair, sent, gathered>> /\ stage[x] = "save_groups"
    BY ReadsMoveNothing DEF SaveReadsGroup
  <1>2. CASE g \in retired
    BY <1>1, <1>2, EndsHere DEF SaveReadsGroup, Outcomes
  <1>3. CASE g \notin retired
    <2> DEFINE held == [work[x] EXCEPT !.unread = @ \ {g}]
    <2>1. SaveGoesOn(x, held)
      BY <1>3 DEF SaveReadsGroup
    <2>2. held \in Held /\ held.keep = work[x].keep /\ held.lose = work[x].lose
      BY MergeParts DEF Held, Snapshots
    <2>3. held.keep # None /\ held.keep.active
      BY <1>1, <2>2 DEF MergeTypeInv, ControlOK, Fits, Loading
    <2> HIDE DEF held
    <2>4. QED
      BY <1>1, <2>1, <2>2, <2>3, SaveGoesOnStep
  <1>4. QED
    BY <1>2, <1>3

LEMMA SaveKeeperStep ==
    ASSUME MergeTypeInv, NEW x \in Merges, SaveKeeper(x)
    PROVE  Stepped(x) /\ Updated(x) \in MemberDocs
  <1> DEFINE writes == /\ Store!MayReplace(Doc(Keep(x)), sent[x].keep)
                       /\ MayAssign(Keep(x), Updated(x).code)
  <1>1. /\ stage[x] = "save" /\ work[x] \in Held /\ work[x].keep \in MemberDocs
        /\ sent[x] \in MergeCalls /\ sent[x].update # None /\ Keep(x) \in Members
    BY MergeParts, HeldFields
       DEF SaveKeeper, MergeTypeInv, ControlOK, Fits, Loading, Saving
  <1>2. Updated(x) \in MemberDocs
    BY <1>1, UpdateFields DEF MemberDocs, Updated, MergeCalls
  <1>3. PutMember(Keep(x), Updated(x)) \/ UNCHANGED <<directory, details>>
    BY DEF SaveKeeper
  <1>4. DataMoves /\ UNCHANGED <<pair, sent, gathered>>
    BY <1>1, <1>2, <1>3, WriteMoves DEF SaveKeeper
  <1>5. CASE writes
    <2>1. Proceed(x, "gather_keeper", work[x]) /\ "gather_keeper" \in Stages
      BY <1>5 DEF SaveKeeper, Stages
    <2>2. Fits(sent[x], "gather_keeper", work[x])
      BY <1>1 DEF MergeTypeInv, ControlOK, Fits, Loading, Saving
    <2>3. QED
      BY <1>1, <1>2, <1>4, <2>1, <2>2, GoesOn
  <1>6. CASE ~writes
    BY <1>1, <1>2, <1>4, <1>6, EndsHere DEF SaveKeeper, Outcomes
  <1>7. QED
    BY <1>5, <1>6

LEMMA CallStep ==
    ASSUME MergeTypeInv, NEW x \in Merges, Call(x)
    PROVE  Stepped(x)
  <1> DEFINE takes(update) ==
                 update # None /\ update.code # None /\ update.code = code[Lose(x)]
             given(update) ==
                 [keep |-> tag[Keep(x)], lose |-> tag[Lose(x)], update |-> update,
                  takes |-> takes(update), fit |-> Fit(x, update, takes(update))]
  <1>1. PICK update \in Updates \cup {None} :
            sent' = [sent EXCEPT ![x] = given(update)]
    BY DEF Call
  <1>2. takes(update) \in BOOLEAN /\ Fit(x, update, takes(update)) \in BOOLEAN
    BY DEF Fit
  <1>3. given(update) \in MergeCalls
    BY <1>2, MergeParts, UpdatesType DEF MergeCalls, MergeTypeInv, DataOK
  <1>4. given(update) # None
    BY <1>3, NoneType
  <1>5. Fits(given(update), "load_keeper", Idle) /\ "load_keeper" \in Stages
    BY <1>4 DEF Fits, Loading, Saving, Stages
  <1>6. DataMoves
    BY NothingMoves DEF Call, MergeTypeInv
  <1>7. stage[x] # "done" /\ Proceed(x, "load_keeper", Idle) /\ UNCHANGED <<pair, gathered>>
    BY DEF Call
  <1>8. /\ gathered' \in [Merges -> [Occurrences -> Nat]]
        /\ \A y \in Merges \ {x} : gathered'[y] = gathered[y]
    BY <1>7 DEF MergeTypeInv, ControlOK
  <1>9. sent' = [sent EXCEPT ![x] = given(update)]
    BY <1>1
  <1> HIDE DEF given
  <1>10. ControlOK' /\ \A y \in Merges \ {x} : Untouched(y)
    BY <1>3, <1>5, <1>7, <1>8, <1>9, IdleType, ProceedKeepsControl DEF MergeTypeInv
  <1>11. QED
    BY <1>6, <1>7, <1>10 DEF Stepped

(* What the loop holds next: one receipt less to handle.                   *)
LEMMA LoopKeepsType ==
    ASSUME MergeTypeInv, NEW x \in Merges, stage[x] \in {"gather_loser", "move"}, DataMoves,
           NEW held \in Held, held.keep = work[x].keep, held.lose = work[x].lose,
           \A o \in held.todo : held.losers[o] # NoReceipt /\ held.losers[o].active,
           Loop(x, held), gathered' \in [Merges -> [Occurrences -> Nat]],
           \A y \in Merges \ {x} : gathered'[y] = gathered[y],
           UNCHANGED <<pair, sent>>
    PROVE  Stepped(x)
  <1> DEFINE step == IF held.todo = {} THEN "archive_church" ELSE "move"
  <1>1. step \in Stages /\ Proceed(x, step, held)
    BY DEF Stages, Loop
  <1>2. Fits(sent[x], step, held)
    BY DEF MergeTypeInv, ControlOK, Fits, Loading, Saving
  <1>3. sent' = [sent EXCEPT ![x] = sent[x]] /\ sent[x] \in MergeCalls \cup {None}
    BY DEF MergeTypeInv, ControlOK, MergeRecordsOK
  <1> HIDE DEF step
  <1>4. QED
    BY <1>1, <1>2, <1>3, ProceedKeepsControl DEF MergeTypeInv, Stepped

LEMMA GatherKeeperStep ==
    ASSUME MergeTypeInv, NEW x \in Merges, NEW o \in Occurrences, GatherKeeper(x, o)
    PROVE  Stepped(x)
  <1> DEFINE held == [work[x] EXCEPT !.keepers[o] = receipt[KeeperSlot(x, o)], !.todo = @ \ {o}]
             last == [held EXCEPT !.todo = Occurrences]
  <1>1. DataMoves /\ UNCHANGED <<pair, sent, gathered>> /\ stage[x] = "gather_keeper"
    BY ReadsMoveNothing DEF GatherKeeper
  <1>2. held \in Held /\ held.keep = work[x].keep /\ held.lose = work[x].lose
    BY MergeParts DEF Held
  <1>3. /\ last \in Held /\ last.keep = work[x].keep /\ last.lose = work[x].lose
        /\ last.todo = Occurrences
    BY <1>2 DEF Held
  <1>4. /\ Fits(sent[x], "gather_keeper", held) /\ Fits(sent[x], "gather_loser", last)
        /\ {"gather_keeper", "gather_loser"} \subseteq Stages
    BY <1>1, <1>2, <1>3 DEF MergeTypeInv, ControlOK, Fits, Loading, Saving, Stages
  <1>5. Proceed(x, "gather_loser", last) \/ Proceed(x, "gather_keeper", held)
    BY DEF GatherKeeper
  <1> HIDE DEF held, last
  <1>6. QED
    BY <1>1, <1>2, <1>3, <1>4, <1>5, GoesOn

LEMMA GatherLoserStep ==
    ASSUME MergeTypeInv, NEW x \in Merges, NEW o \in Occurrences, GatherLoser(x, o)
    PROVE  Stepped(x)
  <1> DEFINE found == ActiveOnly(receipt[LoserSlot(x, o)])
             held == [work[x] EXCEPT !.losers[o] = found, !.todo = @ \ {o}]
             rest == {p \in Occurrences : held.losers[p] # NoReceipt}
             last == [held EXCEPT !.todo = rest]
  <1>1. /\ stage[x] = "gather_loser" /\ UNCHANGED <<pair, sent>>
        /\ gathered' = [gathered EXCEPT ![x][o] = version[LoserSlot(x, o)]]
    BY DEF GatherLoser
  <1>2. DataMoves
    BY NothingMoves DEF GatherLoser, MergeTypeInv
  <1>3. version[LoserSlot(x, o)] \in Nat
    BY MergeParts DEF MergeTypeInv, DataOK, TypeInv, TypeOK, AttendanceOK
  <1>4. /\ gathered' \in [Merges -> [Occurrences -> Nat]]
        /\ \A y \in Merges \ {x} : gathered'[y] = gathered[y]
    BY <1>1, <1>3 DEF MergeTypeInv, ControlOK
  <1>5. found \in Receipts \cup {NoReceipt} /\ ActiveOnly(found) = found
    BY MergeParts DEF ActiveOnly
  <1>6. /\ held \in Held /\ held.keep = work[x].keep /\ held.lose = work[x].lose
        /\ held.todo = work[x].todo \ {o} /\ held.losers[o] = found
        /\ \A p \in Occurrences \ {o} : held.losers[p] = work[x].losers[p]
    BY <1>5, MergeParts DEF Held
  <1>7. \A p \in Occurrences \ held.todo : held.losers[p] = ActiveOnly(held.losers[p])
    BY <1>1, <1>5, <1>6 DEF MergeTypeInv, ControlOK, Fits
  <1>8. CASE held.todo = {}
    <2>1. Loop(x, last)
      BY <1>8 DEF GatherLoser
    <2>2. /\ last \in Held /\ last.keep = held.keep /\ last.lose = held.lose
          /\ last.losers = held.losers /\ last.todo = rest
      BY <1>6 DEF Held
    <2>3. \A p \in rest : held.losers[p] # NoReceipt /\ held.losers[p].active
      BY <1>7, <1>8 DEF ActiveOnly
    <2> HIDE DEF held, rest, last
    <2>4. QED
      BY <1>1, <1>2, <1>4, <1>6, <2>1, <2>2, <2>3, LoopKeepsType
  <1>9. CASE held.todo # {}
    <2>1. Proceed(x, "gather_loser", held)
      BY <1>9 DEF GatherLoser
    <2>2. Fits(sent[x], "gather_loser", held) /\ "gather_loser" \in Stages
      BY <1>1, <1>6, <1>7 DEF MergeTypeInv, ControlOK, Fits, Loading, Saving, Stages
    <2>3. sent' = [sent EXCEPT ![x] = sent[x]] /\ sent[x] \in MergeCalls \cup {None}
      BY <1>1 DEF MergeTypeInv, ControlOK, MergeRecordsOK
    <2> HIDE DEF held
    <2>4. QED
      BY <1>1, <1>2, <1>4, <1>6, <2>1, <2>2, <2>3, ProceedKeepsControl DEF MergeTypeInv, Stepped
  <1>10. QED
    BY <1>8, <1>9

(* The two writes of a receipt.                                            *)
LEMMA NotedType ==
    ASSUME NEW x \in Merges, NEW copy \in Receipts, NEW action \in Actions, NEW n \in Nat
    PROVE  /\ Noted(x, copy, action, n) \in Receipts
           /\ Noted(x, copy, action, n).etag = n
           /\ Noted(x, copy, action, n).active = copy.active
           /\ Noted(x, copy, action, n).at = copy.at
           /\ Noted(x, copy, action, n).groups = copy.groups
           /\ Noted(x, copy, action, n).audit = Append(copy.audit, Entry(x, action))
           /\ [Noted(x, copy, action, n) EXCEPT !.active = FALSE] \in Receipts
           /\ [Noted(x, copy, action, n) EXCEPT !.active = FALSE].etag = n
  <1>1. Entry(x, action) \in Entries
    BY MergesType DEF Entry, Entries
  <1>2. Append(copy.audit, Entry(x, action)) \in Seq(Entries) \ {<<>>}
    BY <1>1 DEF Receipts
  <1>3. QED
    BY <1>2 DEF Noted, Receipts

LEMMA NextReceiptKeepsType ==
    ASSUME MergeTypeInv, NEW x \in Merges, stage[x] = "move", NEW o \in Occurrences, DataMoves,
           NextReceipt(x, o), OnlyMerging
    PROVE  Stepped(x)
  <1> DEFINE held == [work[x] EXCEPT !.todo = @ \ {o}]
  <1>1. /\ held \in Held /\ held.keep = work[x].keep /\ held.lose = work[x].lose
        /\ held.todo = work[x].todo \ {o} /\ held.losers = work[x].losers
    BY MergeParts DEF Held
  <1>2. \A p \in held.todo : held.losers[p] # NoReceipt /\ held.losers[p].active
    BY <1>1 DEF MergeTypeInv, ControlOK, Fits
  <1>3. Loop(x, held) /\ UNCHANGED <<pair, sent, gathered>>
    BY DEF NextReceipt, OnlyMerging
  <1>4. /\ gathered' \in [Merges -> [Occurrences -> Nat]]
        /\ \A y \in Merges \ {x} : gathered'[y] = gathered[y]
    BY <1>3 DEF MergeTypeInv, ControlOK
  <1> HIDE DEF held
  <1>5. QED
    BY <1>1, <1>2, <1>3, <1>4, LoopKeepsType

LEMMA GatheredLoser ==
    ASSUME MergeTypeInv, NEW x \in Merges, stage[x] = "move", NEW o \in work[x].todo
    PROVE  work[x].losers[o] \in Receipts /\ work[x].losers[o].active /\ o \in Occurrences
  <1>1. work[x] \in Held
    BY MergeParts
  <1>2. o \in Occurrences /\ work[x].losers[o] \in Receipts \cup {NoReceipt}
    BY <1>1, HeldFields
  <1>3. work[x].losers[o] # NoReceipt /\ work[x].losers[o].active
    BY DEF MergeTypeInv, ControlOK, Fits
  <1>4. QED
    BY <1>2, <1>3

LEMMA DropDuplicateStep ==
    ASSUME MergeTypeInv, NEW x \in Merges, NEW o \in Occurrences, DropDuplicate(x, o)
    PROVE  Stepped(x)
  <1> DEFINE s == LoserSlot(x, o)
             copy == work[x].losers[o]
             doc == [Noted(x, copy, "merged_to", version[s] + 1) EXCEPT !.active = FALSE]
             writes == Store!MayReplace(receipt[s], copy.etag)
  <1>1. /\ stage[x] = "move" /\ o \in work[x].todo
        /\ UNCHANGED <<directory, details>> /\ OnlyMerging
    BY DEF DropDuplicate
  <1>2. copy \in Receipts /\ s \in Slots /\ version[s] \in Nat
    BY <1>1, GatheredLoser, MergeParts DEF MergeTypeInv, DataOK, TypeInv, TypeOK, AttendanceOK
  <1>3. doc \in Receipts /\ doc.etag = version[s] + 1
    <2>1. version[s] + 1 \in Nat /\ "merged_to" \in Actions
      BY <1>2 DEF Actions
    <2>2. QED
      BY <1>2, <2>1, NotedType
  <1>4. CASE writes
    <2>1. Put(s, doc) /\ NextReceipt(x, o)
      BY <1>4 DEF DropDuplicate
    <2>2. DataMoves
      BY <1>1, <1>2, <1>3, <2>1, PutMoves DEF MergeTypeInv, OnlyMerging
    <2>3. QED
      BY <1>1, <2>1, <2>2, NextReceiptKeepsType
  <1>5. CASE ~writes
    <2>1. End(x, Store!ReplaceRefusal(receipt[s])) /\ UNCHANGED attendance
      BY <1>5 DEF DropDuplicate
    <2>2. Store!ReplaceRefusal(receipt[s]) \in Outcomes
      BY DEF Store!ReplaceRefusal, Outcomes
    <2>3. DataMoves /\ UNCHANGED <<pair, sent, gathered>>
      BY <1>1, <2>1, NothingMoves DEF MergeTypeInv, OnlyMerging, Shared
    <2>4. QED
      BY <1>1, <2>1, <2>2, <2>3, EndsHere
  <1>6. QED
    BY <1>4, <1>5

LEMMA MoveReceiptStep ==
    ASSUME MergeTypeInv, NEW x \in Merges, NEW o \in Occurrences, MoveReceipt(x, o)
    PROVE  Stepped(x)
  <1> DEFINE from == LoserSlot(x, o)
             to == KeeperSlot(x, o)
             copy == work[x].losers[o]
             undone == work[x].keepers[o]
             doc == Noted(x, copy, "merged_from", version[to] + 1)
             writes == Store!MayTransfer(receipt[from], copy, receipt[to], undone)
  <1>1. /\ stage[x] = "move" /\ o \in work[x].todo
        /\ UNCHANGED <<directory, details>> /\ OnlyMerging
    BY DEF MoveReceipt
  <1>2. copy \in Receipts /\ from \in Slots /\ to \in Slots /\ version[to] \in Nat
    BY <1>1, GatheredLoser, MergeParts DEF MergeTypeInv, DataOK, TypeInv, TypeOK, AttendanceOK
  <1>3. from # to
    BY MergeParts DEF LoserSlot, KeeperSlot
  <1>4. doc \in Receipts /\ doc.etag = version[to] + 1
    <2>1. version[to] + 1 \in Nat /\ "merged_from" \in Actions
      BY <1>2 DEF Actions
    <2>2. QED
      BY <1>2, <2>1, NotedType
  <1>5. CASE writes
    <2>1. PutInstead(from, to, doc) /\ NextReceipt(x, o)
      BY <1>5 DEF MoveReceipt
    <2>2. DataMoves
      BY <1>1, <1>2, <1>3, <1>4, <2>1, PutInsteadMoves DEF MergeTypeInv, OnlyMerging
    <2>3. QED
      BY <1>1, <2>1, <2>2, NextReceiptKeepsType
  <1>6. CASE ~writes
    <2>1. /\ End(x, Store!TransferRefusal(receipt[from], copy, receipt[to], undone))
          /\ UNCHANGED attendance
      BY <1>6 DEF MoveReceipt
    <2>2. Store!TransferRefusal(receipt[from], copy, receipt[to], undone) \in Outcomes
      BY DEF Store!TransferRefusal, Store!ReplaceRefusal, Outcomes
    <2>3. DataMoves /\ UNCHANGED <<pair, sent, gathered>>
      BY <1>1, <2>1, NothingMoves DEF MergeTypeInv, OnlyMerging, Shared
    <2>4. QED
      BY <1>1, <2>1, <2>2, <2>3, EndsHere
  <1>7. QED
    BY <1>5, <1>6

LEMMA ArchiveReadsStep ==
    ASSUME MergeTypeInv, NEW x \in Merges, ArchiveReadsChurch(x) \/ ArchiveReadsLoser(x)
    PROVE  Stepped(x)
  <1>1. DataMoves /\ UNCHANGED <<pair, sent, gathered>>
    BY ReadsMoveNothing DEF ArchiveReadsChurch, ArchiveReadsLoser
  <1>2. CASE ArchiveReadsChurch(x) /\ status[Church] = "active"
    <2>1. /\ Proceed(x, "archive_read", work[x]) /\ "archive_read" \in Stages
          /\ work[x] \in Held /\ stage[x] = "archive_church"
      BY <1>2, MergeParts DEF ArchiveReadsChurch, Stages
    <2>2. Fits(sent[x], "archive_read", work[x])
      BY <2>1 DEF MergeTypeInv, ControlOK, Fits, Loading, Saving
    <2>3. QED
      BY <1>1, <2>1, <2>2, GoesOn
  <1>3. CASE ArchiveReadsChurch(x) /\ status[Church] # "active"
    BY <1>1, <1>3, RefusedOutcome, EndsHere DEF ArchiveReadsChurch
  <1>4. CASE ArchiveReadsLoser(x)
    <2> DEFINE held == [work[x] EXCEPT !.lose = Doc(Lose(x))]
    <2>1. Proceed(x, "archive", held) /\ "archive" \in Stages /\ stage[x] = "archive_read"
      BY <1>4 DEF ArchiveReadsLoser, Stages
    <2>2. held \in Held /\ held.keep = work[x].keep /\ held.lose = Doc(Lose(x)) /\ held.lose # None
      BY MergeParts DEF Held
    <2>3. Fits(sent[x], "archive", held)
      BY <2>1, <2>2 DEF MergeTypeInv, ControlOK, Fits, Loading, Saving
    <2> HIDE DEF held
    <2>4. QED
      BY <1>1, <2>1, <2>2, <2>3, GoesOn
  <1>5. QED
    BY <1>2, <1>3, <1>4

LEMMA ArchiveLoserStep ==
    ASSUME MergeTypeInv, NEW x \in Merges, ArchiveLoser(x)
    PROVE  Stepped(x) /\ work[x].lose \in MemberDocs
  <1> DEFINE doc == [work[x].lose EXCEPT !.active = FALSE]
  <1>1. /\ stage[x] = "archive" /\ work[x].lose \in MemberDocs /\ Lose(x) \in Members
    BY MergeParts, HeldFields DEF ArchiveLoser, MergeTypeInv, ControlOK, Fits, Loading
  <1>2. doc \in MemberDocs
    BY <1>1 DEF MemberDocs
  <1>3. PutMember(Lose(x), doc) \/ UNCHANGED <<directory, details>>
    BY DEF ArchiveLoser
  <1>4. DataMoves /\ UNCHANGED <<pair, sent, gathered>>
    BY <1>1, <1>2, <1>3, WriteMoves DEF ArchiveLoser
  <1>5. \E outcome \in Outcomes : End(x, outcome)
    BY DEF ArchiveLoser, Outcomes
  <1>6. QED
    BY <1>1, <1>4, <1>5, EndsHere

LEMMA MergeStep ==
    ASSUME MergeTypeInv, NEW x \in Merges, Merge(x)
    PROVE  Stepped(x)
  BY CallStep, LoadKeeperStep, LoadLoserStep, ReleaseCodeStep, SaveReadsChurchStep,
     SaveReadsKeeperStep, SaveReadsGroupStep, SaveKeeperStep, GatherKeeperStep,
     GatherLoserStep, DropDuplicateStep, MoveReceiptStep, ArchiveReadsStep, ArchiveLoserStep
     DEF Merge

(* A step of anybody else.                                                 *)
LEMMA ElsewhereStep ==
    ASSUME MergeTypeInv, Elsewhere, UNCHANGED <<pair, sent, stage, work, result, gathered>>
    PROVE  DataMoves /\ ControlOK' /\ UNCHANGED pair /\ \A y \in Merges : Untouched(y)
  <1>1. DataMoves
    BY HandleMoves, EditMoves DEF Elsewhere, MergeTypeInv
  <1>2. ControlOK'
    BY DEF MergeTypeInv, ControlOK, MergeRecordsOK, Fits, ActiveOnly, Keep, Lose
  <1>3. QED
    BY <1>1, <1>2 DEF Untouched

(* Together: a step is one of a merge, or one that leaves all merges alone. *)
LEMMA MergeSteps ==
    ASSUME MergeTypeInv, [MergeNext]_mergeVars
    PROVE  /\ MergeTypeInv' /\ DataMoves /\ UNCHANGED pair
           /\ \/ \E x \in Merges :
                     Merge(x) /\ Disturbs(Merges \ {x}) /\ \A y \in Merges \ {x} : Untouched(y)
              \/ /\ Elsewhere \/ UNCHANGED mergeVars
                 /\ Disturbs(Merges) \/ UNCHANGED mergeVars
                 /\ \A y \in Merges : Untouched(y)
  <1>1. ASSUME NEW x \in Merges, Merge(x), Disturbs(Merges \ {x})
        PROVE  MergeTypeInv' /\ DataMoves /\ UNCHANGED pair /\ \A y \in Merges \ {x} : Untouched(y)
    BY <1>1, MergeStep DEF Stepped, MergeTypeInv, DataMoves
  <1>2. CASE Elsewhere /\ UNCHANGED <<pair, sent, stage, work, result, gathered>> /\ Disturbs(Merges)
    BY <1>2, ElsewhereStep DEF MergeTypeInv, DataMoves
  <1>3. CASE UNCHANGED mergeVars
    <2>1. /\ UNCHANGED Shared /\ UNCHANGED <<call, handler, arrival>>
          /\ UNCHANGED <<pair, sent, stage, work, result, gathered>>
      BY <1>3 DEF mergeVars, vars, Shared
    <2>2. DataMoves
      BY <2>1, NothingMoves DEF MergeTypeInv
    <2>3. ControlOK'
      BY <2>1 DEF MergeTypeInv, ControlOK, MergeRecordsOK, Fits, ActiveOnly, Keep, Lose
    <2>4. QED
      BY <1>3, <2>1, <2>2, <2>3 DEF MergeTypeInv, DataMoves, Untouched
  <1>4. QED
    BY <1>1, <1>2, <1>3 DEF MergeNext

LEMMA MergeTypesInit == MergeInit => MergeTypeInv
  <1> SUFFICES ASSUME MergeInit PROVE MergeTypeInv
    OBVIOUS
  <1>1. PICK earlier \in Callers \ (Requests \cup Merges) :
            receipt \in [Slots -> EarlierReceipts(earlier)]
    BY DEF MergeInit
  <1>2. EarlierReceipts(earlier) \subseteq Receipts \cup {NoReceipt}
    <2> DEFINE checkedIn == [active |-> TRUE, etag |-> 1, groups |-> {}, at |-> earlier,
                             audit |-> <<Entry(earlier, "checked_in")>>]
               undone == [checkedIn EXCEPT !.active = FALSE, !.etag = 2,
                                           !.audit = Append(@, Entry(earlier, "undone"))]
    <2>1. Entry(earlier, "checked_in") \in Entries /\ Entry(earlier, "undone") \in Entries
      BY <1>1 DEF Entry, Entries, Actions
    <2>2. checkedIn \in Receipts
      BY <1>1, <2>1 DEF Receipts, Snapshots
    <2>3. Append(checkedIn.audit, Entry(earlier, "undone")) \in Seq(Entries) \ {<<>>}
      BY <2>1, <2>2 DEF Receipts
    <2>4. undone \in Receipts
      BY <2>2, <2>3 DEF Receipts
    <2>5. QED
      BY <2>2, <2>4 DEF EarlierReceipts
  <1>3. receipt \in [Slots -> Receipts \cup {NoReceipt}]
    BY <1>1, <1>2
  <1>4. \A s \in Slots : receipt[s] = NoReceipt \/ receipt[s].etag \in Nat
    BY <1>3 DEF Receipts
  <1>5. version \in [Slots -> Nat]
    BY <1>4 DEF MergeInit
  <1>6. DirectoryOK
    BY MaxEditsType DEF MergeInit, DirectoryOK, Snapshots
  <1>7. RequestOK /\ HandlerOK /\ UndoHoldsReceipt
    BY DEF MergeInit, RequestOK, HandlerOK, UndoHoldsReceipt, Snapshots, Steps, Answers
  <1>8. DataOK
    BY <1>3, <1>5, <1>6, <1>7 DEF DataOK, TypeInv, TypeOK, AttendanceOK, MergeInit, Snapshots
  <1>9. MergeRecordsOK /\ \A x \in Merges : Keep(x) # Lose(x)
    BY IdleType DEF MergeInit, MergeRecordsOK, Keep, Lose
  <1>10. ControlOK
    BY <1>9 DEF MergeInit, ControlOK, Stages, Outcomes, Fits, Saving, Loading
  <1>11. QED
    BY <1>8, <1>10 DEF MergeTypeInv

(* Types of the merges and of the documents they share with the check-in   *)
(* handlers (MemberMergeService.Merge).                                    *)
THEOREM MergeTypeCorrect == MergeSpec => []MergeTypeOK
  <1>1. MergeTypeInv /\ [MergeNext]_mergeVars => MergeTypeInv'
    BY MergeSteps
  <1>2. QED
    BY MergeTypesInit, MergeTypes, <1>1, PTL DEF MergeSpec

-----------------------------------------------------------------------------
(* Copies of members.  A copy with the stored ETag is the stored document, *)
(* so a write that is accepted changes that document and no older one.     *)

FreshDoc(copy, m) == copy.etag <= tag[m] /\ (copy.etag = tag[m] => copy = Doc(m))

CopyOK(x) ==
    /\ stage[x] # "waiting" => sent[x].keep <= tag[Keep(x)] /\ sent[x].lose <= tag[Lose(x)]
    /\ stage[x] = "release" => FreshDoc(work[x].lose, Lose(x))
    /\ stage[x] \in {"save_groups", "save"} =>
           FreshDoc(work[x].keep, Keep(x)) /\ work[x].keep.etag = sent[x].keep
    /\ stage[x] = "archive" => FreshDoc(work[x].lose, Lose(x)) /\ sent[x].lose <= work[x].lose.etag

CopyInv == \A x \in Merges : CopyOK(x)

LEMMA CopiesStayFresh ==
    ASSUME MergeTypeInv, DataMoves
    PROVE  \A m \in Members :
               /\ tag[m] <= tag'[m]
               /\ \A copy \in MemberDocs : FreshDoc(copy, m) => FreshDoc(copy, m)'
  <1> SUFFICES ASSUME NEW m \in Members
               PROVE  /\ tag[m] <= tag'[m]
                      /\ \A copy \in MemberDocs : FreshDoc(copy, m) => FreshDoc(copy, m)'
    OBVIOUS
  <1>1. tag[m] \in Nat /\ tag'[m] \in Nat
    BY DEF MergeTypeInv, DataOK, DataMoves
  <1>2. \A copy \in MemberDocs : copy.etag \in Nat
    BY DEF MemberDocs
  <1>3. CASE Doc(m)' = Doc(m)
    <2>1. tag'[m] = tag[m]
      BY <1>3 DEF Doc
    <2>2. QED
      BY <1>1, <1>3, <2>1 DEF FreshDoc
  <1>4. CASE tag'[m] = tag[m] + 1
    BY <1>1, <1>2, <1>4 DEF FreshDoc
  <1>5. QED
    BY <1>3, <1>4 DEF DataMoves, MemberMoves

(* What a merge has just read when it is about to write.                   *)
LEMMA BeforeWrites ==
    ASSUME MergeTypeInv, NEW x \in Merges, Merge(x)
    PROVE  /\ Call(x) \/ (stage[x] # "waiting" /\ sent'[x] = sent[x])
           /\ stage'[x] = "release" => LoadLoser(x) /\ work'[x].lose = Doc(Lose(x))
           /\ stage'[x] \in {"save_groups", "save"} =>
                  \/ /\ SaveReadsKeeper(x)
                     /\ work'[x].keep = Doc(Keep(x)) /\ tag[Keep(x)] = sent[x].keep
                  \/ /\ \E g \in Groups : SaveReadsGroup(x, g)
                     /\ stage[x] = "save_groups" /\ work'[x].keep = work[x].keep
           /\ stage'[x] = "archive" => ArchiveReadsLoser(x) /\ work'[x].lose = Doc(Lose(x))
  <1> USE DEF MergeTypeInv, ControlOK, MergeRecordsOK, Proceed, End, OnlyReads, OnlyMerging
  <1>0. work[x] \in Held /\ stage[x] \in Stages
    BY MergeParts
  <1>1. CASE Call(x)
    BY <1>1 DEF Call
  <1>2. CASE LoadKeeper(x)
    BY <1>2 DEF LoadKeeper
  <1>3. CASE LoadLoser(x)
    <2>1. [work[x] EXCEPT !.lose = Doc(Lose(x)), !.todo = Occurrences].lose = Doc(Lose(x))
      BY <1>0 DEF Held
    <2>2. AfterLoad(sent[x].update, Doc(Lose(x))) \notin {"save_groups", "save", "archive"}
      BY DEF AfterLoad
    <2>3. /\ stage[x] # "waiting" /\ sent'[x] = sent[x]
          /\ \/ stage'[x] = "done"
             \/ /\ stage'[x] = AfterLoad(sent[x].update, Doc(Lose(x)))
                /\ work'[x] = [work[x] EXCEPT !.lose = Doc(Lose(x)), !.todo = Occurrences]
      BY <1>3 DEF LoadLoser
    <2>4. QED
      BY <1>3, <2>1, <2>2, <2>3
  <1>4. CASE ReleaseCode(x)
    BY <1>4 DEF ReleaseCode
  <1>5. CASE SaveReadsChurch(x)
    BY <1>5 DEF SaveReadsChurch
  <1>6. CASE SaveReadsKeeper(x)
    <2>1. [work[x] EXCEPT !.keep = Doc(Keep(x)), !.unread = sent[x].update.groups].keep = Doc(Keep(x))
      BY <1>0 DEF Held
    <2>2. QED
      BY <1>6, <2>1 DEF SaveReadsKeeper, SaveGoesOn
  <1>14. ASSUME NEW g \in Groups, SaveReadsGroup(x, g)
         PROVE  /\ stage[x] = "save_groups" /\ sent'[x] = sent[x]
                /\ stage'[x] \in {"save_groups", "save", "done"}
                /\ stage'[x] # "done" => work'[x].keep = work[x].keep
    <2>1. [work[x] EXCEPT !.unread = @ \ {g}].keep = work[x].keep
      BY <1>0 DEF Held
    <2>2. QED
      BY <1>14, <2>1 DEF SaveReadsGroup, SaveGoesOn
  <1>7. CASE SaveKeeper(x)
    BY <1>7 DEF SaveKeeper
  <1>8. ASSUME NEW o \in Occurrences, GatherKeeper(x, o) \/ GatherLoser(x, o)
        PROVE  /\ stage[x] # "waiting" /\ sent'[x] = sent[x]
               /\ stage'[x] \notin {"release", "save_groups", "save", "archive"}
    BY <1>8 DEF GatherKeeper, GatherLoser, Loop
  <1>9. ASSUME NEW o \in Occurrences, DropDuplicate(x, o) \/ MoveReceipt(x, o)
        PROVE  /\ stage[x] # "waiting" /\ sent'[x] = sent[x]
               /\ stage'[x] \notin {"release", "save_groups", "save", "archive"}
    BY <1>9 DEF DropDuplicate, MoveReceipt, NextReceipt, Loop
  <1>10. CASE ArchiveReadsChurch(x)
    BY <1>10 DEF ArchiveReadsChurch
  <1>11. CASE ArchiveReadsLoser(x)
    BY <1>0, <1>11 DEF ArchiveReadsLoser, Held
  <1>12. CASE ArchiveLoser(x)
    BY <1>12 DEF ArchiveLoser
  <1>13. QED
    BY <1>1, <1>2, <1>3, <1>4, <1>5, <1>6, <1>7, <1>8, <1>9, <1>10, <1>11, <1>12, <1>14 DEF Merge

LEMMA CopyStep == MergeTypeInv /\ CopyInv /\ [MergeNext]_mergeVars => CopyInv'
  <1> SUFFICES ASSUME MergeTypeInv, CopyInv, [MergeNext]_mergeVars
               PROVE  CopyInv'
    OBVIOUS
  <1>1. MergeTypeInv' /\ DataMoves
    BY MergeSteps
  <1>2. \A m \in Members : /\ tag[m] \in Nat /\ tag'[m] \in Nat /\ tag[m] <= tag'[m]
                           /\ \A copy \in MemberDocs : FreshDoc(copy, m) => FreshDoc(copy, m)'
    BY <1>1, CopiesStayFresh DEF MergeTypeInv, DataOK
  <1>3. \A x \in Merges : /\ Keep(x) \in Members /\ Lose(x) \in Members
                          /\ sent[x] # None => sent[x].keep \in Nat /\ sent[x].lose \in Nat
                          /\ stage[x] # "waiting" => sent[x] # None
    BY MergeParts DEF MergeTypeInv, ControlOK, Fits, MergeCalls
  <1>4. \A x \in Merges : Keep(x)' = Keep(x) /\ Lose(x)' = Lose(x)
    BY MergeSteps DEF Keep, Lose
  <1>5. ASSUME NEW y \in Merges, Untouched(y)
        PROVE  CopyOK(y)'
    <2>1. /\ stage[y] = "release" => work[y].lose \in MemberDocs
          /\ stage[y] \in {"save_groups", "save"} => work[y].keep \in MemberDocs
          /\ stage[y] = "archive" => work[y].lose \in MemberDocs
      BY MergeParts, HeldFields DEF MergeTypeInv, ControlOK, Fits, Loading
    <2>2. CopyOK(y)
      BY DEF CopyInv
    <2>3. QED
      BY <1>2, <1>3, <1>4, <1>5, <2>1, <2>2 DEF CopyOK, Untouched, FreshDoc
  <1>6. ASSUME NEW x \in Merges, Merge(x)
        PROVE  CopyOK(x)'
    <2>1. CASE Call(x)
      BY <1>2, <1>3, <1>4, <2>1
         DEF Call, Proceed, CopyOK, Shared, details, MergeTypeInv, ControlOK, MergeRecordsOK
    <2>2. CASE ~Call(x)
      <3>1. CopyOK(x) /\ stage[x] # "waiting" /\ sent'[x] = sent[x]
        BY <1>6, <2>2, BeforeWrites DEF CopyInv
      <3>2. sent'[x].keep <= tag'[Keep(x)] /\ sent'[x].lose <= tag'[Lose(x)]
        BY <1>2, <1>3, <3>1 DEF CopyOK
      <3>3. ASSUME stage'[x] \in {"release", "archive"}
            PROVE  UNCHANGED <<status, groups, tag, code>> /\ work'[x].lose = Doc(Lose(x))
        BY <1>6, <3>3, BeforeWrites
           DEF LoadLoser, ArchiveReadsLoser, OnlyReads, Shared, directory, details
      <3>4. ASSUME stage'[x] \in {"release", "archive"}
            PROVE  FreshDoc(work[x].lose, Lose(x))' /\ sent[x].lose <= work'[x].lose.etag
        BY <1>2, <1>3, <1>4, <3>1, <3>3, <3>4 DEF FreshDoc, Doc, CopyOK
      <3>5. ASSUME stage'[x] \in {"save_groups", "save"}
            PROVE  FreshDoc(work[x].keep, Keep(x))' /\ work'[x].keep.etag = sent[x].keep
        <4>1. /\ UNCHANGED <<status, groups, tag, code>>
              /\ \/ work'[x].keep = Doc(Keep(x)) /\ tag[Keep(x)] = sent[x].keep
                 \/ stage[x] = "save_groups" /\ work'[x].keep = work[x].keep
          BY <1>6, <3>5, BeforeWrites
             DEF SaveReadsKeeper, SaveReadsGroup, OnlyReads, Shared, directory, details
        <4>2. CASE work'[x].keep = Doc(Keep(x)) /\ tag[Keep(x)] = sent[x].keep
          BY <1>2, <1>3, <1>4, <4>1, <4>2 DEF FreshDoc, Doc
        <4>3. CASE stage[x] = "save_groups" /\ work'[x].keep = work[x].keep
          BY <1>4, <3>1, <4>1, <4>3 DEF FreshDoc, Doc, CopyOK
        <4>4. QED
          BY <4>1, <4>2, <4>3
      <3>6. QED
        BY <1>4, <3>1, <3>2, <3>4, <3>5 DEF CopyOK
    <2>3. QED
      BY <2>1, <2>2
  <1>7. QED
    BY <1>5, <1>6, MergeSteps DEF CopyInv

LEMMA CopyInit == MergeInit => CopyInv
  BY DEF MergeInit, CopyInv, CopyOK

-----------------------------------------------------------------------------
(* The writes of a merge on members are changes of what is stored.         *)

Frees(x) == PutMember(Lose(x), [Doc(Lose(x)) EXCEPT !.code = None])

Rewrites(x) ==
    \E gs \in Snapshots, c \in Codes \cup {None} :
        /\ MayAssign(Keep(x), c)
        /\ PutMember(Keep(x), [Doc(Keep(x)) EXCEPT !.groups = gs, !.code = c])

Archives(x) ==
    /\ tag[Lose(x)] = sent[x].lose
    /\ PutMember(Lose(x), [Doc(Lose(x)) EXCEPT !.active = FALSE])
    /\ result'[x] = "merged"

(* A copy no older than what is stored is what is stored.                  *)
LEMMA CurrentCopy ==
    ASSUME NEW m \in Members, NEW copy \in MemberDocs, FreshDoc(copy, m), tag[m] \in Nat,
           tag[m] <= copy.etag
    PROVE  copy = Doc(m)
  <1>1. copy.etag \in Nat
    BY DEF MemberDocs
  <1>2. QED
    BY <1>1 DEF FreshDoc

LEMMA MemberWrites ==
    ASSUME MergeTypeInv, CopyInv, NEW x \in Merges, Merge(x)
    PROVE  \/ UNCHANGED <<directory, details>> /\ result'[x] # "merged"
           \/ (Frees(x) \/ Rewrites(x)) /\ result'[x] # "merged"
           \/ Archives(x)
  <1> USE DEF MergeTypeInv, ControlOK, MergeRecordsOK, Proceed, End, OnlyReads, OnlyMerging,
              Shared, RefusedUnless
  <1>0. /\ work[x] \in Held /\ sent[x] \in MergeCalls \cup {None}
        /\ Keep(x) \in Members /\ Lose(x) \in Members /\ CopyOK(x)
        /\ \A m \in Members : Doc(m) \in MemberDocs
    BY MergeParts DEF CopyInv
  <1>1. CASE Call(x) \/ LoadKeeper(x) \/ LoadLoser(x)
    BY <1>1 DEF Call, LoadKeeper, LoadLoser
  <1>2. CASE SaveReadsChurch(x) \/ SaveReadsKeeper(x) \/ ArchiveReadsChurch(x) \/ ArchiveReadsLoser(x)
    BY <1>2 DEF SaveReadsChurch, SaveReadsKeeper, SaveGoesOn, ArchiveReadsChurch, ArchiveReadsLoser
  <1>9. ASSUME NEW g \in Groups, SaveReadsGroup(x, g)
        PROVE  UNCHANGED <<directory, details>> /\ result'[x] # "merged"
    BY <1>9 DEF SaveReadsGroup, SaveGoesOn
  <1>3. ASSUME NEW o \in Occurrences, GatherKeeper(x, o) \/ GatherLoser(x, o)
        PROVE  UNCHANGED <<directory, details>> /\ result'[x] # "merged"
    BY <1>3 DEF GatherKeeper, GatherLoser, Loop
  <1>4. ASSUME NEW o \in Occurrences, DropDuplicate(x, o) \/ MoveReceipt(x, o)
        PROVE  UNCHANGED <<directory, details>> /\ result'[x] # "merged"
    BY <1>4 DEF DropDuplicate, MoveReceipt, NextReceipt, Loop, Store!ReplaceRefusal,
                Store!TransferRefusal
  <1>5. CASE ReleaseCode(x)
    <2>1. CASE Store!MayReplace(Doc(Lose(x)), work[x].lose.etag)
      <3>1. work[x].lose = Doc(Lose(x))
        BY <1>0, <1>5, <2>1 DEF ReleaseCode, CopyOK, FreshDoc, Store!MayReplace, Doc
      <3>2. QED
        BY <1>5, <2>1, <3>1 DEF ReleaseCode, Frees
    <2>2. CASE ~Store!MayReplace(Doc(Lose(x)), work[x].lose.etag)
      BY <1>5, <2>2 DEF ReleaseCode
    <2>3. QED
      BY <2>1, <2>2
  <1>6. CASE SaveKeeper(x)
    <2>1. CASE /\ Store!MayReplace(Doc(Keep(x)), sent[x].keep)
               /\ MayAssign(Keep(x), Updated(x).code)
      <3>1. work[x].keep = Doc(Keep(x))
        BY <1>0, <1>6, <2>1 DEF SaveKeeper, CopyOK, FreshDoc, Store!MayReplace, Doc
      <3>2. sent[x] \in MergeCalls /\ sent[x].update # None
        BY <1>0, <1>6 DEF SaveKeeper, Fits, Saving
      <3>3. PICK gs \in Snapshots, c \in Codes \cup {None} :
                Updated(x) = [Doc(Keep(x)) EXCEPT !.groups = gs, !.code = c]
        <4>1. sent[x].update \in MemberUpdates /\ Doc(Keep(x)) \in MemberDocs
          BY <1>0, <3>2 DEF MergeCalls
        <4>2. Doc(Keep(x)).code \in Codes \cup {None}
          BY <4>1 DEF MemberDocs
        <4>3. QED
          BY <3>1, <4>1, <4>2, UpdateFields DEF Updated
      <3>4. Updated(x).code = c
        BY <1>0, <3>3 DEF MemberDocs
      <3>5. PutMember(Keep(x), Updated(x)) /\ result'[x] # "merged"
        BY <1>6, <2>1 DEF SaveKeeper
      <3>6. /\ MayAssign(Keep(x), c)
            /\ PutMember(Keep(x), [Doc(Keep(x)) EXCEPT !.groups = gs, !.code = c])
        BY <2>1, <3>3, <3>4, <3>5
      <3>7. Rewrites(x)
        BY <3>6 DEF Rewrites
      <3>8. QED
        BY <3>5, <3>7
    <2>2. CASE ~(/\ Store!MayReplace(Doc(Keep(x)), sent[x].keep)
                 /\ MayAssign(Keep(x), Updated(x).code))
      BY <1>6, <2>2 DEF SaveKeeper
    <2>3. QED
      BY <2>1, <2>2
  <1>7. CASE ArchiveLoser(x)
    <2>1. CASE Store!MayReplace(Doc(Lose(x)), sent[x].lose)
      <3>1. tag[Lose(x)] = sent[x].lose
        BY <2>1 DEF Store!MayReplace, Doc
      <3>2. /\ FreshDoc(work[x].lose, Lose(x)) /\ sent[x].lose <= work[x].lose.etag
            /\ work[x].lose # None
        BY <1>0, <1>7 DEF ArchiveLoser, CopyOK, Fits, Loading
      <3>3. work[x].lose \in MemberDocs /\ tag[Lose(x)] \in Nat
        BY <1>0, <3>2 DEF DataOK, Held
      <3>4. work[x].lose = Doc(Lose(x))
        BY <1>0, <3>1, <3>2, <3>3, CurrentCopy
      <3>5. /\ PutMember(Lose(x), [work[x].lose EXCEPT !.active = FALSE])
            /\ result'[x] = "merged"
        BY <1>7, <2>1 DEF ArchiveLoser
      <3>6. PutMember(Lose(x), [Doc(Lose(x)) EXCEPT !.active = FALSE])
        BY <3>4, <3>5
      <3>7. Archives(x)
        BY <3>1, <3>5, <3>6 DEF Archives
      <3>8. QED
        BY <3>7
    <2>2. CASE ~Store!MayReplace(Doc(Lose(x)), sent[x].lose)
      BY <1>7, <2>2 DEF ArchiveLoser
    <2>3. QED
      BY <2>1, <2>2
  <1>8. QED
    BY <1>1, <1>2, <1>3, <1>4, <1>5, <1>6, <1>7, <1>9 DEF Merge

(* What such a write does to the parts of a member document.               *)
LEMMA PutMemberParts ==
    ASSUME MergeTypeInv, NEW m \in Members, NEW doc \in MemberDocs, PutMember(m, doc)
    PROVE  /\ code' = [code EXCEPT ![m] = doc.code] /\ groups' = [groups EXCEPT ![m] = doc.groups]
           /\ \A d \in Documents \ {m} : status'[d] = status[d]
           /\ status'[m] = IF doc.active THEN "active" ELSE "archived"
  BY DEF PutMember, MergeTypeInv, DataOK, TypeInv, TypeOK, DirectoryOK, Documents

LEMMA FreesParts ==
    ASSUME MergeTypeInv, NEW x \in Merges, Frees(x)
    PROVE  /\ code' = [code EXCEPT ![Lose(x)] = None]
           /\ \A d \in Documents : status[d] = "archived" => status'[d] = "archived"
  <1>1. Doc(Lose(x)) \in MemberDocs /\ Lose(x) \in Members
    BY MergeParts
  <1> DEFINE doc == [Doc(Lose(x)) EXCEPT !.code = None]
  <1>2. doc \in MemberDocs /\ doc.code = None /\ doc.active = (status[Lose(x)] = "active")
    BY <1>1 DEF MemberDocs, Doc
  <1>3. PutMember(Lose(x), doc)
    BY DEF Frees
  <1> HIDE DEF doc
  <1>4. QED
    BY <1>1, <1>2, <1>3, PutMemberParts

LEMMA RewritesParts ==
    ASSUME MergeTypeInv, NEW x \in Merges, Rewrites(x)
    PROVE  /\ \E c \in Codes \cup {None} :
                  MayAssign(Keep(x), c) /\ code' = [code EXCEPT ![Keep(x)] = c]
           /\ \A d \in Documents : status[d] = "archived" => status'[d] = "archived"
  <1>1. Doc(Keep(x)) \in MemberDocs /\ Keep(x) \in Members
    BY MergeParts
  <1>2. PICK gs \in Snapshots, c \in Codes \cup {None} :
            /\ MayAssign(Keep(x), c)
            /\ PutMember(Keep(x), [Doc(Keep(x)) EXCEPT !.groups = gs, !.code = c])
    BY DEF Rewrites
  <1> DEFINE doc == [Doc(Keep(x)) EXCEPT !.groups = gs, !.code = c]
  <1>3. doc \in MemberDocs /\ doc.code = c /\ doc.active = (status[Keep(x)] = "active")
    BY <1>1 DEF MemberDocs, Doc
  <1>4. PutMember(Keep(x), doc)
    BY <1>2
  <1> HIDE DEF doc
  <1>5. QED
    BY <1>1, <1>2, <1>3, <1>4, PutMemberParts

LEMMA ArchivesParts ==
    ASSUME MergeTypeInv, NEW x \in Merges, Archives(x)
    PROVE  /\ UNCHANGED <<groups, code>> /\ status'[Lose(x)] = "archived"
           /\ \A d \in Documents : status[d] = "archived" => status'[d] = "archived"
  <1>1. Doc(Lose(x)) \in MemberDocs /\ Lose(x) \in Members
    BY MergeParts
  <1> DEFINE doc == [Doc(Lose(x)) EXCEPT !.active = FALSE]
  <1>2. /\ doc \in MemberDocs /\ doc.code = code[Lose(x)] /\ doc.groups = groups[Lose(x)]
        /\ ~doc.active
    BY <1>1 DEF MemberDocs, Doc
  <1>3. PutMember(Lose(x), doc)
    BY DEF Archives
  <1> HIDE DEF doc
  <1>4. /\ code' = [code EXCEPT ![Lose(x)] = code[Lose(x)]]
        /\ groups' = [groups EXCEPT ![Lose(x)] = groups[Lose(x)]]
        /\ status'[Lose(x)] = "archived"
        /\ \A d \in Documents \ {Lose(x)} : status'[d] = status[d]
    BY <1>1, <1>2, <1>3, PutMemberParts
  <1>5. UNCHANGED <<groups, code>>
    BY <1>4 DEF MergeTypeInv, DataOK, TypeInv, TypeOK, DirectoryOK
  <1>6. QED
    BY <1>4, <1>5

(* Scan codes.                                                             *)
LEMMA CodesStep == MergeTypeInv /\ CopyInv /\ CodesUnique /\ [MergeNext]_mergeVars => CodesUnique'
  <1> SUFFICES ASSUME MergeTypeInv, CopyInv, CodesUnique, [MergeNext]_mergeVars
               PROVE  CodesUnique'
    OBVIOUS
  <1>0. code \in [Members -> Codes \cup {None}]
    BY DEF MergeTypeInv, DataOK
  <1>1. CASE UNCHANGED code
    BY <1>1 DEF CodesUnique
  <1>2. ASSUME NEW m \in Members, NEW c \in Codes \cup {None}, MayAssign(m, c),
               code' = [code EXCEPT ![m] = c]
        PROVE  CodesUnique'
    BY <1>0, <1>2 DEF CodesUnique, MayAssign
  <1>3. ASSUME NEW x \in Merges, Merge(x)
        PROVE  CodesUnique'
    <2>1. Keep(x) \in Members /\ Lose(x) \in Members /\ MayAssign(Lose(x), None)
      BY MergeParts DEF MayAssign
    <2>2. CASE UNCHANGED <<directory, details>>
      BY <1>1, <2>2 DEF details
    <2>3. CASE Frees(x)
      BY <1>2, <2>1, <2>3, FreesParts
    <2>4. CASE Rewrites(x)
      BY <1>2, <2>1, <2>4, RewritesParts
    <2>5. CASE Archives(x)
      BY <1>1, <2>5, ArchivesParts
    <2>6. QED
      BY <1>3, <2>2, <2>3, <2>4, <2>5, MemberWrites
  <1>4. CASE Elsewhere
    <2>1. CASE \/ UNCHANGED details \/ \E m \in Members : EditMember(m)
               \/ \E g \in Groups : RetireGroup(g)
      BY <1>1, <2>1 DEF details, EditMember, RetireGroup
    <2>2. CASE \E m \in Members, c \in Codes \cup {None} : Recode(m, c)
      BY <1>2, <2>2 DEF Recode
    <2>3. QED
      BY <1>4, <2>1, <2>2 DEF Elsewhere
  <1>5. CASE UNCHANGED mergeVars
    BY <1>1, <1>5 DEF mergeVars, details
  <1>6. QED
    BY <1>3, <1>4, <1>5, MergeSteps

(* A scan code identifies one member, through merges that move a code and  *)
(* whatever is saved beside them (MemberMergeService.Merge, SaveMember).   *)
THEOREM CodesStayUnique == MergeSpec => []CodesUnique
  <1>1. MergeInit => CodesUnique
    BY DEF MergeInit, CodesUnique, MayAssign
  <1>2. MergeTypeInv /\ [MergeNext]_mergeVars => MergeTypeInv'
    BY MergeSteps
  <1>3. QED
    BY MergeTypesInit, CopyInit, <1>1, <1>2, CopyStep, CodesStep, PTL DEF MergeSpec

(* The merge archives the version of the loser that its caller saw, and    *)
(* undoes nobody's edit of it (the last call of MemberMergeService.Merge). *)
THEOREM ArchivedAsSeen == MergeSpec => ArchivesWhatTheCallerSaw
  <1>1. MergeTypeInv /\ CopyInv /\ [MergeNext]_mergeVars =>
            [\A x \in Merges : result[x] # "merged" /\ result'[x] = "merged" =>
                 /\ tag[Lose(x)] = sent[x].lose
                 /\ UNCHANGED <<groups, code>>]_mergeVars
    <2> SUFFICES ASSUME MergeTypeInv, CopyInv, [MergeNext]_mergeVars,
                        NEW x \in Merges, result[x] # "merged", result'[x] = "merged"
                 PROVE  tag[Lose(x)] = sent[x].lose /\ UNCHANGED <<groups, code>>
      OBVIOUS
    <2>1. Merge(x)
      BY MergeSteps DEF Untouched
    <2>2. Archives(x)
      BY <2>1, MemberWrites
    <2>3. QED
      BY <2>2, ArchivesParts DEF Archives
  <1>2. MergeTypeInv /\ [MergeNext]_mergeVars => MergeTypeInv'
    BY MergeSteps
  <1>3. QED
    BY MergeTypesInit, CopyInit, <1>1, <1>2, CopyStep, PTL DEF MergeSpec, ArchivesWhatTheCallerSaw

-----------------------------------------------------------------------------
(* The loser ends empty and archived.  A receipt that was there when the   *)
(* merge looked is still to be handled, or has been.                       *)

Old(x, o) ==
    LET left == receipt[LoserSlot(x, o)] IN
    left # NoReceipt /\ left.active /\ left.etag <= gathered[x][o]

Past(x) == stage[x] \in {"archive_church", "archive_read", "archive"} \/ result[x] = "merged"

EmptyOK(x) ==
    /\ \A o \in Occurrences : gathered[x][o] <= version[LoserSlot(x, o)]
    /\ stage[x] = "gather_loser" =>
           \A o \in Occurrences : Old(x, o) => o \in work[x].todo \/ work[x].losers[o] # NoReceipt
    /\ stage[x] = "move" => \A o \in Occurrences : Old(x, o) => o \in work[x].todo
    /\ Past(x) => \A o \in Occurrences : ~Old(x, o)
    /\ result[x] = "merged" => status[Lose(x)] = "archived"

EmptyInv == \A x \in Merges : EmptyOK(x)

(* Archiving is final (DirectoryService.Save asks for an active document). *)
LEMMA StaysArchived ==
    ASSUME MergeTypeInv, CopyInv, [MergeNext]_mergeVars
    PROVE  \A d \in Documents : status[d] = "archived" => status'[d] = "archived"
  <1>1. ASSUME NEW x \in Merges, Merge(x)
        PROVE  \A d \in Documents : status[d] = "archived" => status'[d] = "archived"
    BY <1>1, MemberWrites, FreesParts, RewritesParts, ArchivesParts DEF directory
  <1>2. CASE UNCHANGED mergeVars
    BY <1>2 DEF mergeVars, vars, directory
  <1>3. CASE Elsewhere
    <2>1. ASSUME NEW r \in Requests, Handle(r)
          PROVE  UNCHANGED status
      BY <2>1, HandlersLeaveDirectory DEF directory
    <2>2. ASSUME NEW d \in Documents, ArchiveDocument(d)
          PROVE  status' = [status EXCEPT ![d] = "archived"] /\ status[d] # "archived"
      BY <2>2 DEF ArchiveDocument
    <2>3. status \in [Documents -> {"missing", "active", "archived"}]
      BY DEF MergeTypeInv, DataOK, TypeInv, TypeOK, DirectoryOK
    <2>4. Church \in Documents /\ Members \subseteq Documents
      BY DEF Documents
    <2>5. QED
      BY <1>3, <2>1, <2>2, <2>3, <2>4 DEF Elsewhere, EditMember, Regroup, Recode, RetireGroup
  <1>4. QED
    BY <1>1, <1>2, <1>3, MergeSteps

(* No step makes a receipt old by itself.                                  *)
LEMMA NoneGrowsOld ==
    ASSUME MergeTypeInv, DataMoves, UNCHANGED pair, NEW x \in Merges, NEW o \in Occurrences,
           EmptyOK(x), gathered'[x][o] = gathered[x][o]
    PROVE  /\ Old(x, o)' => Old(x, o)
           /\ gathered'[x][o] <= version'[LoserSlot(x, o)']
  <1> DEFINE s == LoserSlot(x, o)
  <1>1. LoserSlot(x, o)' = s /\ s \in Slots
    BY MergeParts DEF LoserSlot, Lose
  <1>2. /\ version[s] \in Nat /\ gathered[x][o] \in Nat /\ gathered[x][o] <= version[s]
        /\ version'[s] \in Nat
    BY <1>1 DEF MergeTypeInv, DataMoves, DataOK, TypeInv, TypeOK, AttendanceOK, ControlOK, EmptyOK
  <1>3. SlotMoves(s)
    BY <1>1 DEF DataMoves
  <1>4. CASE receipt'[s] = receipt[s] /\ version'[s] = version[s]
    BY <1>1, <1>2, <1>4 DEF Old
  <1>5. CASE receipt'[s].etag = version[s] + 1 /\ version'[s] = version[s] + 1
    BY <1>1, <1>2, <1>5 DEF Old
  <1>6. CASE receipt'[s] = NoReceipt /\ version'[s] = version[s]
    BY <1>1, <1>2, <1>6 DEF Old
  <1>7. QED
    BY <1>3, <1>4, <1>5, <1>6 DEF SlotMoves

(* What the loop goes on to, and with which receipts to handle.            *)
LEMMA LoopParts ==
    ASSUME MergeTypeInv, NEW x \in Merges, NEW held, Loop(x, held)
    PROVE  /\ work'[x] = held /\ result'[x] = result[x]
           /\ stage'[x] = IF held.todo = {} THEN "archive_church" ELSE "move"
  BY DEF Loop, Proceed, MergeTypeInv, ControlOK, MergeRecordsOK

LEMMA GatherLoserParts ==
    ASSUME MergeTypeInv, NEW x \in Merges, NEW o \in Occurrences, GatherLoser(x, o)
    PROVE  /\ UNCHANGED Shared /\ result'[x] = result[x] /\ stage[x] = "gather_loser"
           /\ gathered'[x][o] = version[LoserSlot(x, o)]
           /\ \A p \in Occurrences \ {o} : gathered'[x][p] = gathered[x][p]
           /\ work'[x].keepers = work[x].keepers
           /\ work'[x].losers[o] = ActiveOnly(receipt[LoserSlot(x, o)])
           /\ \A p \in Occurrences \ {o} : work'[x].losers[p] = work[x].losers[p]
           /\ \/ stage'[x] = "gather_loser" /\ work'[x].todo = work[x].todo \ {o}
              \/ /\ work[x].todo \subseteq {o}
                 /\ work'[x].todo = {p \in Occurrences : work'[x].losers[p] # NoReceipt}
                 /\ stage'[x] = IF work'[x].todo = {} THEN "archive_church" ELSE "move"
  <1> DEFINE found == ActiveOnly(receipt[LoserSlot(x, o)])
             held == [work[x] EXCEPT !.losers[o] = found, !.todo = @ \ {o}]
             last == [held EXCEPT !.todo = {p \in Occurrences : held.losers[p] # NoReceipt}]
  <1>1. /\ stage[x] = "gather_loser" /\ UNCHANGED Shared
        /\ gathered' = [gathered EXCEPT ![x][o] = version[LoserSlot(x, o)]]
    BY DEF GatherLoser
  <1>2. /\ gathered'[x][o] = version[LoserSlot(x, o)]
        /\ \A p \in Occurrences \ {o} : gathered'[x][p] = gathered[x][p]
    BY <1>1 DEF MergeTypeInv, ControlOK
  <1>3. found \in Receipts \cup {NoReceipt}
    BY MergeParts DEF ActiveOnly
  <1>4. /\ held \in Held /\ held.keepers = work[x].keepers
        /\ held.todo = work[x].todo \ {o} /\ held.losers[o] = found
        /\ \A p \in Occurrences \ {o} : held.losers[p] = work[x].losers[p]
    BY <1>3, MergeParts DEF Held
  <1>5. /\ last.losers = held.losers /\ last.keepers = held.keepers
        /\ last.todo = {p \in Occurrences : held.losers[p] # NoReceipt}
    BY <1>4 DEF Held
  <1>6. CASE held.todo = {}
    <2>1. Loop(x, last)
      BY <1>6 DEF GatherLoser
    <2> HIDE DEF held, last, found
    <2>2. /\ work'[x] = last /\ result'[x] = result[x]
          /\ stage'[x] = IF last.todo = {} THEN "archive_church" ELSE "move"
      BY <2>1, LoopParts
    <2>3. QED
      BY <1>1, <1>2, <1>4, <1>5, <1>6, <2>2 DEF found
  <1>7. CASE held.todo # {}
    <2>1. Proceed(x, "gather_loser", held)
      BY <1>7 DEF GatherLoser
    <2> HIDE DEF held, last, found
    <2>2. work'[x] = held /\ stage'[x] = "gather_loser" /\ result'[x] = result[x]
      BY <2>1 DEF Proceed, MergeTypeInv, ControlOK, MergeRecordsOK
    <2>3. QED
      BY <1>1, <1>2, <1>4, <2>2 DEF found
  <1>8. QED
    BY <1>6, <1>7

LEMMA GatherKeeperParts ==
    ASSUME MergeTypeInv, NEW x \in Merges, NEW o \in Occurrences, GatherKeeper(x, o)
    PROVE  /\ UNCHANGED Shared /\ UNCHANGED gathered
           /\ result'[x] = result[x] /\ stage[x] = "gather_keeper"
           /\ work'[x].losers = work[x].losers
           /\ work'[x].keepers[o] = receipt[KeeperSlot(x, o)]
           /\ \A p \in Occurrences \ {o} : work'[x].keepers[p] = work[x].keepers[p]
           /\ \/ stage'[x] = "gather_keeper" /\ work'[x].todo = work[x].todo \ {o}
              \/ /\ work[x].todo \subseteq {o}
                 /\ stage'[x] = "gather_loser" /\ work'[x].todo = Occurrences
  <1> DEFINE held == [work[x] EXCEPT !.keepers[o] = receipt[KeeperSlot(x, o)], !.todo = @ \ {o}]
             last == [held EXCEPT !.todo = Occurrences]
  <1>1. stage[x] = "gather_keeper" /\ UNCHANGED Shared /\ UNCHANGED gathered
    BY DEF GatherKeeper, OnlyReads, OnlyMerging
  <1>2. /\ held \in Held /\ held.losers = work[x].losers /\ held.todo = work[x].todo \ {o}
        /\ held.keepers[o] = receipt[KeeperSlot(x, o)]
        /\ \A p \in Occurrences \ {o} : held.keepers[p] = work[x].keepers[p]
    BY MergeParts DEF Held
  <1>3. last.losers = held.losers /\ last.keepers = held.keepers /\ last.todo = Occurrences
    BY <1>2 DEF Held
  <1>4. \/ held.todo = {} /\ Proceed(x, "gather_loser", last)
        \/ Proceed(x, "gather_keeper", held)
    BY DEF GatherKeeper
  <1> HIDE DEF held, last
  <1>5. \/ held.todo = {} /\ work'[x] = last /\ stage'[x] = "gather_loser"
        \/ work'[x] = held /\ stage'[x] = "gather_keeper"
    BY <1>4 DEF Proceed, MergeTypeInv, ControlOK, MergeRecordsOK
  <1>6. result'[x] = result[x]
    BY <1>4 DEF Proceed
  <1>7. QED
    BY <1>1, <1>2, <1>3, <1>5, <1>6

(* A write of the loop: one receipt handled, the merge refused otherwise.  *)
LEMMA LoopWrites ==
    ASSUME MergeTypeInv, NEW x \in Merges, NEW o \in Occurrences,
           DropDuplicate(x, o) \/ MoveReceipt(x, o)
    PROVE  /\ UNCHANGED gathered /\ stage[x] = "move" /\ result'[x] # "merged"
           /\ \/ stage'[x] = "done" /\ UNCHANGED Shared
              \/ /\ stage'[x] = IF work'[x].todo = {} THEN "archive_church" ELSE "move"
                 /\ work'[x] = [work[x] EXCEPT !.todo = @ \ {o}]
                 /\ work'[x].todo = work[x].todo \ {o}
                 /\ work'[x].keepers = work[x].keepers /\ work'[x].losers = work[x].losers
                 /\ ~Old(x, o)'
  <1> DEFINE held == [work[x] EXCEPT !.todo = @ \ {o}]
  <1>1. /\ UNCHANGED <<gathered, pair>> /\ stage[x] = "move" /\ result[x] # "merged"
        /\ o \in work[x].todo /\ UNCHANGED <<directory, details>>
    BY DEF DropDuplicate, MoveReceipt, OnlyMerging, MergeTypeInv, ControlOK
  <1>2. held.todo = work[x].todo \ {o} /\ held.losers = work[x].losers /\ held.keepers = work[x].keepers
    BY MergeParts DEF Held
  <1>3. work[x].losers[o] \in Receipts /\ LoserSlot(x, o) \in Slots /\ KeeperSlot(x, o) \in Slots
    BY <1>1, GatheredLoser, MergeParts
  <1>4. /\ receipt \in [Slots -> Receipts \cup {NoReceipt}]
        /\ LoserSlot(x, o) # KeeperSlot(x, o)
        /\ version[LoserSlot(x, o)] \in Nat
    BY <1>3, MergeParts
       DEF MergeTypeInv, DataOK, TypeInv, TypeOK, AttendanceOK, LoserSlot, KeeperSlot
  <1>5. CASE NextReceipt(x, o)
    <2>1. Loop(x, held)
      BY <1>5 DEF NextReceipt
    <2>2. LoserSlot(x, o)' = LoserSlot(x, o)
      BY <1>1 DEF LoserSlot, Lose
    <2>3. ~Old(x, o)'
      <3>1. CASE DropDuplicate(x, o)
        <4> DEFINE s == LoserSlot(x, o)
                   doc == [Noted(x, work[x].losers[o], "merged_to", version[s] + 1)
                               EXCEPT !.active = FALSE]
        <4>1. Noted(x, work[x].losers[o], "merged_to", version[s] + 1) \in Receipts
          <5>1. version[s] + 1 \in Nat /\ "merged_to" \in Actions
            BY <1>4 DEF Actions
          <5>2. QED
            BY <1>3, <5>1, NotedType
        <4>2. ~doc.active
          BY <4>1 DEF Receipts
        <4>3. Put(s, doc) \/ End(x, Store!ReplaceRefusal(receipt[s]))
          BY <3>1 DEF DropDuplicate
        <4>4. stage'[x] # "done"
          BY <2>1 DEF Loop, Proceed, MergeTypeInv, ControlOK
        <4> HIDE DEF doc
        <4>5. receipt'[s] = doc
          BY <1>3, <1>4, <4>3, <4>4 DEF Put, End, MergeTypeInv, ControlOK
        <4>6. QED
          BY <2>2, <4>2, <4>5 DEF Old
      <3>2. CASE MoveReceipt(x, o)
        <4>1. \/ UNCHANGED attendance /\ stage'[x] = "done"
              \/ \E doc : PutInstead(LoserSlot(x, o), KeeperSlot(x, o), doc)
          BY <3>2 DEF MoveReceipt, End, MergeTypeInv, ControlOK
        <4>2. stage'[x] # "done"
          BY <2>1 DEF Loop, Proceed, MergeTypeInv, ControlOK
        <4>3. receipt'[LoserSlot(x, o)] = NoReceipt
          BY <1>3, <1>4, <4>1, <4>2 DEF PutInstead
        <4>4. QED
          BY <2>2, <4>3 DEF Old
      <3>3. QED
        BY <3>1, <3>2
    <2> HIDE DEF held
    <2>4. /\ work'[x] = held /\ result'[x] = result[x]
          /\ stage'[x] = IF held.todo = {} THEN "archive_church" ELSE "move"
      BY <2>1, LoopParts
    <2>5. QED
      BY <1>1, <1>2, <2>3, <2>4 DEF held
  <1>6. CASE ~NextReceipt(x, o)
    <2>1. UNCHANGED attendance /\ \E outcome \in Outcomes \ {"merged"} : End(x, outcome)
      BY <1>6 DEF DropDuplicate, MoveReceipt, Store!ReplaceRefusal, Store!TransferRefusal, Outcomes
    <2>2. QED
      BY <1>1, <2>1 DEF End, MergeTypeInv, ControlOK, Shared
  <1>7. QED
    BY <1>5, <1>6

(* The other steps of a merge: where they lead, and that they are no looks *)
(* at receipts.                                                            *)
LEMMA OtherParts ==
    ASSUME MergeTypeInv, NEW x \in Merges, Merge(x),
           \A o \in Occurrences : ~(GatherKeeper(x, o) \/ GatherLoser(x, o)),
           \A o \in Occurrences : ~(DropDuplicate(x, o) \/ MoveReceipt(x, o))
    PROVE  /\ UNCHANGED gathered /\ UNCHANGED attendance
           /\ stage'[x] \notin {"gather_loser", "move", "archive_church"}
           /\ stage'[x] \in {"archive_read", "archive"} =>
                  stage[x] \in {"archive_church", "archive_read"}
           /\ result'[x] = "merged" => stage[x] = "archive"
  <1> USE DEF MergeTypeInv, ControlOK, Proceed, End, OnlyReads, OnlyMerging, Shared,
              RefusedUnless
  <1>1. CASE Call(x) \/ LoadKeeper(x)
    BY <1>1 DEF Call, LoadKeeper
  <1>2. CASE LoadLoser(x)
    <2>1. AfterLoad(sent[x].update, Doc(Lose(x)))
              \in {"gather_keeper", "release", "save_church"}
      BY DEF AfterLoad
    <2>2. QED
      BY <1>2, <2>1 DEF LoadLoser
  <1>3. CASE ReleaseCode(x) \/ SaveKeeper(x)
    BY <1>3 DEF ReleaseCode, SaveKeeper
  <1>4. CASE SaveReadsChurch(x) \/ SaveReadsKeeper(x) \/ \E g \in Groups : SaveReadsGroup(x, g)
    BY <1>4 DEF SaveReadsChurch, SaveReadsKeeper, SaveReadsGroup, SaveGoesOn
  <1>5. CASE ArchiveReadsChurch(x) \/ ArchiveReadsLoser(x)
    BY <1>5 DEF ArchiveReadsChurch, ArchiveReadsLoser
  <1>6. CASE ArchiveLoser(x)
    BY <1>6 DEF ArchiveLoser
  <1>7. QED
    BY <1>1, <1>2, <1>3, <1>4, <1>5, <1>6 DEF Merge

LEMMA EmptyStep == MergeTypeInv /\ CopyInv /\ EmptyInv /\ [MergeNext]_mergeVars => EmptyInv'
  <1> SUFFICES ASSUME MergeTypeInv, CopyInv, EmptyInv, [MergeNext]_mergeVars
               PROVE  EmptyInv'
    OBVIOUS
  <1>1. MergeTypeInv' /\ DataMoves /\ UNCHANGED pair
    BY MergeSteps
  <1>2. \A x \in Merges : /\ Lose(x) \in Members /\ Lose(x)' = Lose(x) /\ Lose(x) \in Documents
                          /\ result[x] = "merged" => stage[x] = "done"
    BY <1>1, MergeParts DEF Lose, Documents, MergeTypeInv, ControlOK
  <1>3. \A x \in Merges : status[Lose(x)] = "archived" => status'[Lose(x)] = "archived"
    BY <1>2, StaysArchived
  <1>4. \A x \in Merges, o \in Occurrences :
            gathered'[x][o] = gathered[x][o] =>
                /\ Old(x, o)' => Old(x, o)
                /\ gathered'[x][o] <= version'[LoserSlot(x, o)']
    BY <1>1, NoneGrowsOld DEF EmptyInv
  <1>5. ASSUME NEW y \in Merges, Untouched(y)
        PROVE  EmptyOK(y)'
    BY <1>2, <1>3, <1>4, <1>5 DEF EmptyInv, EmptyOK, Untouched, Past
  <1>6. ASSUME NEW x \in Merges, Merge(x)
        PROVE  EmptyOK(x)'
    <2>1. EmptyOK(x)
      BY DEF EmptyInv
    <2>2. CASE \E o \in Occurrences : GatherKeeper(x, o)
      BY <1>2, <1>4, <2>1, <2>2, GatherKeeperParts DEF EmptyOK, Past
    <2>3. ASSUME NEW o \in Occurrences, GatherLoser(x, o)
          PROVE  EmptyOK(x)'
      <3>1. /\ UNCHANGED Shared /\ result'[x] = result[x] /\ stage[x] = "gather_loser"
            /\ gathered'[x][o] = version[LoserSlot(x, o)]
            /\ \A p \in Occurrences \ {o} : gathered'[x][p] = gathered[x][p]
            /\ work'[x].losers[o] = ActiveOnly(receipt[LoserSlot(x, o)])
            /\ \A p \in Occurrences \ {o} : work'[x].losers[p] = work[x].losers[p]
            /\ \/ stage'[x] = "gather_loser" /\ work'[x].todo = work[x].todo \ {o}
               \/ /\ work[x].todo \subseteq {o}
                  /\ work'[x].todo = {p \in Occurrences : work'[x].losers[p] # NoReceipt}
                  /\ stage'[x] = IF work'[x].todo = {} THEN "archive_church" ELSE "move"
        BY <2>3, GatherLoserParts
      <3>2. UNCHANGED <<receipt, version>> /\ LoserSlot(x, o)' = LoserSlot(x, o)
        BY <1>2, <3>1 DEF Shared, attendance, LoserSlot
      <3>3. Old(x, o)' => work'[x].losers[o] # NoReceipt
        BY <3>1, <3>2 DEF Old, ActiveOnly
      <3>4. \A p \in Occurrences \ {o} :
                Old(x, p)' => p \in work[x].todo \/ work'[x].losers[p] # NoReceipt
        BY <1>4, <2>1, <3>1 DEF EmptyOK
      <3>5. version[LoserSlot(x, o)] \in Nat
        BY MergeParts DEF MergeTypeInv, DataOK, TypeInv, TypeOK, AttendanceOK
      <3>6. \A p \in Occurrences : gathered'[x][p] <= version'[LoserSlot(x, p)']
        BY <1>4, <3>1, <3>2, <3>5
      <3>7. result'[x] # "merged"
        BY <1>2, <3>1
      <3>8. CASE stage'[x] = "gather_loser" /\ work'[x].todo = work[x].todo \ {o}
        BY <3>3, <3>4, <3>6, <3>7, <3>8 DEF EmptyOK, Past
      <3>9. CASE /\ work[x].todo \subseteq {o}
                 /\ work'[x].todo = {p \in Occurrences : work'[x].losers[p] # NoReceipt}
                 /\ stage'[x] = IF work'[x].todo = {} THEN "archive_church" ELSE "move"
        <4>1. \A p \in Occurrences : Old(x, p)' => p \in work'[x].todo
          BY <3>3, <3>4, <3>9
        <4>2. QED
          BY <3>6, <3>7, <3>9, <4>1 DEF EmptyOK, Past
      <3>10. QED
        BY <3>1, <3>8, <3>9
    <2>4. ASSUME NEW o \in Occurrences, DropDuplicate(x, o) \/ MoveReceipt(x, o)
          PROVE  EmptyOK(x)'
      <3>1. /\ UNCHANGED gathered /\ stage[x] = "move" /\ result'[x] # "merged"
            /\ \/ stage'[x] = "done"
               \/ /\ stage'[x] = IF work'[x].todo = {} THEN "archive_church" ELSE "move"
                  /\ work'[x].todo = work[x].todo \ {o} /\ ~Old(x, o)'
        BY <2>4, LoopWrites
      <3>2. \A p \in Occurrences : Old(x, p)' => p \in work[x].todo
        BY <1>4, <2>1, <3>1 DEF EmptyOK
      <3>3. \A p \in Occurrences : gathered'[x][p] <= version'[LoserSlot(x, p)']
        BY <1>4, <3>1
      <3>4. CASE stage'[x] = "done"
        BY <3>1, <3>3, <3>4 DEF EmptyOK, Past
      <3>5. CASE /\ stage'[x] = IF work'[x].todo = {} THEN "archive_church" ELSE "move"
                 /\ work'[x].todo = work[x].todo \ {o} /\ ~Old(x, o)'
        <4>1. \A p \in Occurrences : Old(x, p)' => p \in work'[x].todo
          BY <3>2, <3>5
        <4>2. QED
          BY <3>1, <3>3, <3>5, <4>1 DEF EmptyOK, Past
      <3>6. QED
        BY <3>1, <3>4, <3>5
    <2>5. CASE /\ \A o \in Occurrences : ~(GatherKeeper(x, o) \/ GatherLoser(x, o))
               /\ \A o \in Occurrences : ~(DropDuplicate(x, o) \/ MoveReceipt(x, o))
      <3>1. /\ UNCHANGED gathered
            /\ stage'[x] \notin {"gather_loser", "move", "archive_church"}
            /\ stage'[x] \in {"archive_read", "archive"} => Past(x)
            /\ result'[x] = "merged" => Past(x)
        BY <1>6, <2>5, OtherParts DEF Past
      <3>2. result'[x] = "merged" => status'[Lose(x)] = "archived"
        BY <1>6, MemberWrites, ArchivesParts
      <3>3. Past(x)' => Past(x)
        BY <3>1 DEF Past
      <3>4. QED
        BY <1>2, <1>4, <2>1, <3>1, <3>2, <3>3 DEF EmptyOK
    <2>6. QED
      BY <2>2, <2>3, <2>4, <2>5
  <1>7. QED
    BY <1>5, <1>6, MergeSteps DEF EmptyInv

LEMMA EmptyInit == MergeInit => EmptyInv
  <1> SUFFICES ASSUME MergeInit, NEW x \in Merges PROVE EmptyOK(x)
    BY DEF EmptyInv
  <1>1. \A o \in Occurrences : version[LoserSlot(x, o)] \in Nat /\ gathered[x][o] = 0
    BY MergeTypesInit, MergeParts
       DEF MergeInit, MergeTypeInv, DataOK, TypeInv, TypeOK, AttendanceOK
  <1>2. stage[x] = "waiting" /\ result[x] = "none"
    BY DEF MergeInit
  <1>3. QED
    BY <1>1, <1>2 DEF EmptyOK, Past

(* A merge that succeeded leaves the loser archived and without a check-in *)
(* that was there when the merge looked, whatever check-ins, undos, merges *)
(* and edits met it (MemberMergeService.Merge).                            *)
THEOREM LosersAreEmptied == MergeSpec => []MergedLoserEmptied
  <1>1. MergeTypeInv /\ EmptyInv => MergedLoserEmptied
    <2> SUFFICES ASSUME MergeTypeInv, EmptyInv, NEW x \in Merges, result[x] = "merged",
                        NEW o \in Occurrences,
                        receipt[LoserSlot(x, o)] # NoReceipt, receipt[LoserSlot(x, o)].active
                 PROVE  receipt[LoserSlot(x, o)].etag > gathered[x][o]
      BY DEF MergedLoserEmptied, EmptyInv, EmptyOK
    <2>1. ~Old(x, o)
      BY DEF EmptyInv, EmptyOK, Past
    <2>2. receipt[LoserSlot(x, o)].etag \in Nat /\ gathered[x][o] \in Nat
      BY MergeParts DEF Receipts, MergeTypeInv, ControlOK
    <2>3. QED
      BY <2>1, <2>2 DEF Old
  <1>2. MergeTypeInv /\ [MergeNext]_mergeVars => MergeTypeInv'
    BY MergeSteps
  <1>3. QED
    BY MergeTypesInit, CopyInit, EmptyInit, <1>1, <1>2, CopyStep, EmptyStep, PTL DEF MergeSpec

-----------------------------------------------------------------------------
(* A moved check-in is the stored one.  What a merge has gathered is what  *)
(* is stored as long as its ETag is.                                       *)

FreshReceipt(copy, s) ==
    /\ copy.etag <= version[s]
    /\ receipt[s] # NoReceipt /\ receipt[s].etag = copy.etag => receipt[s] = copy

GatheredOK(x) ==
    \A o \in Occurrences :
        /\ work[x].keepers[o] # NoReceipt => FreshReceipt(work[x].keepers[o], KeeperSlot(x, o))
        /\ work[x].losers[o] # NoReceipt => FreshReceipt(work[x].losers[o], LoserSlot(x, o))

GatheredInv == StoredVersions /\ \A x \in Merges : GatheredOK(x)

LEMMA ReceiptsStayFresh ==
    ASSUME MergeTypeInv, DataMoves
    PROVE  /\ StoredVersions => StoredVersions'
           /\ \A s \in Slots, copy \in Receipts : FreshReceipt(copy, s) => FreshReceipt(copy, s)'
  <1>1. \A s \in Slots : version[s] \in Nat /\ version'[s] \in Nat
    BY DEF MergeTypeInv, DataMoves, DataOK, TypeInv, TypeOK, AttendanceOK
  <1>2. \A copy \in Receipts : copy.etag \in Nat
    BY DEF Receipts
  <1>3. \A s \in Slots : SlotMoves(s)
    BY DEF DataMoves
  <1>4. StoredVersions => StoredVersions'
    BY <1>1, <1>3 DEF StoredVersions, SlotMoves
  <1>5. ASSUME NEW s \in Slots, NEW copy \in Receipts, FreshReceipt(copy, s)
        PROVE  FreshReceipt(copy, s)'
    BY <1>1, <1>2, <1>3, <1>5 DEF FreshReceipt, SlotMoves
  <1>6. QED
    BY <1>4, <1>5

(* The receipts a merge holds are those it held, or what it reads now.     *)
LEMMA HeldSteps ==
    ASSUME MergeTypeInv, NEW x \in Merges, Merge(x)
    PROVE  \A o \in Occurrences :
               /\ \/ work'[x].keepers[o] \in {work[x].keepers[o], NoReceipt}
                  \/ work'[x].keepers[o] = receipt[KeeperSlot(x, o)] /\ UNCHANGED attendance
               /\ \/ work'[x].losers[o] \in {work[x].losers[o], NoReceipt}
                  \/ work'[x].losers[o] = receipt[LoserSlot(x, o)] /\ UNCHANGED attendance
  <1> USE DEF MergeTypeInv, ControlOK, MergeRecordsOK, Proceed, End, OnlyReads, OnlyMerging
  <1>0. /\ work[x] \in Held
        /\ \A o \in Occurrences : Idle.keepers[o] = NoReceipt /\ Idle.losers[o] = NoReceipt
    BY MergeParts DEF Idle
  <1>1. ASSUME NEW p \in Occurrences, GatherKeeper(x, p)
        PROVE  \A o \in Occurrences :
               /\ \/ work'[x].keepers[o] \in {work[x].keepers[o], NoReceipt}
                  \/ work'[x].keepers[o] = receipt[KeeperSlot(x, o)] /\ UNCHANGED attendance
               /\ \/ work'[x].losers[o] \in {work[x].losers[o], NoReceipt}
                  \/ work'[x].losers[o] = receipt[LoserSlot(x, o)] /\ UNCHANGED attendance
    <2>1. /\ UNCHANGED attendance /\ work'[x].losers = work[x].losers
          /\ work'[x].keepers[p] = receipt[KeeperSlot(x, p)]
          /\ \A o \in Occurrences \ {p} : work'[x].keepers[o] = work[x].keepers[o]
      BY <1>1, GatherKeeperParts DEF Shared
    <2>2. QED
      BY <2>1
  <1>2. ASSUME NEW p \in Occurrences, GatherLoser(x, p)
        PROVE  \A o \in Occurrences :
               /\ \/ work'[x].keepers[o] \in {work[x].keepers[o], NoReceipt}
                  \/ work'[x].keepers[o] = receipt[KeeperSlot(x, o)] /\ UNCHANGED attendance
               /\ \/ work'[x].losers[o] \in {work[x].losers[o], NoReceipt}
                  \/ work'[x].losers[o] = receipt[LoserSlot(x, o)] /\ UNCHANGED attendance
    <2>1. /\ UNCHANGED attendance /\ work'[x].keepers = work[x].keepers
          /\ work'[x].losers[p] \in {receipt[LoserSlot(x, p)], NoReceipt}
          /\ \A o \in Occurrences \ {p} : work'[x].losers[o] = work[x].losers[o]
      BY <1>2, GatherLoserParts DEF Shared, ActiveOnly
    <2>2. QED
      BY <2>1
  <1>3. ASSUME NEW o \in Occurrences, DropDuplicate(x, o) \/ MoveReceipt(x, o)
        PROVE  \/ work'[x] = Idle
               \/ work'[x].keepers = work[x].keepers /\ work'[x].losers = work[x].losers
    <2>1. CASE NextReceipt(x, o)
      BY <1>3, <2>1, LoopWrites DEF NextReceipt, Loop
    <2>2. CASE ~NextReceipt(x, o)
      BY <1>3, <2>2 DEF DropDuplicate, MoveReceipt
    <2>3. QED
      BY <2>1, <2>2
  <1>4. CASE Call(x) \/ ReleaseCode(x) \/ SaveReadsChurch(x) \/ SaveKeeper(x)
    BY <1>0, <1>4 DEF Call, ReleaseCode, SaveReadsChurch, SaveKeeper
  <1>5. CASE LoadKeeper(x)
    <2>1. /\ [work[x] EXCEPT !.keep = Doc(Keep(x))].keepers = work[x].keepers
          /\ [work[x] EXCEPT !.keep = Doc(Keep(x))].losers = work[x].losers
      BY <1>0 DEF Held
    <2>2. work'[x] = Idle \/ work'[x] = [work[x] EXCEPT !.keep = Doc(Keep(x))]
      BY <1>5 DEF LoadKeeper
    <2>3. QED
      BY <1>0, <2>1, <2>2
  <1>10. CASE SaveReadsKeeper(x)
    <2> DEFINE held == [work[x] EXCEPT !.keep = Doc(Keep(x)), !.unread = sent[x].update.groups]
    <2>1. held.keepers = work[x].keepers /\ held.losers = work[x].losers
      BY <1>0 DEF Held
    <2>2. work'[x] = Idle \/ work'[x] = held
      BY <1>10 DEF SaveReadsKeeper, SaveGoesOn
    <2> HIDE DEF held
    <2>3. QED
      BY <1>0, <2>1, <2>2
  <1>11. ASSUME NEW g \in Groups, SaveReadsGroup(x, g)
         PROVE  \/ work'[x] = Idle
                \/ work'[x].keepers = work[x].keepers /\ work'[x].losers = work[x].losers
    <2>1. /\ [work[x] EXCEPT !.unread = @ \ {g}].keepers = work[x].keepers
          /\ [work[x] EXCEPT !.unread = @ \ {g}].losers = work[x].losers
      BY <1>0 DEF Held
    <2>2. work'[x] = Idle \/ work'[x] = [work[x] EXCEPT !.unread = @ \ {g}]
      BY <1>11 DEF SaveReadsGroup, SaveGoesOn
    <2>3. QED
      BY <2>1, <2>2
  <1>6. CASE LoadLoser(x)
    <2> DEFINE held == [work[x] EXCEPT !.lose = Doc(Lose(x)), !.todo = Occurrences]
    <2>1. held.keepers = work[x].keepers /\ held.losers = work[x].losers
      BY <1>0 DEF Held
    <2>2. work'[x] = Idle \/ work'[x] = held
      BY <1>6 DEF LoadLoser
    <2> HIDE DEF held
    <2>3. QED
      BY <1>0, <2>1, <2>2
  <1>7. CASE ArchiveReadsChurch(x) \/ ArchiveLoser(x)
    BY <1>0, <1>7 DEF ArchiveReadsChurch, ArchiveLoser
  <1>8. CASE ArchiveReadsLoser(x)
    <2>1. /\ [work[x] EXCEPT !.lose = Doc(Lose(x))].keepers = work[x].keepers
          /\ [work[x] EXCEPT !.lose = Doc(Lose(x))].losers = work[x].losers
      BY <1>0 DEF Held
    <2>2. work'[x] = [work[x] EXCEPT !.lose = Doc(Lose(x))]
      BY <1>8 DEF ArchiveReadsLoser
    <2>3. QED
      BY <2>1, <2>2
  <1>9. QED
    BY <1>0, <1>1, <1>2, <1>3, <1>4, <1>5, <1>6, <1>7, <1>8, <1>10, <1>11 DEF Merge

LEMMA GatheredStep == MergeTypeInv /\ GatheredInv /\ [MergeNext]_mergeVars => GatheredInv'
  <1> SUFFICES ASSUME MergeTypeInv, GatheredInv, [MergeNext]_mergeVars
               PROVE  GatheredInv'
    OBVIOUS
  <1>1. MergeTypeInv' /\ DataMoves /\ UNCHANGED pair
    BY MergeSteps
  <1>2. /\ StoredVersions'
        /\ \A s \in Slots, copy \in Receipts : FreshReceipt(copy, s) => FreshReceipt(copy, s)'
    BY <1>1, ReceiptsStayFresh DEF GatheredInv
  <1>3. ASSUME NEW x \in Merges, NEW o \in Occurrences
        PROVE  /\ KeeperSlot(x, o) \in Slots /\ KeeperSlot(x, o)' = KeeperSlot(x, o)
               /\ LoserSlot(x, o) \in Slots /\ LoserSlot(x, o)' = LoserSlot(x, o)
               /\ work[x].keepers[o] \in Receipts \cup {NoReceipt}
               /\ work[x].losers[o] \in Receipts \cup {NoReceipt}
    BY <1>1, MergeParts, HeldFields DEF KeeperSlot, LoserSlot, Keep, Lose
  <1>4. \A s \in Slots : receipt[s] # NoReceipt => FreshReceipt(receipt[s], s)
    BY DEF GatheredInv, StoredVersions, FreshReceipt
  <1>5. ASSUME NEW y \in Merges, Untouched(y)
        PROVE  GatheredOK(y)'
    BY <1>2, <1>3, <1>5 DEF GatheredInv, GatheredOK, Untouched, FreshReceipt
  <1>6. ASSUME NEW x \in Merges, Merge(x)
        PROVE  GatheredOK(x)'
    <2> SUFFICES ASSUME NEW o \in Occurrences
                 PROVE  /\ work'[x].keepers[o] # NoReceipt =>
                               FreshReceipt(work[x].keepers[o], KeeperSlot(x, o))'
                        /\ work'[x].losers[o] # NoReceipt =>
                               FreshReceipt(work[x].losers[o], LoserSlot(x, o))'
      BY DEF GatheredOK
    <2>1. /\ \/ work'[x].keepers[o] \in {work[x].keepers[o], NoReceipt}
             \/ work'[x].keepers[o] = receipt[KeeperSlot(x, o)] /\ UNCHANGED attendance
          /\ \/ work'[x].losers[o] \in {work[x].losers[o], NoReceipt}
             \/ work'[x].losers[o] = receipt[LoserSlot(x, o)] /\ UNCHANGED attendance
      BY <1>6, HeldSteps
    <2>2. GatheredOK(x)
      BY DEF GatheredInv
    <2>3. work'[x].keepers[o] # NoReceipt => FreshReceipt(work[x].keepers[o], KeeperSlot(x, o))'
      <3>1. CASE work'[x].keepers[o] = work[x].keepers[o]
        BY <1>2, <1>3, <2>2, <3>1 DEF GatheredOK, FreshReceipt
      <3>2. CASE work'[x].keepers[o] = receipt[KeeperSlot(x, o)] /\ UNCHANGED attendance
        BY <1>3, <1>4, <3>2 DEF FreshReceipt, attendance
      <3>3. QED
        BY <2>1, <3>1, <3>2
    <2>4. work'[x].losers[o] # NoReceipt => FreshReceipt(work[x].losers[o], LoserSlot(x, o))'
      <3>1. CASE work'[x].losers[o] = work[x].losers[o]
        BY <1>2, <1>3, <2>2, <3>1 DEF GatheredOK, FreshReceipt
      <3>2. CASE work'[x].losers[o] = receipt[LoserSlot(x, o)] /\ UNCHANGED attendance
        BY <1>3, <1>4, <3>2 DEF FreshReceipt, attendance
      <3>3. QED
        BY <2>1, <3>1, <3>2
    <2>5. QED
      BY <2>3, <2>4
  <1>7. QED
    BY <1>2, <1>5, <1>6, MergeSteps DEF GatheredInv

LEMMA GatheredInit == MergeInit => GatheredInv
  <1> SUFFICES ASSUME MergeInit PROVE GatheredInv
    OBVIOUS
  <1>1. receipt \in [Slots -> Receipts \cup {NoReceipt}]
    BY MergeTypesInit DEF MergeTypeInv, DataOK, TypeInv, TypeOK, AttendanceOK
  <1>2. \A s \in Slots : receipt[s] # NoReceipt => version[s] = receipt[s].etag
    BY DEF MergeInit
  <1>3. StoredVersions
    BY <1>1, <1>2 DEF StoredVersions, Receipts
  <1>4. \A x \in Merges, o \in Occurrences :
            work[x].keepers[o] = NoReceipt /\ work[x].losers[o] = NoReceipt
    BY DEF MergeInit, Idle
  <1>5. QED
    BY <1>3, <1>4 DEF GatheredInv, GatheredOK

(* One member comes in for another.                                        *)
LEMMA SameHeadcount ==
    ASSUME NEW S, IsFiniteSet(S), NEW a \in S, NEW b, b \notin S
    PROVE  Cardinality((S \ {a}) \cup {b}) = Cardinality(S)
  <1>1. IsFiniteSet(S \ {a}) /\ Cardinality(S \ {a}) = Cardinality(S) - 1
    BY FS_RemoveElement
  <1>2. Cardinality((S \ {a}) \cup {b}) = Cardinality(S \ {a}) + 1
    BY <1>1, FS_AddElement
  <1>3. Cardinality(S) \in Nat
    BY FS_CardinalityType
  <1>4. QED
    BY <1>1, <1>2, <1>3

(* What a move that is accepted does.                                      *)
LEMMA MovesStored ==
    ASSUME MergeTypeInv, GatheredInv, NEW x \in Merges, NEW o \in Occurrences,
           MoveReceipt(x, o), ~UNCHANGED attendance
    PROVE  LET from == LoserSlot(x, o)
               to == KeeperSlot(x, o)
           IN  /\ receipt[from] \in Receipts /\ receipt[from].active
               /\ receipt[to] # NoReceipt => ~receipt[to].active
               /\ receipt' = [receipt EXCEPT ![from] = NoReceipt,
                                  ![to] = Noted(x, receipt[from], "merged_from", version[to] + 1)]
  <1> DEFINE from == LoserSlot(x, o)
             to == KeeperSlot(x, o)
             copy == work[x].losers[o]
             undone == work[x].keepers[o]
  <1>1. stage[x] = "move" /\ o \in work[x].todo /\ ~BothPresent(x, o)
    BY DEF MoveReceipt
  <1>2. copy \in Receipts /\ copy.active /\ undone \in Receipts \cup {NoReceipt}
    BY <1>1, GatheredLoser, MergeParts, HeldFields
  <1>3. copy # NoReceipt
    BY <1>2, NoReceiptType
  <1>4. /\ Store!MayTransfer(receipt[from], copy, receipt[to], undone)
        /\ PutInstead(from, to, Noted(x, copy, "merged_from", version[to] + 1))
    BY DEF MoveReceipt
  <1>5. GatheredOK(x)
    BY DEF GatheredInv
  <1>6. receipt[from] = copy
    BY <1>3, <1>4, <1>5
       DEF GatheredOK, FreshReceipt, Store!MayTransfer, Store!MayReplace
  <1>7. receipt[to] # NoReceipt => ~receipt[to].active
    <2>1. CASE undone = NoReceipt
      BY <1>4, <2>1 DEF Store!MayTransfer
    <2>2. CASE undone # NoReceipt
      <3>1. receipt[to] = undone
        BY <1>4, <1>5, <2>2 DEF GatheredOK, FreshReceipt, Store!MayTransfer, Store!MayReplace
      <3>2. ~undone.active
        BY <1>1, <2>2 DEF BothPresent
      <3>3. QED
        BY <3>1, <3>2
    <2>3. QED
      BY <2>1, <2>2
  <1>8. QED
    BY <1>2, <1>4, <1>6, <1>7 DEF PutInstead

(* A step that writes the keeper's receipt while the merge goes on is a    *)
(* move of that receipt.                                                   *)
LEMMA WritesAreMoves ==
    ASSUME MergeTypeInv, [MergeNext]_mergeVars, NEW x \in Merges, NEW o \in Occurrences,
           WritesOn(x, o), receipt'[KeeperSlot(x, o)] # receipt[KeeperSlot(x, o)]
    PROVE  MoveReceipt(x, o) /\ ~UNCHANGED attendance
  <1>1. Merge(x)
    BY MergeSteps DEF WritesOn, Untouched
  <1>2. ~UNCHANGED attendance
    BY DEF attendance
  <1>3. receipt \in [Slots -> Receipts \cup {NoReceipt}]
    BY DEF MergeTypeInv, DataOK, TypeInv, TypeOK, AttendanceOK
  <1>4. PICK p \in Occurrences : DropDuplicate(x, p) \/ MoveReceipt(x, p)
    BY <1>1, <1>2, OtherParts, GatherKeeperParts, GatherLoserParts DEF Shared
  <1>5. /\ LoserSlot(x, p) \in Slots /\ KeeperSlot(x, p) \in Slots
        /\ KeeperSlot(x, o) \in Slots /\ KeeperSlot(x, o) # LoserSlot(x, p)
        /\ KeeperSlot(x, o) = KeeperSlot(x, p) => o = p
    BY MergeParts DEF LoserSlot, KeeperSlot
  <1>6. ~DropDuplicate(x, p)
    <2> SUFFICES ASSUME DropDuplicate(x, p)
                 PROVE  receipt'[KeeperSlot(x, o)] = receipt[KeeperSlot(x, o)]
      OBVIOUS
    <2>1. UNCHANGED attendance \/ \E doc : Put(LoserSlot(x, p), doc)
      BY DEF DropDuplicate
    <2>2. QED
      BY <1>3, <1>5, <2>1 DEF Put, attendance
  <1>7. MoveReceipt(x, p)
    BY <1>4, <1>6
  <1>8. UNCHANGED attendance \/ \E doc : PutInstead(LoserSlot(x, p), KeeperSlot(x, p), doc)
    BY <1>7 DEF MoveReceipt
  <1>9. o = p
    BY <1>2, <1>3, <1>5, <1>8 DEF PutInstead
  <1>10. QED
    BY <1>2, <1>7, <1>9

(* A check-in that is moved keeps its time, its snapshot and its history,  *)
(* takes the place of none that counts, and the headcount of the           *)
(* occurrence stays (the move in MemberMergeService.Merge, Transfer).      *)
THEOREM RecordsAreKept == MergeSpec => TransferKeepsRecord
  <1>1. MergeTypeInv /\ GatheredInv /\ [MergeNext]_mergeVars =>
            [\A x \in Merges, o \in Occurrences :
                 LET moved == receipt'[KeeperSlot(x, o)]
                     from == receipt[LoserSlot(x, o)]
                 IN
                 WritesOn(x, o) /\ moved # receipt[KeeperSlot(x, o)] =>
                     /\ from.active /\ moved.active
                     /\ moved.at = from.at /\ moved.groups = from.groups
                     /\ moved.audit = Append(from.audit, Entry(x, "merged_from"))
                     /\ Cardinality(Present(o)') = Cardinality(Present(o))]_mergeVars
    <2> SUFFICES ASSUME MergeTypeInv, GatheredInv, [MergeNext]_mergeVars,
                        NEW x \in Merges, NEW o \in Occurrences,
                        WritesOn(x, o), receipt'[KeeperSlot(x, o)] # receipt[KeeperSlot(x, o)]
                 PROVE  LET moved == receipt'[KeeperSlot(x, o)]
                            from == receipt[LoserSlot(x, o)]
                        IN  /\ from.active /\ moved.active
                            /\ moved.at = from.at /\ moved.groups = from.groups
                            /\ moved.audit = Append(from.audit, Entry(x, "merged_from"))
                            /\ Cardinality(Present(o)') = Cardinality(Present(o))
      OBVIOUS
    <2> DEFINE from == LoserSlot(x, o)
               to == KeeperSlot(x, o)
               doc == Noted(x, receipt[from], "merged_from", version[to] + 1)
    <2>1. /\ receipt[from] \in Receipts /\ receipt[from].active
          /\ receipt[to] # NoReceipt => ~receipt[to].active
          /\ receipt' = [receipt EXCEPT ![from] = NoReceipt, ![to] = doc]
      BY WritesAreMoves, MovesStored
    <2>2. /\ from = <<o, Lose(x)>> /\ to = <<o, Keep(x)>> /\ Keep(x) # Lose(x)
          /\ from \in Slots /\ to \in Slots /\ Keep(x) \in Members /\ Lose(x) \in Members
      BY MergeParts DEF LoserSlot, KeeperSlot
    <2>3. /\ receipt \in [Slots -> Receipts \cup {NoReceipt}] /\ version[to] \in Nat
      BY <2>2 DEF MergeTypeInv, DataOK, TypeInv, TypeOK, AttendanceOK
    <2>4. version[to] + 1 \in Nat /\ "merged_from" \in Actions
      BY <2>3 DEF Actions
    <2> HIDE DEF from, to
    <2>5. /\ doc \in Receipts /\ doc.active = receipt[from].active
          /\ doc.at = receipt[from].at /\ doc.groups = receipt[from].groups
          /\ doc.audit = Append(receipt[from].audit, Entry(x, "merged_from"))
      <3>1. \A copy \in Receipts, n \in Nat :
                LET noted == Noted(x, copy, "merged_from", n)
                IN  /\ noted \in Receipts /\ noted.active = copy.active
                    /\ noted.at = copy.at /\ noted.groups = copy.groups
                    /\ noted.audit = Append(copy.audit, Entry(x, "merged_from"))
        BY <2>4, NotedType
      <3>2. receipt[from] \in Receipts /\ version[to] + 1 \in Nat
        BY <2>1, <2>4
      <3>3. QED
        BY <3>1, <3>2, Zenon
    <2>6. doc # NoReceipt /\ receipt[from] # NoReceipt
      BY <2>1, <2>5, NoReceiptType
    <2> HIDE DEF doc
    <2>7. /\ receipt'[to] = doc /\ receipt'[from] = NoReceipt
          /\ \A m \in Members \ {Keep(x), Lose(x)} : receipt'[<<o, m>>] = receipt[<<o, m>>]
      BY <2>1, <2>2, <2>3 DEF Slots
    <2>8. Lose(x) \in Present(o) /\ Keep(x) \notin Present(o) /\ IsFiniteSet(Present(o))
      BY <2>1, <2>2, <2>6, MembersType, FS_Subset DEF Present
    <2>9. Present(o)' = (Present(o) \ {Lose(x)}) \cup {Keep(x)}
      BY <2>1, <2>2, <2>5, <2>6, <2>7 DEF Present
    <2>10. Cardinality(Present(o)') = Cardinality(Present(o))
      BY <2>8, <2>9, SameHeadcount
    <2>11. QED
      BY <2>1, <2>5, <2>7, <2>10 DEF from, to
  <1>2. MergeTypeInv /\ [MergeNext]_mergeVars => MergeTypeInv'
    BY MergeSteps
  <1>3. QED
    BY MergeTypesInit, GatheredInit, <1>1, <1>2, GatheredStep, PTL
       DEF MergeSpec, TransferKeepsRecord

-----------------------------------------------------------------------------
(* Merges beside which nobody writes.                                      *)

Quiet(x) == stage[x] # "waiting" /\ sent[x].fit /\ ~disturbed[x] /\ ~sent[x].takes

KeeperAsStored(x, o) == work[x].keepers[o] = receipt[KeeperSlot(x, o)]
LoserAsStored(x, o) == work[x].losers[o] = ActiveOnly(receipt[LoserSlot(x, o)])

(* Nothing stored speaks against the update it is called with.             *)
UpdateFits(x) ==
    sent[x].update # None =>
        /\ sent[x].update.groups \cap retired = {}
        /\ MayAssign(Keep(x), sent[x].update.code)

(* Such a merge finds everything as its caller and it itself have seen it. *)
AsSeen(x) ==
    /\ \A d \in {Church, Keep(x), Lose(x)} : status[d] = "active"
    /\ tag[Lose(x)] = sent[x].lose
    /\ stage[x] # "release"
    /\ stage[x] \in Loading \cup Saving => tag[Keep(x)] = sent[x].keep /\ UpdateFits(x)
    /\ stage[x] = "load_loser" => work[x].keep.active
    /\ stage[x] = "save_groups" => work[x].unread \subseteq sent[x].update.groups
    /\ stage[x] \in Saving => work[x].todo = Occurrences
    /\ stage[x] = "gather_keeper" =>
           \A o \in Occurrences \ work[x].todo : KeeperAsStored(x, o)
    /\ stage[x] = "gather_loser" =>
           /\ \A o \in Occurrences : KeeperAsStored(x, o)
           /\ \A o \in Occurrences \ work[x].todo : LoserAsStored(x, o)
    /\ stage[x] = "move" =>
           \A o \in work[x].todo : KeeperAsStored(x, o) /\ LoserAsStored(x, o)

(* So every condition it comes to holds, and it ends well.                 *)
Carried(x) == IF stage[x] = "done" THEN result[x] = "merged" ELSE AsSeen(x)

QuietOK(x) == Quiet(x) => Carried(x)
QuietInv == \A x \in Merges : QuietOK(x)

LEMMA ProceedParts ==
    ASSUME MergeTypeInv, NEW x \in Merges, NEW step, NEW held, Proceed(x, step, held)
    PROVE  stage'[x] = step /\ work'[x] = held
  BY DEF Proceed, MergeTypeInv, ControlOK, MergeRecordsOK

LEMMA EndParts ==
    ASSUME MergeTypeInv, NEW x \in Merges, NEW outcome, End(x, outcome)
    PROVE  stage'[x] = "done" /\ result'[x] = outcome
  BY DEF End, MergeTypeInv, ControlOK

(* What a quiet merge's next await finds when nothing was written.         *)
LEMMA StillSeen ==
    ASSUME MergeTypeInv, NEW x \in Merges, UNCHANGED Shared, UNCHANGED pair
    PROVE  /\ status' = status /\ tag' = tag
           /\ Keep(x)' = Keep(x) /\ Lose(x)' = Lose(x) /\ Doc(Keep(x))' = Doc(Keep(x))
           /\ \A o \in Occurrences :
                  /\ receipt'[KeeperSlot(x, o)'] = receipt[KeeperSlot(x, o)]
                  /\ receipt'[LoserSlot(x, o)'] = receipt[LoserSlot(x, o)]
  BY DEF Shared, directory, attendance, details, Keep, Lose, KeeperSlot, LoserSlot, Doc

LEMMA StillFits ==
    ASSUME MergeTypeInv, NEW x \in Merges, UNCHANGED Shared, UNCHANGED pair, sent'[x] = sent[x]
    PROVE  UpdateFits(x)' = UpdateFits(x)
  BY DEF Shared, details, Keep, UpdateFits, MayAssign

(* A step of somebody else leaves a merge quiet, or disturbs it.           *)
LEMMA QuietStays ==
    ASSUME MergeTypeInv, NEW x \in Merges, QuietOK(x), Untouched(x), UNCHANGED pair,
           disturbed[x] => disturbed'[x],
           UNCHANGED Shared \/ disturbed'[x] \/ stage[x] \in {"waiting", "done"}
    PROVE  QuietOK(x)'
  <1> SUFFICES ASSUME Quiet(x)' PROVE Carried(x)'
    BY DEF QuietOK
  <1>1. Quiet(x) /\ stage[x] # "waiting" /\ ~disturbed'[x]
    BY DEF Quiet, Untouched
  <1>2. Carried(x)
    BY <1>1 DEF QuietOK
  <1>3. CASE stage[x] = "done"
    BY <1>2, <1>3 DEF Carried, Untouched
  <1>4. CASE stage[x] # "done"
    <2>1. UNCHANGED Shared
      BY <1>1, <1>4
    <2>2. work[x] \in Held
      BY MergeParts
    <2>3. \A o \in Occurrences : /\ KeeperAsStored(x, o) => KeeperAsStored(x, o)'
                                 /\ LoserAsStored(x, o) => LoserAsStored(x, o)'
      BY <2>1, StillSeen DEF KeeperAsStored, LoserAsStored, Untouched, ActiveOnly
    <2>4. AsSeen(x)'
      <3>1. UpdateFits(x)' = UpdateFits(x)
        BY <2>1, StillFits DEF Untouched
      <3>2. QED
        BY <1>2, <1>4, <2>1, <2>2, <2>3, <3>1, StillSeen DEF AsSeen, Carried, Untouched, Held
    <2>5. QED
      BY <1>4, <2>4 DEF Carried, Untouched
  <1>5. QED
    BY <1>3, <1>4

(* Its own steps, one lemma for each part of the merge.                    *)
LEMMA QuietCall ==
    ASSUME MergeTypeInv, NEW x \in Merges, Call(x), Quiet(x)'
    PROVE  Carried(x)'
  <1> DEFINE takes(update) ==
                 update # None /\ update.code # None /\ update.code = code[Lose(x)]
             given(update) ==
                 [keep |-> tag[Keep(x)], lose |-> tag[Lose(x)], update |-> update,
                  takes |-> takes(update), fit |-> Fit(x, update, takes(update))]
  <1>1. PICK update \in Updates \cup {None} : sent' = [sent EXCEPT ![x] = given(update)]
    BY DEF Call
  <1>2. sent'[x] = given(update)
    BY <1>1 DEF MergeTypeInv, ControlOK, MergeRecordsOK
  <1>3. stage'[x] = "load_keeper" /\ UNCHANGED Shared /\ UNCHANGED pair
    BY ProceedParts DEF Call
  <1>4. ~takes(update) /\ Fit(x, update, takes(update))
    <2>1. sent'[x].takes = takes(update) /\ sent'[x].fit = Fit(x, update, takes(update))
      BY <1>2
    <2>2. sent'[x].fit /\ ~sent'[x].takes
      BY DEF Quiet
    <2> HIDE DEF takes, given
    <2>3. QED
      BY <2>1, <2>2, Zenon
  <1>5. /\ sent'[x].keep = tag[Keep(x)] /\ sent'[x].lose = tag[Lose(x)]
        /\ sent'[x].update = update
    BY <1>2
  <1> HIDE DEF takes, given
  <1>6. /\ \A d \in {Church, Keep(x), Lose(x)} : status[d] = "active"
        /\ update # None => /\ update.groups \cap retired = {}
                            /\ MayAssign(Keep(x), update.code)
    BY <1>4 DEF Fit
  <1>7. UpdateFits(x)'
    BY <1>3, <1>5, <1>6, StillSeen DEF UpdateFits, MayAssign, Shared, details
  <1>8. QED
    BY <1>3, <1>5, <1>6, <1>7, StillSeen DEF Carried, AsSeen, Loading, Saving

LEMMA QuietLoad ==
    ASSUME MergeTypeInv, NEW x \in Merges, LoadKeeper(x) \/ LoadLoser(x), Quiet(x), AsSeen(x)
    PROVE  Carried(x)'
  <1>1. /\ UNCHANGED Shared /\ UNCHANGED pair /\ sent'[x] = sent[x] /\ work[x] \in Held
        /\ stage[x] \in {"load_keeper", "load_loser"}
    BY MergeParts DEF LoadKeeper, LoadLoser, OnlyReads, OnlyMerging
  <1>2. /\ \A d \in {Church, Keep(x), Lose(x)} : status[d] = "active"
        /\ tag[Keep(x)] = sent[x].keep /\ tag[Lose(x)] = sent[x].lose
        /\ UpdateFits(x) /\ UpdateFits(x)'
    BY <1>1, StillFits DEF AsSeen, Loading
  <1>3. /\ Doc(Keep(x)).active /\ Doc(Lose(x)).active
        /\ status[Keep(x)] # "missing" /\ status[Lose(x)] # "missing"
    BY <1>2 DEF Doc
  <1>4. CASE LoadKeeper(x)
    <2> DEFINE held == [work[x] EXCEPT !.keep = Doc(Keep(x))]
    <2>1. Proceed(x, "load_loser", held)
      BY <1>3, <1>4 DEF LoadKeeper
    <2>2. held.keep = Doc(Keep(x))
      BY <1>1 DEF Held
    <2> HIDE DEF held
    <2>3. stage'[x] = "load_loser" /\ work'[x].keep.active
      BY <1>3, <2>1, <2>2, ProceedParts
    <2>4. QED
      BY <1>1, <1>2, <2>3, StillSeen DEF Carried, AsSeen, Loading, Saving
  <1>5. CASE LoadLoser(x)
    <2> DEFINE held == [work[x] EXCEPT !.lose = Doc(Lose(x)), !.todo = Occurrences]
               step == AfterLoad(sent[x].update, Doc(Lose(x)))
    <2>1. work[x].keep.active
      BY <1>5 DEF LoadLoser, AsSeen
    <2>2. Proceed(x, step, held)
      BY <1>3, <1>5, <2>1 DEF LoadLoser
    <2>3. held.todo = Occurrences
      BY <1>1 DEF Held
    <2>4. step \in {"gather_keeper", "save_church"}
      <3>1. Keep(x) \in Members /\ Lose(x) \in Members /\ Keep(x) # Lose(x)
        BY MergeParts
      <3>2. ASSUME sent[x].update # None, sent[x].update.code # None
            PROVE  sent[x].update.code # Doc(Lose(x)).code
        BY <1>2, <3>1, <3>2 DEF UpdateFits, MayAssign, Doc
      <3>3. QED
        BY <3>2 DEF AfterLoad
    <2> HIDE DEF held, step
    <2>5. stage'[x] \in {"gather_keeper", "save_church"} /\ work'[x].todo = Occurrences
      BY <2>2, <2>3, <2>4, ProceedParts
    <2>6. QED
      BY <1>1, <1>2, <2>5, StillSeen DEF Carried, AsSeen, Loading, Saving
  <1>6. QED
    BY <1>4, <1>5

LEMMA QuietSaveReads ==
    ASSUME MergeTypeInv, NEW x \in Merges, Quiet(x), AsSeen(x),
           \/ SaveReadsChurch(x) \/ SaveReadsKeeper(x)
           \/ \E g \in Groups : SaveReadsGroup(x, g)
    PROVE  Carried(x)'
  <1>1. /\ UNCHANGED Shared /\ UNCHANGED pair /\ sent'[x] = sent[x] /\ work[x] \in Held
        /\ stage[x] \in {"save_church", "save_read", "save_groups"}
    BY MergeParts DEF SaveReadsChurch, SaveReadsKeeper, SaveReadsGroup, OnlyReads, OnlyMerging
  <1>2. /\ \A d \in {Church, Keep(x), Lose(x)} : status[d] = "active"
        /\ tag[Keep(x)] = sent[x].keep /\ tag[Lose(x)] = sent[x].lose
        /\ work[x].todo = Occurrences
        /\ UpdateFits(x) /\ UpdateFits(x)' /\ sent[x].update # None
    BY <1>1, StillFits DEF AsSeen, Saving, MergeTypeInv, ControlOK, Fits
  <1>3. CASE SaveReadsChurch(x)
    <2>1. Proceed(x, "save_read", work[x])
      BY <1>2, <1>3 DEF SaveReadsChurch
    <2>2. stage'[x] = "save_read" /\ work'[x].todo = Occurrences
      BY <1>2, <2>1, ProceedParts
    <2>3. QED
      BY <1>1, <1>2, <2>2, StillSeen DEF Carried, AsSeen, Loading, Saving
  <1>4. ASSUME NEW held, held.todo = Occurrences, SaveGoesOn(x, held),
               held.unread \subseteq sent[x].update.groups
        PROVE  Carried(x)'
    <2>1. stage'[x] \in {"save", "save_groups"} /\ work'[x] = held
      BY <1>4, ProceedParts DEF SaveGoesOn
    <2>2. QED
      BY <1>1, <1>2, <1>4, <2>1, StillSeen DEF Carried, AsSeen, Loading, Saving
  <1>5. CASE SaveReadsKeeper(x)
    <2> DEFINE held == [work[x] EXCEPT !.keep = Doc(Keep(x)), !.unread = sent[x].update.groups]
    <2>1. SaveGoesOn(x, held)
      BY <1>2, <1>5 DEF SaveReadsKeeper
    <2>2. held.todo = Occurrences /\ held.unread = sent[x].update.groups
      BY <1>1, <1>2 DEF Held
    <2> HIDE DEF held
    <2>3. QED
      BY <1>4, <2>1, <2>2
  <1>6. ASSUME NEW g \in Groups, SaveReadsGroup(x, g)
        PROVE  Carried(x)'
    <2> DEFINE held == [work[x] EXCEPT !.unread = @ \ {g}]
    <2>1. stage[x] = "save_groups" /\ g \in work[x].unread
      BY <1>6 DEF SaveReadsGroup
    <2>2. work[x].unread \subseteq sent[x].update.groups
      BY <2>1 DEF AsSeen
    <2>3. g \notin retired
      BY <1>2, <2>1, <2>2 DEF UpdateFits
    <2>4. SaveGoesOn(x, held)
      BY <1>6, <2>3 DEF SaveReadsGroup
    <2>5. held.todo = Occurrences /\ held.unread \subseteq sent[x].update.groups
      BY <1>1, <1>2, <2>2 DEF Held
    <2> HIDE DEF held
    <2>6. QED
      BY <1>4, <2>4, <2>5
  <1>7. QED
    BY <1>3, <1>5, <1>6

(* The keeper's document is the one the merge read, and the code it gets,  *)
(* the update's or its own, is no other member's.                          *)
LEMMA QuietSave ==
    ASSUME MergeTypeInv, CopyInv, CodesUnique, NEW x \in Merges, SaveKeeper(x),
           Quiet(x), AsSeen(x)
    PROVE  Carried(x)'
  <1>1. /\ stage[x] = "save" /\ UNCHANGED pair /\ sent'[x] = sent[x]
        /\ UNCHANGED attendance
        /\ work[x] \in Held /\ Keep(x) \in Members /\ Lose(x) \in Members /\ Keep(x) # Lose(x)
        /\ sent[x] \in MergeCalls /\ sent[x].update # None
        /\ work[x].keep \in MemberDocs /\ work[x].keep.active
    BY MergeParts, SaveKeeperStep, HeldFields
       DEF SaveKeeper, OnlyMerging, MergeTypeInv, ControlOK, Fits, Loading, Saving
  <1>2. /\ \A d \in {Church, Keep(x), Lose(x)} : status[d] = "active"
        /\ tag[Keep(x)] = sent[x].keep /\ tag[Lose(x)] = sent[x].lose
        /\ work[x].todo = Occurrences /\ UpdateFits(x)
    BY <1>1 DEF AsSeen, Saving
  <1>3. Updated(x) \in MemberDocs
    BY SaveKeeperStep
  <1>4. work[x].keep = Doc(Keep(x))
    BY <1>1, <1>2 DEF CopyInv, CopyOK, FreshDoc
  <1>5. /\ Updated(x).active
        /\ Updated(x).code \in {sent[x].update.code, code[Keep(x)]}
    BY <1>1, <1>4 DEF Updated, MemberDocs, Doc
  <1>6. Store!MayReplace(Doc(Keep(x)), sent[x].keep)
    BY <1>1, <1>2, MergeParts, NoneType DEF Store!MayReplace, Doc
  <1>7. MayAssign(Keep(x), Updated(x).code)
    BY <1>1, <1>2, <1>5 DEF MayAssign, CodesUnique, UpdateFits
  <1>8. PutMember(Keep(x), Updated(x)) /\ Proceed(x, "gather_keeper", work[x])
    BY <1>6, <1>7 DEF SaveKeeper
  <1>9. stage'[x] = "gather_keeper" /\ work'[x] = work[x]
    BY <1>8, ProceedParts
  <1>10. /\ \A d \in {Church, Keep(x), Lose(x)} : status'[d] = "active"
         /\ tag'[Lose(x)] = tag[Lose(x)]
    <2>1. Church \in Documents /\ Church # Keep(x) /\ Lose(x) \in Documents
      BY <1>1, MembersType DEF Documents
    <2>2. tag'[Lose(x)] = tag[Lose(x)]
      BY <1>1, <1>8 DEF PutMember, MergeTypeInv, DataOK
    <2>3. QED
      BY <1>1, <1>2, <1>3, <1>5, <1>8, <2>1, <2>2, PutMemberParts
  <1>11. Keep(x)' = Keep(x) /\ Lose(x)' = Lose(x)
    BY <1>1 DEF Keep, Lose
  <1>12. QED
    BY <1>1, <1>2, <1>9, <1>10, <1>11 DEF Carried, AsSeen, Loading, Saving

LEMMA QuietGather ==
    ASSUME MergeTypeInv, NEW x \in Merges, NEW o \in Occurrences,
           GatherKeeper(x, o) \/ GatherLoser(x, o), Quiet(x), AsSeen(x)
    PROVE  Carried(x)'
  <1>1. /\ UNCHANGED Shared /\ UNCHANGED pair /\ sent'[x] = sent[x]
        /\ stage[x] \in {"gather_keeper", "gather_loser"}
        /\ work[x].todo \subseteq Occurrences
    BY MergeParts, HeldFields DEF GatherKeeper, GatherLoser, OnlyReads, OnlyMerging
  <1>2. /\ \A d \in {Church, Keep(x), Lose(x)} : status[d] = "active"
        /\ tag[Lose(x)] = sent[x].lose
    BY DEF AsSeen
  <1>3. /\ \A d \in {Church, Keep(x), Lose(x)} : status'[d] = "active"
        /\ tag'[Lose(x)'] = sent'[x].lose
        /\ Keep(x)' = Keep(x) /\ Lose(x)' = Lose(x)
    BY <1>1, <1>2, StillSeen
  <1>4. CASE GatherKeeper(x, o)
    <2>1. /\ work'[x].keepers[o] = receipt[KeeperSlot(x, o)] /\ stage[x] = "gather_keeper"
          /\ \A p \in Occurrences \ {o} : work'[x].keepers[p] = work[x].keepers[p]
          /\ \/ stage'[x] = "gather_keeper" /\ work'[x].todo = work[x].todo \ {o}
             \/ /\ work[x].todo \subseteq {o}
                /\ stage'[x] = "gather_loser" /\ work'[x].todo = Occurrences
      BY <1>4, GatherKeeperParts
    <2>2. \A p \in Occurrences \ work[x].todo : KeeperAsStored(x, p)
      BY <2>1 DEF AsSeen
    <2>3. \A p \in Occurrences \ (work[x].todo \ {o}) : KeeperAsStored(x, p)'
      BY <1>1, <2>1, <2>2, StillSeen DEF KeeperAsStored
    <2>4. QED
      BY <1>3, <2>1, <2>3 DEF Carried, AsSeen, Loading, Saving
  <1>5. CASE GatherLoser(x, o)
    <2>1. /\ work'[x].keepers = work[x].keepers /\ stage[x] = "gather_loser"
          /\ work'[x].losers[o] = ActiveOnly(receipt[LoserSlot(x, o)])
          /\ \A p \in Occurrences \ {o} : work'[x].losers[p] = work[x].losers[p]
          /\ \/ stage'[x] = "gather_loser" /\ work'[x].todo = work[x].todo \ {o}
             \/ /\ work[x].todo \subseteq {o}
                /\ work'[x].todo = {p \in Occurrences : work'[x].losers[p] # NoReceipt}
                /\ stage'[x] = IF work'[x].todo = {} THEN "archive_church" ELSE "move"
      BY <1>5, GatherLoserParts
    <2>2. /\ \A p \in Occurrences : KeeperAsStored(x, p)
          /\ \A p \in Occurrences \ work[x].todo : LoserAsStored(x, p)
      BY <2>1 DEF AsSeen
    <2>3. \A p \in Occurrences : KeeperAsStored(x, p)'
      BY <1>1, <2>1, <2>2, StillSeen DEF KeeperAsStored
    <2>4. \A p \in Occurrences \ (work[x].todo \ {o}) : LoserAsStored(x, p)'
      BY <1>1, <2>1, <2>2, StillSeen DEF LoserAsStored, ActiveOnly
    <2>5. QED
      BY <1>3, <2>1, <2>3, <2>4 DEF Carried, AsSeen, Loading, Saving
  <1>6. QED
    BY <1>4, <1>5

(* The receipts it gathered are the stored ones, so it writes each.        *)
LEMMA QuietMove ==
    ASSUME MergeTypeInv, NEW x \in Merges, NEW o \in Occurrences,
           DropDuplicate(x, o) \/ MoveReceipt(x, o), Quiet(x), AsSeen(x)
    PROVE  Carried(x)'
  <1> DEFINE from == LoserSlot(x, o)
             to == KeeperSlot(x, o)
             copy == work[x].losers[o]
             undone == work[x].keepers[o]
  <1>1. /\ stage[x] = "move" /\ o \in work[x].todo
        /\ UNCHANGED <<directory, details, pair>> /\ sent'[x] = sent[x]
    BY DEF DropDuplicate, MoveReceipt, OnlyMerging
  <1>2. /\ \A d \in {Church, Keep(x), Lose(x)} : status[d] = "active"
        /\ tag[Lose(x)] = sent[x].lose
        /\ \A p \in work[x].todo : KeeperAsStored(x, p) /\ LoserAsStored(x, p)
    BY <1>1 DEF AsSeen
  <1>3. copy # NoReceipt /\ receipt[from] = copy /\ receipt[to] = undone
    BY <1>1, <1>2, GatheredLoser, NoReceiptType DEF KeeperAsStored, LoserAsStored, ActiveOnly
  <1>4. NextReceipt(x, o)
    BY <1>3 DEF DropDuplicate, MoveReceipt, Store!MayTransfer, Store!MayReplace
  <1>5. stage'[x] # "done"
    BY <1>4 DEF NextReceipt, Loop, Proceed, MergeTypeInv, ControlOK
  <1>6. /\ stage'[x] \in {"archive_church", "move"}
        /\ work'[x].todo = work[x].todo \ {o}
        /\ work'[x].keepers = work[x].keepers /\ work'[x].losers = work[x].losers
    BY <1>5, LoopWrites
  <1>7. /\ \A d \in {Church, Keep(x), Lose(x)} : status'[d] = "active"
        /\ tag'[Lose(x)'] = sent'[x].lose
        /\ Keep(x)' = Keep(x) /\ Lose(x)' = Lose(x)
    BY <1>1, <1>2 DEF Keep, Lose, directory, details
  <1>8. \A s \in Slots \ {from, to} : receipt'[s] = receipt[s]
    <2>1. receipt \in [Slots -> Receipts \cup {NoReceipt}] /\ from \in Slots /\ to \in Slots
      BY MergeParts DEF MergeTypeInv, DataOK, TypeInv, TypeOK, AttendanceOK
    <2>2. \/ UNCHANGED attendance
          \/ \E doc : Put(from, doc) \/ PutInstead(from, to, doc)
      BY DEF DropDuplicate, MoveReceipt
    <2>3. QED
      BY <2>1, <2>2 DEF Put, PutInstead, attendance
  <1>9. \A p \in work[x].todo \ {o} : KeeperAsStored(x, p)' /\ LoserAsStored(x, p)'
    <2> SUFFICES ASSUME NEW p \in work[x].todo \ {o}
                 PROVE  KeeperAsStored(x, p)' /\ LoserAsStored(x, p)'
      OBVIOUS
    <2>1. p \in Occurrences
      BY MergeParts, HeldFields
    <2>2. KeeperSlot(x, p) \in Slots \ {from, to} /\ LoserSlot(x, p) \in Slots \ {from, to}
      BY <2>1, MergeParts DEF KeeperSlot, LoserSlot
    <2>3. KeeperSlot(x, p)' = KeeperSlot(x, p) /\ LoserSlot(x, p)' = LoserSlot(x, p)
      BY <1>7 DEF KeeperSlot, LoserSlot
    <2>4. KeeperAsStored(x, p) /\ LoserAsStored(x, p)
      BY <1>2
    <2>5. QED
      BY <1>6, <1>8, <2>2, <2>3, <2>4 DEF KeeperAsStored, LoserAsStored, ActiveOnly
  <1>10. QED
    BY <1>6, <1>7, <1>9 DEF Carried, AsSeen, Loading, Saving

LEMMA QuietArchive ==
    ASSUME MergeTypeInv, NEW x \in Merges, Quiet(x), AsSeen(x),
           ArchiveReadsChurch(x) \/ ArchiveReadsLoser(x) \/ ArchiveLoser(x)
    PROVE  Carried(x)'
  <1>1. CASE ArchiveReadsChurch(x) \/ ArchiveReadsLoser(x)
    <2>1. UNCHANGED Shared /\ UNCHANGED pair /\ sent'[x] = sent[x]
      BY <1>1 DEF ArchiveReadsChurch, ArchiveReadsLoser, OnlyReads, OnlyMerging
    <2>2. /\ \A d \in {Church, Keep(x), Lose(x)} : status[d] = "active"
          /\ tag[Lose(x)] = sent[x].lose
      BY DEF AsSeen
    <2>3. stage'[x] \in {"archive_read", "archive"}
      BY <1>1, <2>2, ProceedParts DEF ArchiveReadsChurch, ArchiveReadsLoser
    <2>4. QED
      BY <2>1, <2>2, <2>3, StillSeen DEF Carried, AsSeen, Loading, Saving
  <1>2. CASE ArchiveLoser(x)
    <2>1. Store!MayReplace(Doc(Lose(x)), sent[x].lose)
      BY MergeParts, NoneType DEF AsSeen, Store!MayReplace, Doc
    <2>2. End(x, "merged")
      BY <1>2, <2>1 DEF ArchiveLoser
    <2>3. QED
      BY <2>2, EndParts DEF Carried
  <1>3. QED
    BY <1>1, <1>2

LEMMA QuietMergeStep ==
    MergeTypeInv /\ CopyInv /\ CodesUnique /\ QuietInv /\ [MergeNext]_mergeVars => QuietInv'
  <1> SUFFICES ASSUME MergeTypeInv, CopyInv, CodesUnique, QuietInv, [MergeNext]_mergeVars
               PROVE  QuietInv'
    OBVIOUS
  <1>1. UNCHANGED pair
    BY MergeSteps
  <1>2. ASSUME NEW x \in Merges, Merge(x), disturbed[x] => disturbed'[x]
        PROVE  QuietOK(x)'
    <2> SUFFICES ASSUME Quiet(x)' PROVE Carried(x)'
      BY DEF QuietOK
    <2>1. CASE Call(x)
      BY <2>1, QuietCall
    <2>2. CASE ~Call(x)
      <3>1. stage[x] # "waiting" /\ sent'[x] = sent[x]
        BY <1>2, <2>2, BeforeWrites
      <3>2. Quiet(x)
        BY <1>2, <3>1 DEF Quiet
      <3>3. stage[x] # "done"
        BY <1>2, <3>1
           DEF Merge, Call, LoadKeeper, LoadLoser, ReleaseCode, SaveReadsChurch, SaveReadsKeeper,
               SaveReadsGroup, SaveKeeper, GatherKeeper, GatherLoser, DropDuplicate, MoveReceipt,
               ArchiveReadsChurch, ArchiveReadsLoser, ArchiveLoser
      <3>4. AsSeen(x)
        BY <3>2, <3>3 DEF QuietInv, QuietOK, Carried
      <3>5. ~ReleaseCode(x)
        BY <3>4 DEF ReleaseCode, AsSeen
      <3>6. QED
        BY <1>2, <2>2, <3>2, <3>4, <3>5, QuietLoad, QuietSaveReads, QuietSave, QuietGather,
           QuietMove, QuietArchive DEF Merge
    <2>3. QED
      BY <2>1, <2>2
  <1>3. ASSUME NEW others \in SUBSET Merges, Disturbs(others), NEW y \in others, Untouched(y)
        PROVE  QuietOK(y)'
    <2>1. /\ disturbed[y] => disturbed'[y]
          /\ UNCHANGED Shared \/ disturbed'[y] \/ stage[y] \in {"waiting", "done"}
      BY <1>3 DEF Disturbs
    <2>2. QED
      BY <1>1, <1>3, <2>1, QuietStays DEF QuietInv
  <1>4. ASSUME NEW x \in Merges, Merge(x), Disturbs(Merges \ {x}),
               \A y \in Merges \ {x} : Untouched(y)
        PROVE  QuietInv'
    <2>1. disturbed[x] => disturbed'[x]
      BY <1>4 DEF Disturbs
    <2>2. QED
      BY <1>2, <1>3, <1>4, <2>1 DEF QuietInv
  <1>5. CASE Disturbs(Merges) /\ \A y \in Merges : Untouched(y)
    BY <1>3, <1>5 DEF QuietInv
  <1>6. CASE UNCHANGED mergeVars
    <2>1. \A y \in Merges : Untouched(y) /\ disturbed'[y] = disturbed[y]
      BY <1>6 DEF mergeVars, Untouched
    <2>2. UNCHANGED Shared
      BY <1>6 DEF mergeVars, vars, Shared, details
    <2>3. QED
      BY <1>1, <2>1, <2>2, QuietStays DEF QuietInv
  <1>7. QED
    BY <1>4, <1>5, <1>6, MergeSteps

LEMMA QuietMergeInit == MergeInit => QuietInv
  BY DEF MergeInit, QuietInv, QuietOK, Quiet

(* A merge is carried out to the end when nothing stored speaks against it *)
(* when it is called (the church, both members and every group its update  *)
(* names are active, and the update's code is no other member's) and       *)
(* nobody writes beside it: none of the save's reads, no conditional write *)
(* and no code conflict can refuse it half way (MemberMergeService.Merge,  *)
(* DirectoryService.Save).                                                 *)
THEOREM UndisturbedMergesSucceed == MergeSpec => []UndisturbedMergeSucceeds
  <1>1. QuietInv => UndisturbedMergeSucceeds
    BY DEF QuietInv, QuietOK, Quiet, Carried, UndisturbedMergeSucceeds, Undisturbed
  <1>2. MergeTypeInv /\ [MergeNext]_mergeVars => MergeTypeInv'
    BY MergeSteps
  <1>3. MergeInit => CodesUnique
    BY DEF MergeInit, CodesUnique, MayAssign
  <1>4. QED
    BY MergeTypesInit, CopyInit, QuietMergeInit, <1>1, <1>2, <1>3, CopyStep, CodesStep, QuietMergeStep, PTL
       DEF MergeSpec

-----------------------------------------------------------------------------
(* Histories.  Beside merges, too, what a handler of a check-in or an undo *)
(* holds is what is stored as long as its ETag is.                         *)

CopiesHeld ==
    \A r \in Requests :
        pc[r] \notin {"waiting", "done"} /\ seen[r] # NoReceipt => FreshReceipt(seen[r], slot[r])

RequestInv == GatheredInv /\ HandlersHold /\ CopiesHeld

LEMMA OthersLeaveHandlers ==
    ASSUME MergeTypeInv, [MergeNext]_mergeVars, \A r \in Requests : ~Handle(r)
    PROVE  UNCHANGED <<call, handler, arrival>>
  <1>1. ASSUME NEW x \in Merges, Merge(x)
        PROVE  UNCHANGED <<call, handler, arrival>>
    BY <1>1
       DEF Merge, Call, LoadKeeper, LoadLoser, ReleaseCode, SaveReadsChurch, SaveReadsKeeper,
           SaveReadsGroup, SaveKeeper, GatherKeeper, GatherLoser, DropDuplicate, MoveReceipt,
           ArchiveReadsChurch, ArchiveReadsLoser, ArchiveLoser, OnlyReads, OnlyMerging
  <1>2. CASE Elsewhere
    BY <1>2 DEF Elsewhere, EditMember, Recode, RetireGroup, ArchiveDocument, Regroup, Edit
  <1>3. CASE UNCHANGED mergeVars
    BY <1>3 DEF mergeVars, vars
  <1>4. QED
    BY <1>1, <1>2, <1>3 DEF MergeNext

LEMMA RequestStep == MergeTypeInv /\ RequestInv /\ [MergeNext]_mergeVars => RequestInv'
  <1> SUFFICES ASSUME MergeTypeInv, RequestInv, [MergeNext]_mergeVars
               PROVE  RequestInv'
    OBVIOUS
  <1>1. GatheredInv' /\ DataMoves
    BY GatheredStep, MergeSteps DEF RequestInv
  <1>2. /\ \A s \in Slots, copy \in Receipts : FreshReceipt(copy, s) => FreshReceipt(copy, s)'
        /\ \A s \in Slots : receipt[s] # NoReceipt => FreshReceipt(receipt[s], s)
    BY <1>1, ReceiptsStayFresh DEF RequestInv, GatheredInv, StoredVersions, FreshReceipt
  <1>3. /\ TypeInv /\ pc \in [Requests -> Steps] /\ slot \in [Requests -> Slots]
        /\ seen \in [Requests -> Receipts \cup {NoReceipt}]
    BY DEF MergeTypeInv, DataOK, TypeInv, TypeOK, RequestOK, HandlerOK
  <1>4. CASE \A r \in Requests : ~Handle(r)
    <2>1. UNCHANGED <<call, handler, arrival>>
      BY <1>4, OthersLeaveHandlers
    <2>2. HandlersHold' /\ slot' = slot /\ pc' = pc /\ seen' = seen
      BY <2>1 DEF RequestInv, HandlersHold, call, handler
    <2>3. CopiesHeld'
      BY <1>2, <1>3, <2>2 DEF RequestInv, CopiesHeld, FreshReceipt
    <2>4. QED
      BY <1>1, <2>2, <2>3 DEF RequestInv
  <1>5. ASSUME NEW r \in Requests, Handle(r)
        PROVE  RequestInv'
    <2>1. /\ slot' = slot /\ op' = op
          /\ \A q \in Requests \ {r} : /\ pc'[q] = pc[q] /\ seen'[q] = seen[q]
                                       /\ answer'[q] = answer[q] /\ arrival'[q] = arrival[q]
      BY <1>3, <1>5, StepShape DEF call
    <2>2. \/ pc'[r] = "done"
          \/ /\ pc[r] # "done" /\ answer'[r] = answer[r] /\ UNCHANGED attendance
             /\ \/ /\ seen'[r] = seen[r]
                   /\ pc'[r] \in {"waiting", "receipt"} => pc[r] \in {"waiting", "receipt"}
                \/ /\ seen'[r] = receipt[slot[r]]
                   /\ pc'[r] \notin {"waiting", "receipt"}
                   /\ seen'[r] # NoReceipt => (seen'[r].active <=> op[r] = "Undo")
      BY <1>3, <1>5, StepShape DEF Writes
    <2>3. HandlersHold'
      <3> SUFFICES ASSUME NEW q \in Requests
                   PROVE  /\ pc'[q] # "done" => answer'[q] = "none"
                          /\ pc'[q] \in {"waiting", "receipt"} => seen'[q] = NoReceipt
                          /\ pc'[q] # "done" /\ seen'[q] # NoReceipt =>
                                 (seen'[q].active <=> op'[q] = "Undo")
        BY DEF HandlersHold
      <3>1. CASE q # r
        BY <2>1, <3>1 DEF RequestInv, HandlersHold
      <3>2. CASE q = r
        BY <2>1, <2>2, <3>2 DEF RequestInv, HandlersHold
      <3>3. QED
        BY <3>1, <3>2
    <2>4. CopiesHeld'
      <3> SUFFICES ASSUME NEW q \in Requests,
                          pc'[q] \notin {"waiting", "done"} /\ seen'[q] # NoReceipt
                   PROVE  FreshReceipt(seen[q], slot[q])'
        BY DEF CopiesHeld
      <3>1. slot[q] \in Slots /\ slot'[q] = slot[q] /\ seen[q] \in Receipts \cup {NoReceipt}
        BY <1>3, <2>1
      <3>2. CASE seen'[q] = seen[q] /\ pc[q] \notin {"waiting", "done"}
        BY <1>2, <3>1, <3>2 DEF RequestInv, CopiesHeld, FreshReceipt
      <3>3. CASE q = r /\ seen'[q] = seen[q] /\ pc[q] = "waiting"
        BY <3>3 DEF RequestInv, HandlersHold
      <3>4. CASE q = r /\ seen'[q] = receipt[slot[q]] /\ UNCHANGED attendance
        BY <1>2, <3>1, <3>4 DEF FreshReceipt, attendance
      <3>5. QED
        BY <2>1, <2>2, <3>2, <3>3, <3>4
    <2>5. QED
      BY <1>1, <2>3, <2>4 DEF RequestInv
  <1>6. QED
    BY <1>4, <1>5

LEMMA RequestInit == MergeInit => RequestInv
  BY GatheredInit DEF MergeInit, RequestInv, HandlersHold, CopiesHeld

LEMMA EntryType ==
    ASSUME NEW c \in Callers, NEW action \in Actions
    PROVE  Entry(c, action) \in Entries
  BY DEF Entry, Entries

(* A handler's write goes on from what is stored.                          *)
LEMMA HandlerWrites ==
    ASSUME MergeTypeInv, RequestInv, NEW r \in Requests, Handle(r), ~UNCHANGED attendance
    PROVE  \E doc \in Receipts :
               /\ receipt' = [receipt EXCEPT ![slot[r]] = doc]
               /\ receipt[slot[r]] # NoReceipt => Continues(doc, receipt[slot[r]])
  <1> DEFINE stored == receipt[slot[r]]
  <1>1. TypeInv /\ slot[r] \in Slots /\ stored \in Receipts \cup {NoReceipt}
    BY DEF MergeTypeInv, DataOK, TypeInv, TypeOK, RequestOK, AttendanceOK
  <1>2. CreateReceipt(r) \/ RestoreReceipt(r) \/ VoidReceipt(r)
    BY DEF Handle, Arrive, ReadForCheckIn, ReadForUndo, ReadChurch, ReadMember, ReadOccurrence,
           ReadEvent, ReadConflict
  <1>3. CASE CreateReceipt(r)
    BY <1>1, <1>3, WrittenReceipts DEF CreateReceipt, Put, Store!MayCreate
  <1>4. CASE RestoreReceipt(r) \/ VoidReceipt(r)
    <2>1. PICK doc \in {Restored(r), Voided(r)} :
              /\ pc[r] = "save" /\ Store!MayReplace(stored, seen[r].etag) /\ Put(slot[r], doc)
      BY <1>4 DEF RestoreReceipt, VoidReceipt, ReplaceReceipt
    <2>2. seen[r] # NoReceipt
      BY <1>1, <1>4, <2>1 DEF RestoreReceipt, VoidReceipt, TypeInv, UndoHoldsReceipt
    <2>3. seen[r] = stored /\ seen[r] \in Receipts
      <3>1. FreshReceipt(seen[r], slot[r])
        BY <2>1, <2>2 DEF RequestInv, CopiesHeld
      <3>2. QED
        BY <1>1, <2>1, <3>1 DEF FreshReceipt, Store!MayReplace, TypeInv, TypeOK, HandlerOK
    <2>4. doc \in Receipts /\ doc # NoReceipt
      BY <1>1, <2>1, <2>2, WrittenReceipts, NoReceiptType
    <2>5. \E entry \in Entries : doc.audit = Append(seen[r].audit, entry)
      <3>1. /\ Entry(r, "checked_in") \in Entries /\ Entry(r, "undone") \in Entries
        BY CallersType, EntryType DEF Actions
      <3>2. /\ Restored(r).audit = Append(seen[r].audit, Entry(r, "checked_in"))
            /\ Voided(r).audit = Append(seen[r].audit, Entry(r, "undone"))
        BY <2>3 DEF Restored, Voided, Receipts
      <3>3. QED
        BY <3>1, <3>2
    <2>6. QED
      BY <2>1, <2>3, <2>4, <2>5 DEF Put, Continues
  <1>5. QED
    BY <1>2, <1>3, <1>4

(* So does a merge's, for a duplicate; for a moved receipt see MovesStored. *)
LEMMA DropsStored ==
    ASSUME MergeTypeInv, GatheredInv, NEW x \in Merges, NEW o \in Occurrences,
           DropDuplicate(x, o), ~UNCHANGED attendance
    PROVE  \E doc \in Receipts :
               /\ receipt' = [receipt EXCEPT ![LoserSlot(x, o)] = doc]
               /\ Continues(doc, receipt[LoserSlot(x, o)])
  <1> DEFINE s == LoserSlot(x, o)
             copy == work[x].losers[o]
             noted == Noted(x, copy, "merged_to", version[s] + 1)
             doc == [noted EXCEPT !.active = FALSE]
  <1>1. stage[x] = "move" /\ o \in work[x].todo
    BY DEF DropDuplicate
  <1>2. copy \in Receipts /\ copy # NoReceipt /\ s \in Slots
    BY <1>1, GatheredLoser, MergeParts, NoReceiptType
  <1>3. Store!MayReplace(receipt[s], copy.etag) /\ Put(s, doc)
    BY DEF DropDuplicate
  <1>4. receipt[s] = copy
    BY <1>2, <1>3 DEF GatheredInv, GatheredOK, FreshReceipt, Store!MayReplace
  <1>5. version[s] + 1 \in Nat /\ "merged_to" \in Actions
    BY <1>2 DEF MergeTypeInv, DataOK, TypeInv, TypeOK, AttendanceOK, Actions
  <1>6. /\ noted \in Receipts /\ noted.audit = Append(copy.audit, Entry(x, "merged_to"))
        /\ doc \in Receipts
    <2> HIDE DEF copy
    <2>1. QED
      BY <1>2, <1>5, NotedType
  <1>7. doc.audit = noted.audit
    BY <1>6 DEF Receipts
  <1>8. Entry(x, "merged_to") \in Entries
    BY <1>5, MergesType, EntryType
  <1> HIDE DEF doc, noted
  <1>9. QED
    BY <1>3, <1>4, <1>6, <1>7, <1>8, NoReceiptType DEF Put, Continues

(* One step keeps every history.                                           *)
HistoriesKept ==
    \A s \in Slots : receipt[s] # NoReceipt =>
        \/ Continues(receipt'[s], receipt[s])
        \/ \E m \in Members :
               LET t == <<s[1], m>> IN
               \/ Moves(s, t)
               \/ Moves(t, s) /\ receipt[t].active /\ ~receipt[s].active

LEMMA UnwrittenHistories ==
    ASSUME UNCHANGED attendance
    PROVE  HistoriesKept
  BY DEF attendance, HistoriesKept, Continues

LEMMA WrittenHistories ==
    ASSUME MergeTypeInv, NEW s \in Slots, NEW doc,
           receipt' = [receipt EXCEPT ![s] = doc],
           receipt[s] # NoReceipt => Continues(doc, receipt[s])
    PROVE  HistoriesKept
  <1>1. receipt \in [Slots -> Receipts \cup {NoReceipt}]
    BY DEF MergeTypeInv, DataOK, TypeInv, TypeOK, AttendanceOK
  <1>2. ASSUME NEW t \in Slots, receipt[t] # NoReceipt
        PROVE  Continues(receipt'[t], receipt[t])
    BY <1>1, <1>2 DEF Continues
  <1>3. QED
    BY <1>2 DEF HistoriesKept

LEMMA MovedHistories ==
    ASSUME MergeTypeInv, GatheredInv, NEW x \in Merges, NEW o \in Occurrences,
           MoveReceipt(x, o), ~UNCHANGED attendance
    PROVE  HistoriesKept
  <1> DEFINE from == LoserSlot(x, o)
             to == KeeperSlot(x, o)
             copy == receipt[from]
             noted == Noted(x, copy, "merged_from", version[to] + 1)
  <1>1. /\ receipt[from] \in Receipts /\ receipt[from].active
        /\ receipt[to] # NoReceipt => ~receipt[to].active
        /\ receipt' = [receipt EXCEPT ![from] = NoReceipt, ![to] = noted]
    BY MovesStored
  <1>2. /\ receipt \in [Slots -> Receipts \cup {NoReceipt}]
        /\ from \in Slots /\ to \in Slots /\ from # to
        /\ Keep(x) \in Members /\ Lose(x) \in Members
        /\ from[1] = o /\ to[1] = o
        /\ from = <<o, Lose(x)>> /\ to = <<o, Keep(x)>>
    BY MergeParts DEF MergeTypeInv, DataOK, TypeInv, TypeOK, AttendanceOK, LoserSlot, KeeperSlot
  <1>3. Continues(noted, receipt[from]) /\ noted.active
    <2>1. version[to] + 1 \in Nat /\ "merged_from" \in Actions
      BY <1>2 DEF MergeTypeInv, DataOK, TypeInv, TypeOK, AttendanceOK, Actions
    <2>2. /\ noted \in Receipts /\ noted.active = copy.active
          /\ noted.audit = Append(copy.audit, Entry(x, "merged_from"))
      <3>1. copy \in Receipts
        BY <1>1
      <3> HIDE DEF copy
      <3>2. QED
        BY <2>1, <3>1, NotedType
    <2>3. Entry(x, "merged_from") \in Entries
      BY <2>1, MergesType, EntryType
    <2>4. QED
      BY <1>1, <2>2, <2>3, NoReceiptType DEF Continues
  <1> HIDE DEF from, to, noted
  <1>4. receipt'[to] = noted /\ receipt'[from] = NoReceipt
    BY <1>1, <1>2
  <1>5. Moves(from, to)
    BY <1>1, <1>3, <1>4, NoReceiptType DEF Moves, Continues
  <1>6. ASSUME NEW s \in Slots, receipt[s] # NoReceipt
        PROVE  \/ Continues(receipt'[s], receipt[s])
               \/ \E m \in Members :
                      LET t == <<s[1], m>> IN
                      \/ Moves(s, t)
                      \/ Moves(t, s) /\ receipt[t].active /\ ~receipt[s].active
    <2>1. CASE s = from
      BY <1>2, <1>5, <2>1
    <2>2. CASE s = to
      <3>1. ~receipt[s].active /\ receipt[from].active
        BY <1>1, <1>6, <2>2
      <3>2. from = <<s[1], Lose(x)>>
        BY <1>2, <2>2
      <3>3. QED
        BY <1>2, <1>5, <2>2, <3>1, <3>2
    <2>3. CASE s # from /\ s # to
      BY <1>1, <1>2, <1>6, <2>3 DEF Continues
    <2>4. QED
      BY <2>1, <2>2, <2>3
  <1>7. QED
    BY <1>6 DEF HistoriesKept

LEMMA HistoriesStep == MergeTypeInv /\ RequestInv /\ [MergeNext]_mergeVars => HistoriesKept
  <1> SUFFICES ASSUME MergeTypeInv, RequestInv, [MergeNext]_mergeVars, ~UNCHANGED attendance
               PROVE  HistoriesKept
    BY UnwrittenHistories
  <1>1. GatheredInv
    BY DEF RequestInv
  <1>2. ASSUME NEW x \in Merges, Merge(x)
        PROVE  HistoriesKept
    <2>1. PICK o \in Occurrences : DropDuplicate(x, o) \/ MoveReceipt(x, o)
      <3>1. ASSUME NEW o \in Occurrences, GatherKeeper(x, o) \/ GatherLoser(x, o)
            PROVE  FALSE
        BY <3>1 DEF GatherKeeper, GatherLoser, OnlyReads, Shared
      <3>2. QED
        BY <1>2, <3>1, OtherParts
    <2>2. CASE DropDuplicate(x, o)
      <3>1. LoserSlot(x, o) \in Slots
        BY MergeParts
      <3>2. QED
        BY <1>1, <2>2, <3>1, DropsStored, WrittenHistories
    <2>3. CASE MoveReceipt(x, o)
      BY <1>1, <2>3, MovedHistories
    <2>4. QED
      BY <2>1, <2>2, <2>3
  <1>3. ASSUME NEW r \in Requests, Handle(r)
        PROVE  HistoriesKept
    <2>1. slot[r] \in Slots
      BY DEF MergeTypeInv, DataOK, TypeInv, TypeOK, RequestOK
    <2>2. QED
      BY <1>3, <2>1, HandlerWrites, WrittenHistories
  <1>4. QED
    <2>1. ASSUME Elsewhere
          PROVE  \E r \in Requests : Handle(r)
      BY <2>1 DEF Elsewhere, EditMember, Recode, RetireGroup, ArchiveDocument, Regroup, Edit
    <2>2. CASE UNCHANGED mergeVars
      BY <2>2 DEF mergeVars, vars
    <2>3. QED
      BY <1>2, <1>3, <2>1, <2>2 DEF MergeNext

(* HistoriesGoOn: no check-in, undo or merge loses the history of a        *)
(* receipt, but for an undone one that a moved receipt takes the place of. *)
THEOREM HistoriesAreKept == MergeSpec => HistoriesGoOn
  <1>1. MergeTypeInv /\ [MergeNext]_mergeVars => MergeTypeInv'
    BY MergeSteps
  <1>2. MergeTypeInv /\ RequestInv /\ [MergeNext]_mergeVars => [HistoriesKept]_mergeVars
    BY HistoriesStep
  <1>3. QED
    BY MergeTypesInit, RequestInit, <1>1, <1>2, RequestStep, PTL
       DEF MergeSpec, HistoriesGoOn, HistoriesKept

=============================================================================

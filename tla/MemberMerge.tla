------------------------------ MODULE MemberMerge ------------------------------
(***************************************************************************)
(* MemberMergeService.Merge, running beside check-ins, undos and edits.    *)
(*                                                                         *)
(* A merge moves the check-ins of one member, the loser, to another, the   *)
(* keeper, and archives the loser.  It is a sequence of awaits over        *)
(* several documents with no transaction around them: each await is a step *)
(* here, and every write is conditional on an ETag the merge, or the       *)
(* caller of the merge, read earlier.                                      *)
(*                                                                         *)
(* This module extends CheckIns: the receipts and the directory are the    *)
(* ones its handlers work on.  A member document gets what a merge looks   *)
(* at, its ETag and its scan code.  Groups and custom fields, which a save *)
(* of a member reads in the same way, are both the groups of the model.    *)
(***************************************************************************)
EXTENDS CheckIns, FiniteSets

CONSTANTS
    Merges,         \* calls of the merge API
    Codes,          \* scan codes
    Updates,        \* updates of a keeper that merges are called with
    None            \* no code, no document, no caller's copy

VARIABLES
    tag,            \* of each member: its document's ETag
    code,           \* of each member: Member.ScanCode
    retired,        \* the archived groups; members may still name them
    pair,           \* of each merge: the two ids it is called with
    sent,           \* of each merge: the ETags and the update it is called with
    stage,          \* of each merge: what it awaits next
    work,           \* of each merge: what it holds
    result,         \* of each merge: its outcome
    gathered,       \* of each merge (history): the loser's versions when it gathered
    disturbed       \* of each merge (history): someone else wrote since its call

details == <<tag, code, retired>>
Shared == <<directory, attendance, details>>
mergeVars == <<vars, details, pair, sent, stage, work, result, gathered, disturbed>>

Keep(x) == pair[x].keep
Lose(x) == pair[x].lose
KeeperSlot(x, o) == <<o, Keep(x)>>
LoserSlot(x, o) == <<o, Lose(x)>>

(* A Member document, as a read returns it.                                *)
MemberDocs ==
    [active : BOOLEAN, etag : Nat, groups : Snapshots, code : Codes \cup {None}]

(* An update of the keeper, otherwise valid.  A request that leaves the    *)
(* code out (not `coded`) differs from one that gives none.                *)
MemberUpdates ==
    {[groups |-> gs, coded |-> TRUE, code |-> c] : gs \in Snapshots, c \in Codes \cup {None}}
    \cup {[groups |-> gs, coded |-> FALSE, code |-> None] : gs \in Snapshots}

(* What the merge API is called with: the ETags the caller saw, and maybe  *)
(* an update; and (history) whether it takes the loser's code and whether  *)
(* nothing stored then speaks against the merge.                           *)
MergeCalls ==
    [keep : Nat, lose : Nat, update : MemberUpdates \cup {None},
     takes : BOOLEAN, fit : BOOLEAN]

Doc(m) ==
    [active |-> status[m] = "active", etag |-> tag[m], groups |-> groups[m],
     code |-> code[m]]

(* A member write gives the document a new ETag.                           *)
PutMember(m, doc) ==
    /\ status' = [status EXCEPT ![m] = IF doc.active THEN "active" ELSE "archived"]
    /\ groups' = [groups EXCEPT ![m] = doc.groups]
    /\ code' = [code EXCEPT ![m] = doc.code]
    /\ tag' = [tag EXCEPT ![m] = @ + 1]
    /\ UNCHANGED <<closed, edits, retired>>

MayAssignAny(m, c) == TRUE      \* fault: a code is not checked against other members

(* A code belongs to at most one member, archived members included.        *)
MayAssign(m, c) == c = None \/ \A n \in Members \ {m} : code[n] # c

-----------------------------------------------------------------------------
(* A merge's control.                                                      *)

Idle ==
    [keep |-> None, lose |-> None, unread |-> {}, todo |-> {},
     keepers |-> [o \in Occurrences |-> NoReceipt],
     losers |-> [o \in Occurrences |-> NoReceipt]]

(* The merge goes on to its next await with what it now holds.             *)
Proceed(x, step, held) ==
    /\ stage' = [stage EXCEPT ![x] = step]
    /\ work' = [work EXCEPT ![x] = held]
    /\ UNCHANGED result

End(x, outcome) ==
    /\ stage' = [stage EXCEPT ![x] = "done"]
    /\ work' = [work EXCEPT ![x] = Idle]
    /\ result' = [result EXCEPT ![x] = outcome]

OnlyMerging == UNCHANGED <<call, handler, arrival, pair, sent, gathered>>
OnlyReads == UNCHANGED Shared /\ OnlyMerging

(* Nothing stored speaks against the merge: its documents are active, and  *)
(* the update's code is the keeper's to take.                              *)
Fit(x, update, takes) ==
    /\ \A d \in {Church, Keep(x), Lose(x)} : status[d] = "active"
    /\ update # None =>
          /\ update.groups \cap retired = {}
          /\ takes \/ MayAssign(Keep(x), update.code)

(* The app has loaded both members; it sends the ETags it saw, and maybe   *)
(* an update of the keeper.                                                *)
Call(x) ==
    /\ stage[x] = "waiting"
    /\ \E update \in Updates \cup {None} :
          LET takes == update # None /\ update.code # None /\ update.code = code[Lose(x)] IN
          sent' = [sent EXCEPT ![x] =
              [keep |-> tag[Keep(x)], lose |-> tag[Lose(x)], update |-> update,
               takes |-> takes, fit |-> Fit(x, update, takes)]]
    /\ Proceed(x, "load_keeper", Idle)
    /\ UNCHANGED <<Shared, call, handler, arrival, pair, gathered>>

LoadKeeper(x) ==
    /\ stage[x] = "load_keeper"
    /\ IF status[Keep(x)] = "missing"
       THEN End(x, "not_found")
       ELSE Proceed(x, "load_loser", [work[x] EXCEPT !.keep = Doc(Keep(x))])
    /\ OnlyReads

(* What comes after the two members are loaded.  A code that the loser has *)
(* is released before the keeper takes it.                                 *)
AfterLoad(update, loser) ==
    IF update = None THEN "gather_keeper"
    ELSE IF update.code # None /\ update.code = loser.code THEN "release"
    ELSE "save_church"

LoadLoser(x) ==
    LET loser == Doc(Lose(x)) IN
    /\ stage[x] = "load_loser"
    /\ IF status[Lose(x)] = "missing"
       THEN End(x, "not_found")
       ELSE IF ~work[x].keep.active \/ ~loser.active
       THEN End(x, "archived")
       ELSE Proceed(x, AfterLoad(sent[x].update, loser),
                    [work[x] EXCEPT !.lose = loser, !.todo = Occurrences])
    /\ OnlyReads

ReleaseCode(x) ==
    LET m == Lose(x)
        copy == work[x].lose
    IN
    /\ stage[x] = "release"
    /\ IF Store!MayReplace(Doc(m), copy.etag)
       THEN /\ PutMember(m, [copy EXCEPT !.code = None])
            /\ Proceed(x, "save_church", work[x])
       ELSE /\ End(x, "stale_version")
            /\ UNCHANGED <<directory, details>>
    /\ UNCHANGED attendance /\ OnlyMerging

(* directory.Save of the keeper.                                           *)
SaveReadsChurch(x) ==
    /\ stage[x] = "save_church"
    /\ IF status[Church] = "active"
       THEN Proceed(x, "save_read", work[x])
       ELSE End(x, RefusedUnless(Church))
    /\ OnlyReads

(* The next await of the save: a group that it has not read yet, or the    *)
(* write.                                                                  *)
SaveGoesOn(x, held) ==
    Proceed(x, IF held.unread = {} THEN "save" ELSE "save_groups", held)

SaveReadsKeeper(x) ==
    /\ stage[x] = "save_read"
    /\ IF status[Keep(x)] # "active"
       THEN End(x, RefusedUnless(Keep(x)))
       ELSE IF tag[Keep(x)] # sent[x].keep
       THEN End(x, "stale_version")
       ELSE SaveGoesOn(x, [work[x] EXCEPT !.keep = Doc(Keep(x)),
                                          !.unread = sent[x].update.groups])
    /\ OnlyReads

(* Every group that the update names has to be active.                     *)
SaveReadsGroup(x, g) ==
    /\ stage[x] = "save_groups"
    /\ g \in work[x].unread
    /\ IF g \in retired
       THEN End(x, "archived")
       ELSE SaveGoesOn(x, [work[x] EXCEPT !.unread = @ \ {g}])
    /\ OnlyReads

(* The keeper's document becomes the update; it keeps its own code when    *)
(* the update leaves the code out, and loses it when the update has none.  *)
Updated(x) ==
    LET update == sent[x].update IN
    [work[x].keep EXCEPT !.groups = update.groups,
                         !.code = IF update.coded THEN update.code ELSE @]

SaveKeeper(x) ==
    LET m == Keep(x)
        refused(outcome) == End(x, outcome) /\ UNCHANGED <<directory, details>>
    IN
    /\ stage[x] = "save"
    /\ IF ~Store!MayReplace(Doc(m), sent[x].keep)
       THEN refused("stale_version")
       ELSE IF ~MayAssign(m, Updated(x).code)
       THEN refused("scan_code_conflict")
       ELSE PutMember(m, Updated(x)) /\ Proceed(x, "gather_keeper", work[x])
    /\ UNCHANGED attendance /\ OnlyMerging

-----------------------------------------------------------------------------
(* The receipts.  A search spans the occurrences' partitions and pages; it *)
(* is no snapshot, so each occurrence is read at a moment of its own.      *)

(* What a search for active receipts returns of one.                       *)
ActiveOnly(stored) ==
    IF stored # NoReceipt /\ stored.active THEN stored ELSE NoReceipt

GatherActive(x, o) ==       \* fault: the keeper's undone receipts are not gathered
    LET kept == ActiveOnly(receipt[KeeperSlot(x, o)])
        held == [work[x] EXCEPT !.keepers[o] = kept, !.todo = @ \ {o}]
    IN
    /\ stage[x] = "gather_keeper"
    /\ o \in work[x].todo
    /\ IF held.todo = {}
       THEN Proceed(x, "gather_loser", [held EXCEPT !.todo = Occurrences])
       ELSE Proceed(x, "gather_keeper", held)
    /\ OnlyReads

(* The keeper's undone receipts are gathered too: each occupies its slot.  *)
GatherKeeper(x, o) ==
    LET held == [work[x] EXCEPT !.keepers[o] = receipt[KeeperSlot(x, o)], !.todo = @ \ {o}] IN
    /\ stage[x] = "gather_keeper"
    /\ o \in work[x].todo
    /\ IF held.todo = {}
       THEN Proceed(x, "gather_loser", [held EXCEPT !.todo = Occurrences])
       ELSE Proceed(x, "gather_keeper", held)
    /\ OnlyReads

(* The loop over the gathered receipts, from where it stands.              *)
Loop(x, held) ==
    Proceed(x, IF held.todo = {} THEN "archive_church" ELSE "move", held)

(* Only the loser's active receipts are gathered.                          *)
GatherLoser(x, o) ==
    LET stored == receipt[LoserSlot(x, o)]
        held == [work[x] EXCEPT !.losers[o] = ActiveOnly(stored), !.todo = @ \ {o}]
    IN
    /\ stage[x] = "gather_loser"
    /\ o \in work[x].todo
    /\ gathered' = [gathered EXCEPT ![x][o] = version[LoserSlot(x, o)]]
    /\ IF held.todo = {}
       THEN Loop(x, [held EXCEPT !.todo = {p \in Occurrences : held.losers[p] # NoReceipt}])
       ELSE Proceed(x, "gather_loser", held)
    /\ UNCHANGED <<Shared, call, handler, arrival, pair, sent>>

(* The merge's copy of the loser's receipt with an entry, as version n.    *)
Noted(x, copy, action, n) ==
    [copy EXCEPT !.audit = Append(@, Entry(x, action)), !.etag = n]

NextReceipt(x, o) == Loop(x, [work[x] EXCEPT !.todo = @ \ {o}])

BothPresent(x, o) ==
    LET kept == work[x].keepers[o] IN kept # NoReceipt /\ kept.active

(* Both were checked in: the loser's receipt stops counting.               *)
DropDuplicate(x, o) ==
    LET s == LoserSlot(x, o)
        copy == work[x].losers[o]
        doc == [Noted(x, copy, "merged_to", version[s] + 1) EXCEPT !.active = FALSE]
    IN
    /\ stage[x] = "move"
    /\ o \in work[x].todo
    /\ BothPresent(x, o)
    /\ IF Store!MayReplace(receipt[s], copy.etag)
       THEN Put(s, doc) /\ NextReceipt(x, o)
       ELSE End(x, Store!ReplaceRefusal(receipt[s])) /\ UNCHANGED attendance
    /\ UNCHANGED <<directory, details>> /\ OnlyMerging

(* Transfer's write: the loser's receipt becomes the keeper's.             *)
PutBoth(from, to, doc) ==       \* fault: the loser's receipt is not removed
    Put(to, doc)

PutInstead(from, to, doc) ==
    /\ receipt' = [receipt EXCEPT ![from] = NoReceipt, ![to] = doc]
    /\ version' = [version EXCEPT ![to] = @ + 1]

(* The keeper has no active receipt there; an undone one is replaced.      *)
MoveReceipt(x, o) ==
    LET from == LoserSlot(x, o)
        to == KeeperSlot(x, o)
        copy == work[x].losers[o]
        undone == work[x].keepers[o]
    IN
    /\ stage[x] = "move"
    /\ o \in work[x].todo
    /\ ~BothPresent(x, o)
    /\ IF Store!MayTransfer(receipt[from], copy, receipt[to], undone)
       THEN /\ PutInstead(from, to, Noted(x, copy, "merged_from", version[to] + 1))
            /\ NextReceipt(x, o)
       ELSE /\ End(x, Store!TransferRefusal(receipt[from], copy, receipt[to], undone))
            /\ UNCHANGED attendance
    /\ UNCHANGED <<directory, details>> /\ OnlyMerging

-----------------------------------------------------------------------------
(* directory.Archive of the loser, with the ETag the caller sent.          *)

ArchiveReadsChurch(x) ==
    /\ stage[x] = "archive_church"
    /\ IF status[Church] = "active"
       THEN Proceed(x, "archive_read", work[x])
       ELSE End(x, RefusedUnless(Church))
    /\ OnlyReads

ArchiveReadsLoser(x) ==
    /\ stage[x] = "archive_read"
    /\ Proceed(x, "archive", [work[x] EXCEPT !.lose = Doc(Lose(x))])
    /\ OnlyReads

ArchiveLatest(x) ==     \* fault: with the ETag just read instead
    LET m == Lose(x) IN
    /\ stage[x] = "archive"
    /\ IF Store!MayReplace(Doc(m), work[x].lose.etag)
       THEN /\ PutMember(m, [work[x].lose EXCEPT !.active = FALSE])
            /\ End(x, "merged")
       ELSE /\ End(x, "stale_version")
            /\ UNCHANGED <<directory, details>>
    /\ UNCHANGED attendance /\ OnlyMerging

ArchiveLoser(x) ==
    LET m == Lose(x) IN
    /\ stage[x] = "archive"
    /\ IF Store!MayReplace(Doc(m), sent[x].lose)
       THEN /\ PutMember(m, [work[x].lose EXCEPT !.active = FALSE])
            /\ End(x, "merged")
       ELSE /\ End(x, "stale_version")
            /\ UNCHANGED <<directory, details>>
    /\ UNCHANGED attendance /\ OnlyMerging

Merge(x) ==
    \/ Call(x)
    \/ LoadKeeper(x)
    \/ LoadLoser(x)
    \/ ReleaseCode(x)
    \/ SaveReadsChurch(x)
    \/ SaveReadsKeeper(x)
    \/ \E g \in Groups : SaveReadsGroup(x, g)
    \/ SaveKeeper(x)
    \/ \E o \in Occurrences : GatherKeeper(x, o) \/ GatherLoser(x, o)
    \/ \E o \in Occurrences : DropDuplicate(x, o) \/ MoveReceipt(x, o)
    \/ ArchiveReadsChurch(x)
    \/ ArchiveReadsLoser(x)
    \/ ArchiveLoser(x)

-----------------------------------------------------------------------------
(* The other handlers.  A write of a member by another handler gives it a  *)
(* new ETag too.  The edits left out (events and occurrences) are ones no  *)
(* merge reads; what they do to a check-in is in CheckIns.                 *)

EditMember(m) ==
    /\ ArchiveDocument(m) \/ \E gs \in Snapshots : Regroup(m, gs)
    /\ tag' = [tag EXCEPT ![m] = @ + 1]
    /\ UNCHANGED <<code, retired>>

(* DirectoryService.Save of an active member with another code, or none.   *)
Recode(m, c) ==
    /\ status[m] = "active"
    /\ code[m] # c
    /\ MayAssign(m, c)
    /\ code' = [code EXCEPT ![m] = c]
    /\ tag' = [tag EXCEPT ![m] = @ + 1]
    /\ UNCHANGED <<status, groups, closed, retired>>
    /\ Edit

(* DirectoryService.Archive of a group; nobody's document changes.         *)
RetireGroup(g) ==
    /\ g \notin retired
    /\ retired' = retired \cup {g}
    /\ UNCHANGED <<status, groups, closed, tag, code>>
    /\ Edit

Elsewhere ==
    \/ /\ (\E r \in Requests : Handle(r)) \/ ArchiveDocument(Church)
       /\ UNCHANGED details
    \/ \E m \in Members : EditMember(m)
    \/ \E m \in Members, c \in Codes \cup {None} : Recode(m, c)
    \/ \E g \in Groups : RetireGroup(g)

(* Merges in flight that a step of someone else has written beside.        *)
Disturbs(others) ==
    disturbed' = [x \in Merges |->
        disturbed[x] \/ /\ x \in others
                        /\ stage[x] \notin {"waiting", "done"}
                        /\ Shared' # Shared]

(* Receipts of earlier check-ins, some of them undone since.               *)
EarlierReceipts(earlier) ==
    LET checkedIn ==
            [active |-> TRUE, etag |-> 1, groups |-> {}, at |-> earlier,
             audit |-> <<Entry(earlier, "checked_in")>>]
        undone == [checkedIn EXCEPT !.active = FALSE, !.etag = 2,
                                    !.audit = Append(@, Entry(earlier, "undone"))]
    IN  {NoReceipt, checkedIn, undone}

MergeInit ==
    /\ status = [d \in Documents |-> "active"]
    /\ groups = [m \in Members |-> {}]
    /\ closed = {}
    /\ edits = 0
    /\ \E earlier \in Callers \ (Requests \cup Merges) :
           receipt \in [Slots -> EarlierReceipts(earlier)]
    /\ version = [s \in Slots |-> IF receipt[s] = NoReceipt THEN 0 ELSE receipt[s].etag]
    /\ op \in [Requests -> {"CheckIn", "Undo"}]
    /\ slot \in [Requests -> Slots]
    /\ pc = [r \in Requests |-> "waiting"]
    /\ seen = [r \in Requests |-> NoReceipt]
    /\ taken = [r \in Requests |-> {}]
    /\ open = [r \in Requests |-> FALSE]
    /\ answer = [r \in Requests |-> "none"]
    /\ arrival = [r \in Requests |-> [receipt |-> NoReceipt, shut |-> FALSE]]
    /\ tag = [m \in Members |-> 1]
    /\ code \in [Members -> Codes \cup {None}]
    /\ \A m, n \in Members : m # n /\ code[m] # None => code[m] # code[n]
    /\ retired = {}
    /\ pair \in [Merges -> {p \in [keep : Members, lose : Members] : p.keep # p.lose}]
    /\ sent = [x \in Merges |-> None]
    /\ stage = [x \in Merges |-> "waiting"]
    /\ work = [x \in Merges |-> Idle]
    /\ result = [x \in Merges |-> "none"]
    /\ gathered = [x \in Merges |-> [o \in Occurrences |-> 0]]
    /\ disturbed = [x \in Merges |-> FALSE]

MergeNext ==
    \/ \E x \in Merges : Merge(x) /\ Disturbs(Merges \ {x})
    \/ Elsewhere /\ UNCHANGED <<pair, sent, stage, work, result, gathered>> /\ Disturbs(Merges)

MergeSpec == MergeInit /\ [][MergeNext]_mergeVars

-----------------------------------------------------------------------------
(* Properties.                                                             *)

ASSUME MergesType == Merges \subseteq Callers
ASSUME UpdatesType == Updates \subseteq MemberUpdates
ASSUME MembersType == IsFiniteSet(Members) /\ Church \notin Members
ASSUME NoneType == None \notin MemberDocs \cup MergeCalls /\ NoReceipt \notin MemberDocs

(* What a merge holds between two awaits.                                  *)
Held ==
    [keep : MemberDocs \cup {None}, lose : MemberDocs \cup {None},
     unread : Snapshots, todo : SUBSET Occurrences,
     keepers : [Occurrences -> Receipts \cup {NoReceipt}],
     losers : [Occurrences -> Receipts \cup {NoReceipt}]]

MergeRecordsOK ==
    /\ pair \in [Merges -> [keep : Members, lose : Members]]
    /\ sent \in [Merges -> MergeCalls \cup {None}]
    /\ work \in [Merges -> Held]

(* Every variable has its type; a merge has what its stage needs.          *)
MergeTypeOK ==
    /\ TypeOK
    /\ tag \in [Members -> Nat]
    /\ code \in [Members -> Codes \cup {None}]
    /\ retired \in Snapshots
    /\ MergeRecordsOK
    /\ \A x \in Merges :
          /\ stage[x] \notin {"waiting", "load_keeper", "load_loser", "done"} =>
                work[x].keep # None /\ work[x].lose # None /\ work[x].keep.active
          /\ stage[x] = "move" => \A o \in work[x].todo : work[x].losers[o] # NoReceipt

(* A scan code identifies one member.                                      *)
CodesUnique ==
    \A m, n \in Members : m # n /\ code[m] # None => code[m] # code[n]

(* When a merge has succeeded, the loser is archived and stays so, and no  *)
(* receipt that it had when the merge looked still counts for it.          *)
MergedLoserEmptied ==
    \A x \in Merges : result[x] = "merged" =>
        /\ status[Lose(x)] = "archived"
        /\ \A o \in Occurrences :
              LET left == receipt[LoserSlot(x, o)] IN
              left # NoReceipt /\ left.active => left.etag > gathered[x][o]

Undisturbed(x) == stage[x] = "done" /\ sent[x].fit /\ ~disturbed[x]

(* A merge that nothing stored speaks against and beside which nobody      *)
(* writes is carried out, unless it takes the loser's scan code.           *)
UndisturbedMergeSucceeds ==
    \A x \in Merges : Undisturbed(x) /\ ~sent[x].takes => result[x] = "merged"

(* A merge that takes the loser's code releases it from the loser first,   *)
(* and is carried out like any other (MemberMergeService.Merge's comment   *)
(* on the keeper update).                                                  *)
CodeTakingMergeSucceeds ==
    \A x \in Merges : Undisturbed(x) /\ sent[x].takes => result[x] = "merged"

(* The merge writes its own copy of the loser: when it archives the loser  *)
(* it undoes nobody's edit of it, and it archives the version its caller   *)
(* had on the screen.                                                      *)
ArchivesWhatTheCallerSaw ==
    [][\A x \in Merges : result[x] # "merged" /\ result'[x] = "merged" =>
           /\ tag[Lose(x)] = sent[x].lose
           /\ UNCHANGED <<groups, code>>]_mergeVars

Present(o) == {m \in Members : receipt[<<o, m>>] # NoReceipt /\ receipt[<<o, m>>].active}

(* Step of merge x that is a write on occurrence o.                        *)
WritesOn(x, o) == work[x] # work'[x] /\ \E m \in Members : receipt[<<o, m>>] # receipt'[<<o, m>>]

(* A moved check-in is the stored one, with its time, snapshot and history *)
(* (CheckedInAt is preserved); it takes the place of no check-in that      *)
(* counts, and the occurrence's headcount stays the same.                  *)
TransferKeepsRecord ==
    [][\A x \in Merges, o \in Occurrences :
           LET moved == receipt'[KeeperSlot(x, o)]
               from == receipt[LoserSlot(x, o)]
           IN
           WritesOn(x, o) /\ moved # receipt[KeeperSlot(x, o)] =>
               /\ from.active /\ moved.active
               /\ moved.at = from.at /\ moved.groups = from.groups
               /\ moved.audit = Append(from.audit, Entry(x, "merged_from"))
               /\ Cardinality(Present(o)') = Cardinality(Present(o))]_mergeVars

(* The history of an old receipt goes on in a new one, with at most one    *)
(* entry more.                                                             *)
Continues(new, old) ==
    /\ new # NoReceipt
    /\ new.audit = old.audit \/ \E entry \in Entries : new.audit = Append(old.audit, entry)

(* A receipt moves to another slot, with its history.                      *)
Moves(from, to) ==
    /\ receipt[from] # NoReceipt /\ receipt'[from] = NoReceipt
    /\ receipt'[to] # receipt[to]
    /\ Continues(receipt'[to], receipt[from])

(* No history is lost between check-ins, undos and merges: it goes on in   *)
(* the receipt's slot, or it moves to another member of the occurrence.    *)
(* Excepted are undone receipts whose slot one that counts moves to        *)
(* (MemberMergeService.Merge's Transfer with the ETag of a stale receipt). *)
HistoriesGoOn ==
    [][\A s \in Slots : receipt[s] # NoReceipt =>
           \/ Continues(receipt'[s], receipt[s])
           \/ \E m \in Members :
                  LET t == <<s[1], m>> IN
                  \/ Moves(s, t)
                  \/ Moves(t, s) /\ receipt[t].active /\ ~receipt[s].active]_mergeVars

(* The headcount drops only where both were checked in, and the keeper's   *)
(* receipt stays (the class comment of MemberMergeService: a real dedupe). *)
MergeDropsOnlyDuplicates ==
    [][\A x \in Merges, o \in Occurrences :
           WritesOn(x, o) /\ Lose(x) \in Present(o) => Keep(x) \in Present(o)']_mergeVars

=============================================================================

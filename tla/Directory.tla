------------------------------ MODULE Directory ------------------------------
(***************************************************************************)
(* DirectoryService: saving and archiving the documents of one church, and *)
(* purging the church.                                                     *)
(*                                                                         *)
(* A handler checks what it needs in a series of reads and then makes one  *)
(* conditional write; a purge lists documents and deletes them one by one. *)
(* Nothing holds a lock across two awaits, so each await is a step.  The   *)
(* container is Cosmos': receipts are in one container, every other        *)
(* document of the church, the church's own included, is in the other.     *)
(*                                                                         *)
(* A group stands for whatever a member refers to: custom fields are read  *)
(* and archived the same way.                                              *)
(***************************************************************************)
EXTENDS Naturals, FiniteSets

CONSTANTS
    Requests,
    Church,         \* the church's own document
    Groups,
    Members,
    Receipts,       \* the church's attendance documents
    None,           \* no parent
    NoDocument,
    Passes          \* how often a purge goes over the directory container

ASSUME PassesType == Passes \in Nat \ {0}
ASSUME ChurchApart == Church \notin Groups \cup Members
ASSUME NoneApart == None \notin {Church} \cup Groups \cup Members

Directory == {Church} \cup Groups \cup Members
Ids == Directory \cup Receipts

VARIABLES
    doc,            \* of each id: its document
    minted,         \* ids that have been given to documents
    call,           \* of each request: what it asks for
    pc,             \* of each request: what its handler awaits next
    seen,           \* of each request: the document it has read to change
    todo,           \* of each request: the documents it has still to read or delete
    pass,           \* of each purge: its passes over the directory container
    answer,         \* of each request: its outcome
    arrival         \* of each request (history): what was there when it arrived

handler == <<pc, seen, todo, pass, answer>>
vars == <<doc, minted, call, handler, arrival>>

Store == INSTANCE Repository

(* The fields that matter here: a group's parent, a member's groups.       *)
Docs ==
    [active : BOOLEAN, etag : Nat, parent : Groups \cup {None}, groups : SUBSET Groups]

ASSUME NoDocumentType == NoDocument \notin Docs

Stored(d) == doc[d] # NoDocument
Active(d) == Stored(d) /\ doc[d].active
Archived(d) == Stored(d) /\ ~doc[d].active

Steps == {"waiting", "church", "existing", "parent", "groups", "children", "write",
          "list", "delete", "done"}

Calls ==
    [op : {"create", "update", "archive", "purge"}, id : Directory, etag : Nat,
     parent : Groups \cup {None}, groups : SUBSET Groups]

NoCall == [op |-> "update", id |-> Church, etag |-> 0, parent |-> None, groups |-> {}]

Granted == {"saved", "archived", "purged"}
Refusals == {"not_found", "archived_resource", "stale_version", "validation_failed",
             "has_subgroups", "not_archived", "already_exists", "failed"}

-----------------------------------------------------------------------------
(* A handler's control.                                                    *)

Answer(r, outcome) ==
    /\ pc' = [pc EXCEPT ![r] = "done"]
    /\ seen' = [seen EXCEPT ![r] = NoDocument]
    /\ todo' = [todo EXCEPT ![r] = {}]
    /\ pass' = [pass EXCEPT ![r] = 0]
    /\ answer' = [answer EXCEPT ![r] = outcome]

Await(r, step) ==
    /\ pc' = [pc EXCEPT ![r] = step]
    /\ UNCHANGED <<pass, answer>>

Holding(r, document, ids) ==
    /\ seen' = [seen EXCEPT ![r] = document]
    /\ todo' = [todo EXCEPT ![r] = ids]

Go(r, step) == Await(r, step) /\ UNCHANGED <<seen, todo>>

OnlyReads == UNCHANGED <<doc, minted, call, arrival>>

(* directory.Get(..., active: true) of a document that is not active.      *)
RefusedUnless(d) == IF Stored(d) THEN "archived_resource" ELSE "not_found"

(* What the API may be asked.  A caller sends the ETag of a document it    *)
(* has just read; a new document gets an id that no document ever had.     *)
Asked ==
    LET existing == {d \in Directory : Stored(d)}
        known == minted \cap Groups
        tagged(op, d, p, gs) ==
            [op |-> op, id |-> d, etag |-> doc[d].etag, parent |-> p, groups |-> gs]
        new(d, p, gs) == [op |-> "create", id |-> d, etag |-> 0, parent |-> p, groups |-> gs]
    IN  {new(g, p, {}) : g \in Groups \ minted, p \in known \cup {None}}
        \cup {new(m, None, gs) : m \in Members \ minted, gs \in SUBSET known}
        \cup {tagged("update", g, p, {}) :
                  g \in existing \cap Groups, p \in known \cup {None}}
        \cup {tagged("update", m, None, gs) :
                  m \in existing \cap Members, gs \in SUBSET known}
        \cup {tagged("update", d, None, {}) : d \in existing \cap {Church}}
        \cup {tagged("archive", d, None, {}) : d \in existing}
        \cup {tagged("purge", d, None, {}) : d \in existing \cap {Church}}

Arrive(r) ==
    /\ pc[r] = "waiting"
    /\ \E asked \in Asked :
          /\ call' = [call EXCEPT ![r] = asked]
          /\ minted' = minted \cup {asked.id}
          /\ arrival' = [arrival EXCEPT ![r] =
                [shut |-> Archived(Church),
                 there |-> {d \in Ids : Stored(d)},
                 children |-> {h \in Groups : Active(h) /\ doc[h].parent = asked.id}]]
          /\ Go(r, IF asked.op = "update" /\ asked.id = Church THEN "existing" ELSE "church")
    /\ UNCHANGED doc

-----------------------------------------------------------------------------
(* Save and Archive, await by await.                                       *)

(* The groups a save looks up before it writes, the parent among them.     *)
Needed(r) == call[r].groups \cup ({call[r].parent} \ {None})

LookUp(r, existing) ==
    /\ Await(r, IF Needed(r) = {} THEN "write" ELSE "groups")
    /\ Holding(r, existing, Needed(r))

ReadAnyChurch(r) ==     \* fault: an archived church will do
    /\ pc[r] = "church"
    /\ call[r].op # "purge"
    /\ IF ~Stored(Church) THEN Answer(r, "not_found")
       ELSE IF call[r].op = "create" THEN LookUp(r, NoDocument)
       ELSE Go(r, "existing")
    /\ OnlyReads

ReadChurch(r) ==
    /\ pc[r] = "church"
    /\ call[r].op # "purge"
    /\ IF ~Active(Church) THEN Answer(r, RefusedUnless(Church))
       ELSE IF call[r].op = "create" THEN LookUp(r, NoDocument)
       ELSE Go(r, "existing")
    /\ OnlyReads

(* Save of an existing document; a group's parent is immutable.            *)
ReadToUpdate(r) ==
    LET d == call[r].id IN
    /\ pc[r] = "existing"
    /\ call[r].op = "update"
    /\ IF ~Active(d) THEN Answer(r, RefusedUnless(d))
       ELSE IF doc[d].etag # call[r].etag THEN Answer(r, "stale_version")
       ELSE IF doc[d].parent # call[r].parent THEN Answer(r, "validation_failed")
       ELSE LookUp(r, doc[d])
    /\ OnlyReads

ReadAnythingToArchive(r) ==     \* fault: a missing document goes unnoticed
    LET d == call[r].id IN
    /\ pc[r] = "existing"
    /\ call[r].op = "archive"
    /\ Await(r, IF d \in Groups THEN "children" ELSE "write")
    /\ Holding(r, doc[d], {})
    /\ OnlyReads

ReadToArchive(r) ==
    LET d == call[r].id IN
    /\ pc[r] = "existing"
    /\ call[r].op = "archive"
    /\ IF ~Stored(d)
       THEN Answer(r, "not_found")
       ELSE /\ Await(r, IF d \in Groups THEN "children" ELSE "write")
            /\ Holding(r, doc[d], {})
    /\ OnlyReads

TopLevelAnyway(g) == TRUE       \* fault: a subgroup may have subgroups

TopLevel(g) == doc[g].parent = None

(* Every group that is named has to be active; a parent has to be on top.  *)
ReadGroup(r, g) ==
    /\ pc[r] = "groups"
    /\ g \in todo[r]
    /\ IF ~Active(g) THEN Answer(r, RefusedUnless(g))
       ELSE IF g = call[r].parent /\ ~TopLevel(g) THEN Answer(r, "validation_failed")
       ELSE /\ Await(r, IF todo[r] = {g} THEN "write" ELSE "groups")
            /\ Holding(r, seen[r], todo[r] \ {g})
    /\ OnlyReads

AnySubgroups(g) == {}       \* fault: nobody looks for subgroups

(* What the search for subgroups returns; it leaves out archived ones.     *)
ActiveSubgroups(g) == {h \in Groups : Active(h) /\ doc[h].parent = g}

(* A group with active subgroups is not archived.  The page asked for may  *)
(* be empty and still have a continuation, which refuses too.              *)
ReadChildren(r) ==
    /\ pc[r] = "children"
    /\ \E more \in BOOLEAN :
          IF ActiveSubgroups(call[r].id) # {} \/ more
          THEN Answer(r, "has_subgroups")
          ELSE Go(r, "write")
    /\ OnlyReads

(* The document of call r as the next version of id d.                     *)
Saved(r) ==
    LET d == call[r].id IN
    [active |-> TRUE, etag |-> IF Stored(d) THEN doc[d].etag + 1 ELSE 1,
     parent |-> call[r].parent, groups |-> call[r].groups]

(* The handler's copy, archived.                                           *)
Closed(r) == [seen[r] EXCEPT !.active = FALSE, !.etag = doc[call[r].id].etag + 1]

Write(r, document, outcome) ==
    /\ doc' = [doc EXCEPT ![call[r].id] = document]
    /\ Answer(r, outcome)

Create(r) ==
    /\ pc[r] = "write"
    /\ call[r].op = "create"
    /\ IF Store!MayCreate(doc[call[r].id])
       THEN Write(r, Saved(r), "saved")
       ELSE Answer(r, "already_exists") /\ UNCHANGED doc
    /\ UNCHANGED <<minted, call, arrival>>

Replace(r) ==
    LET d == call[r].id IN
    /\ pc[r] = "write"
    /\ call[r].op \in {"update", "archive"}
    /\ IF Store!MayReplace(doc[d], call[r].etag)
       THEN IF call[r].op = "update" THEN Write(r, Saved(r), "saved")
                                     ELSE Write(r, Closed(r), "archived")
       ELSE Answer(r, Store!ReplaceRefusal(doc[d])) /\ UNCHANGED doc
    /\ UNCHANGED <<minted, call, arrival>>

-----------------------------------------------------------------------------
(* Purge: the receipts first, then the directory container, over and over. *)
(* The code asks for one kind of document after another, but what it lists *)
(* is everything of the church that the container holds.                   *)

ReadPurged(r) ==
    /\ pc[r] = "church"
    /\ call[r].op = "purge"
    /\ IF ~Stored(Church) THEN Answer(r, "not_found")
       ELSE IF doc[Church].active THEN Answer(r, "not_archived")
       ELSE IF doc[Church].etag # call[r].etag THEN Answer(r, "stale_version")
       ELSE Go(r, "list")
    /\ OnlyReads

Container(n) == IF n = 0 THEN Receipts ELSE Directory

ListedActive(n) == {d \in Container(n) : Active(d)}     \* fault: a search, not a query of all

Listed(n) == {d \in Container(n) : Stored(d)}

ListDocuments(r) ==
    /\ pc[r] = "list"
    /\ Await(r, "delete")
    /\ Holding(r, NoDocument, Listed(pass[r]))
    /\ OnlyReads

(* Several deletes are under way at once; one finds its document gone, and *)
(* that is as good.                                                        *)
DeleteDocument(r, d) ==
    /\ pc[r] = "delete"
    /\ d \in todo[r]
    /\ doc' = [doc EXCEPT ![d] = NoDocument]
    /\ todo' = [todo EXCEPT ![r] = @ \ {d}]
    /\ UNCHANGED <<minted, call, pc, seen, pass, answer, arrival>>

EndPass(r) ==
    /\ pc[r] = "delete"
    /\ todo[r] = {}
    /\ IF pass[r] = Passes
       THEN Answer(r, "purged")
       ELSE /\ pc' = [pc EXCEPT ![r] = "list"]
            /\ pass' = [pass EXCEPT ![r] = @ + 1]
            /\ UNCHANGED <<seen, todo, answer>>
    /\ OnlyReads

(* The store turns a delete down (too many requests, say): the others that *)
(* are under way are cancelled and the purge ends.                         *)
FailPurge(r) ==
    /\ pc[r] = "delete"
    /\ todo[r] # {}
    /\ Answer(r, "failed")
    /\ OnlyReads

Handle(r) ==
    \/ Arrive(r)
    \/ ReadChurch(r)
    \/ ReadToUpdate(r)
    \/ ReadToArchive(r)
    \/ \E g \in Groups : ReadGroup(r, g)
    \/ ReadChildren(r)
    \/ Create(r)
    \/ Replace(r)
    \/ ReadPurged(r)
    \/ ListDocuments(r)
    \/ \E d \in Ids : DeleteDocument(r, d)
    \/ EndPass(r)
    \/ FailPurge(r)

-----------------------------------------------------------------------------
(* A church with its receipts, some top-level groups and some members      *)
(* without groups.                                                         *)
Init ==
    /\ \E documents \in SUBSET (Groups \cup Members), churchActive \in BOOLEAN :
       LET there == documents \cup {Church} \cup Receipts IN
          /\ minted = there
          /\ doc = [d \in Ids |->
                IF d \in there
                THEN [active |-> d # Church \/ churchActive, etag |-> 1,
                      parent |-> None, groups |-> {}]
                ELSE NoDocument]
    /\ call = [r \in Requests |-> NoCall]
    /\ pc = [r \in Requests |-> "waiting"]
    /\ seen = [r \in Requests |-> NoDocument]
    /\ todo = [r \in Requests |-> {}]
    /\ pass = [r \in Requests |-> 0]
    /\ answer = [r \in Requests |-> "none"]
    /\ arrival = [r \in Requests |-> [shut |-> FALSE, there |-> {}, children |-> {}]]

Next == \E r \in Requests : Handle(r)

Spec == Init /\ [][Next]_vars

-----------------------------------------------------------------------------
(* Properties.                                                             *)

(* Every variable has its type; a handler that writes has what it needs.   *)
TypeOK ==
    /\ doc \in [Ids -> Docs \cup {NoDocument}]
    /\ minted \in SUBSET Ids
    /\ call \in [Requests -> Calls]
    /\ pc \in [Requests -> Steps]
    /\ seen \in [Requests -> Docs \cup {NoDocument}]
    /\ todo \in [Requests -> SUBSET Ids]
    /\ pass \in [Requests -> 0 .. Passes]
    /\ answer \in [Requests -> Granted \cup Refusals \cup {"none"}]
    /\ arrival \in [Requests ->
          [shut : BOOLEAN, there : SUBSET Ids, children : SUBSET Groups]]
    /\ \A r \in Requests :
          /\ pc[r] = "groups" => todo[r] \subseteq Groups
          /\ pc[r] = "write" => (seen[r] = NoDocument <=> call[r].op = "create")

(* Groups have two levels, whatever is created and updated concurrently    *)
(* (DirectoryService.Save checks the parent one step before it writes).    *)
TwoLevels ==
    \A g \in Groups : Stored(g) /\ doc[g].parent # None =>
        LET p == doc[g].parent IN Stored(p) => doc[p].parent = None

(* A save or archive that arrives after the church was archived changes    *)
(* nothing.                                                                *)
LateChangeRefused ==
    \A r \in Requests :
        arrival[r].shut => answer[r] \notin {"saved", "archived"}

(* Archiving a group never takes away an active subgroup's parent, except  *)
(* from a subgroup that was created while the archiving was under way.     *)
SubgroupsArchivedFirst ==
    \A r \in Requests : answer[r] = "archived" =>
        \A h \in arrival[r].children : ~Active(h)

(* When a purge has succeeded, nothing is left of what was there when it   *)
(* arrived.                                                                *)
PurgedCompletely ==
    \A r \in Requests : answer[r] = "purged" =>
        \A d \in arrival[r].there : ~Stored(d)

(* An archived document can be purged but is never active again.           *)
NeverReactivated ==
    [][\A d \in Ids : Archived(d) => ~Active(d)']_vars

(* A purge that failed can be repeated: as long as something is left, so   *)
(* is the church's document, which a purge reads first (openapi.json on    *)
(* purgeChurch: safe to retry after a failure).                            *)
PurgeCanBeRepeated ==
    \A r \in Requests :
        answer[r] = "failed" /\ (\E d \in arrival[r].there : Stored(d)) => Stored(Church)

=============================================================================

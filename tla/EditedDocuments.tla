--------------------------- MODULE EditedDocuments ---------------------------
(***************************************************************************)
(* The directory's documents as the app's editors meet them: the server    *)
(* that carries out the calls of one editor, also those the editor has     *)
(* given up, and the other editors of the same documents.  Directory and   *)
(* Occurrences hold the services in detail; here each call but that of a   *)
(* member's image is one step.                                             *)
(*                                                                         *)
(* A document is its version, how often it was edited, and the one value   *)
(* of it that a check is about: a member's scan code, what a public form   *)
(* does not ask for ("details"), or whether a session is held.  A session  *)
(* whose archived flag is set is one that is not active here.              *)
(***************************************************************************)
EXTENDS Naturals, FiniteSets, FiniteSetsExt, Sequences

CONSTANTS
    Ids,            \* documents
    Old,            \* the document there is from the start
    ScanCodes,      \* members' scan codes
    Nothing,        \* no document, no editor, no call, no reply
    MaxETag,        \* bound on the versions of a document
    Screens,        \* the screens there are behaviours of
    MaxDrafts,      \* of each screen: bound on how often its editor is opened
    MaxLosses,      \* bound on the answers that are lost
    MaxCalls        \* bound on the calls in flight at a time

ASSUME IdsAreNumbers == Ids \subseteq Nat /\ Old \in Ids
ASSUME NothingIsNothing == Nothing \notin Ids /\ Nothing \notin ScanCodes
ASSUME KnownScreens ==
    Screens \subseteq
        {"groups", "fields", "users", "churches", "events", "sessions", "members",
         "duplicates", "register", "update"}
ASSUME Bounds ==
    /\ MaxETag \in Nat \ {0} /\ MaxLosses \in Nat /\ MaxCalls \in Nat
    /\ MaxDrafts \in [Screens -> Nat]

VARIABLES
    screen,         \* the screen a behaviour is about
    clock,          \* a session is before, during or over
    docs,           \* of each id: the stored document
    images,         \* the members with a stored image
    listed,         \* of each id: the document as the list has it
    ed,             \* the open editor
    wire,           \* the calls in flight
    awaits,         \* of each operation of the editor: its call in flight, or 0
    drafts, losses  \* how often an editor was opened, how many answers were lost

server == <<clock, docs, images>>
counters == <<drafts, losses>>
vars == <<screen, server, listed, ed, wire, awaits, counters>>

Ops == {"save", "archive", "reload", "purge", "generate", "photo", "merge"}
Errors == {"none", "stale", "uncertain", "refused"}
Clocks == {"before", "during", "over"}
Values == ScanCodes \cup {"none", "held", "cancelled", "details"}
Slots == 1..MaxCalls

Docs ==
    [id : Ids, etag : 1..MaxETag, edits : 1..MaxETag, active : BOOLEAN, value : Values,
     photo : BOOLEAN, by : Nat]

Requests ==
    [op : {"create", "put", "archive", "get", "purge", "generate", "upload", "remove",
           "checkin", "merge"},
     id : Ids \cup {Nothing}, etag : 0..MaxETag, value : Values, active : BOOLEAN,
     draft : Nat, basis : 0..MaxETag, refreshed : BOOLEAN, agreed : BOOLEAN,
     other : Ids \cup {Nothing}, otherTag : 0..MaxETag]

Replies == [status : {"ok", "stale", "refused"}, doc : Docs \cup {Nothing}]

Calls ==
    [request : Requests, phase : {"sent", "stored", "retry", "served"},
     seen : 0..MaxETag, alone : BOOLEAN, reply : Replies \cup {Nothing}]

Editors ==
    [doc : Docs \cup {Nothing}, other : Docs \cup {Nothing}, basis : 0..MaxETag, draft : Nat,
     dirty : BOOLEAN, value : Values,
     asked : SUBSET {"archive", "purge", "cancel", "merge"},
     editing : BOOLEAN, replacing : BOOLEAN, picked : BOOLEAN, refreshed : BOOLEAN,
     at : Clocks, err : [Ops -> Errors]]

ASSUME NothingIsNoRecord == Nothing \notin Docs \cup Replies \cup Calls \cup Editors

Open == ed # Nothing
-----------------------------------------------------------------------------
(* The server, as far as the editors can tell.                             *)

Sent(n, op) == wire[n] # Nothing /\ wire[n].phase = "sent" /\ wire[n].request.op = op

(* An answer nobody waits for any more is dropped.                         *)
Reply(n, status, d) ==
    wire' = [wire EXCEPT ![n] =
        IF \E op \in Ops : awaits[op] = n
        THEN [@ EXCEPT !.phase = "served", !.reply = [status |-> status, doc |-> d]]
        ELSE Nothing]

Stored(id) == docs[id] # Nothing
Revised(d) == [d EXCEPT !.etag = @ + 1, !.edits = @ + 1]
Room(id) == docs[id].etag < MaxETag

OnlyDocs == UNCHANGED <<screen, clock, images, listed, ed, awaits, counters>>
OnlyReply == UNCHANGED <<screen, server, listed, ed, awaits, counters>>

(* Users are kept by their email: a second invitation finds the first.     *)
Taken(r) == screen = "users" /\ \E i \in Ids : Stored(i) /\ docs[i].by = r.draft

(* Fault: a created document has no version.                              *)
ServeCreateUnversioned(n) ==
    /\ Sent(n, "create")
    /\ docs' = [docs EXCEPT ![2] =
          [id |-> 2, etag |-> 0, edits |-> 1, active |-> TRUE,
           value |-> wire[n].request.value, photo |-> FALSE, by |-> wire[n].request.draft]]
    /\ Reply(n, "ok", docs'[2])
    /\ OnlyDocs

ServeCreate(n) ==
    /\ Sent(n, "create")
    /\ LET r == wire[n].request
           free == {i \in Ids : ~Stored(i)}
           new == [id |-> Min(free), etag |-> 1, edits |-> 1, active |-> TRUE,
                   value |-> r.value, photo |-> FALSE, by |-> r.draft]
       IN  /\ free # {} /\ ~Taken(r)
           /\ docs' = [docs EXCEPT ![new.id] = new]
           /\ Reply(n, "ok", new)
    /\ OnlyDocs

(* A session is cancelled or restored before it starts, its groups change  *)
(* before it ends, and it is archived and restored after that.             *)
MayOverride(d, value, active) ==
    IF active # d.active THEN clock = "over" /\ value = d.value
    ELSE clock = "before" \/ (clock = "during" /\ value = d.value /\ value = "held")

Accepts(r) ==
    /\ Stored(r.id)
    /\ r.op = "put" => IF screen = "sessions"
                        THEN MayOverride(docs[r.id], r.value, r.active)
                        ELSE docs[r.id].active
    /\ r.op = "archive" /\ screen = "churches" => docs[r.id].active
    /\ r.op = "purge" => ~docs[r.id].active

ServePut(n) ==
    /\ Sent(n, "put")
    /\ LET r == wire[n].request
           new == [Revised(docs[r.id]) EXCEPT !.value = r.value, !.active = r.active]
       IN  /\ Accepts(r) /\ docs[r.id].etag = r.etag /\ Room(r.id)
           /\ docs' = [docs EXCEPT ![r.id] = new]
           /\ Reply(n, "ok", new)
    /\ OnlyDocs

ServeArchive(n) ==
    /\ Sent(n, "archive")
    /\ LET r == wire[n].request
       IN  /\ Accepts(r) /\ docs[r.id].etag = r.etag /\ Room(r.id)
           /\ docs' = [docs EXCEPT ![r.id] = [Revised(@) EXCEPT !.active = FALSE]]
           /\ Reply(n, "ok", Nothing)
    /\ OnlyDocs

ServePurge(n) ==
    /\ Sent(n, "purge")
    /\ LET r == wire[n].request
       IN  /\ Accepts(r) /\ docs[r.id].etag = r.etag
           /\ docs' = [docs EXCEPT ![r.id] = Nothing]
           /\ Reply(n, "ok", Nothing)
    /\ OnlyDocs

ServeGet(n) ==
    /\ Sent(n, "get")
    /\ Stored(wire[n].request.id)
    /\ Reply(n, "ok", docs[wire[n].request.id])
    /\ OnlyReply

(* The next session of an event, or the check-in of a new member.          *)
ServeWork(n) ==
    /\ Sent(n, "generate") \/ Sent(n, "checkin")
    /\ Stored(wire[n].request.id) /\ docs[wire[n].request.id].active
    /\ Reply(n, "ok", Nothing)
    /\ OnlyReply

(* A merge saves the fields picked for the keeper over the version sent    *)
(* with them, then archives the other member if it has the version sent    *)
(* for it: the keeper stays as saved when it has not.  MemberMerge has     *)
(* every step of this, and the receipts.                                   *)
MayMerge(r) ==
    /\ Stored(r.id) /\ docs[r.id].active
    /\ Stored(r.other) /\ docs[r.other].active

Kept(r) ==
    IF r.agreed THEN [docs EXCEPT ![r.id] = [Revised(@) EXCEPT !.value = r.value]] ELSE docs

ServeMerge(n) ==
    /\ Sent(n, "merge") /\ MayMerge(wire[n].request)
    /\ LET r == wire[n].request
           asSeen == docs[r.other].etag = r.otherTag
       IN  /\ r.agreed => docs[r.id].etag = r.etag /\ Room(r.id)
           /\ asSeen => Room(r.other)
           /\ docs' = IF asSeen
                      THEN [Kept(r) EXCEPT ![r.other] = [Revised(@) EXCEPT !.active = FALSE]]
                      ELSE Kept(r)
           /\ Reply(n, IF asSeen THEN "ok" ELSE "stale", Nothing)
    /\ OnlyDocs

Conditional == {"put", "archive", "purge"}

FindStale(n) ==
    /\ LET r == wire[n].request
       IN  /\ \/ \E op \in Conditional : Sent(n, op) /\ Accepts(r)
              \/ Sent(n, "merge") /\ MayMerge(r) /\ r.agreed
           /\ docs[r.id].etag # r.etag
    /\ Reply(n, "stale", Nothing)
    /\ OnlyReply

(* What cannot be done to the document as it is, or is not valid.          *)
Refuse(n) ==
    /\ \E op \in Conditional \cup {"create", "get", "generate", "checkin", "merge"} : Sent(n, op)
    /\ LET r == wire[n].request
       IN  \/ r.op \in {"create", "put", "checkin"}
           \/ r.op = "merge" /\ (r.agreed \/ ~MayMerge(r))
           \/ r.op \in {"archive", "purge", "get"} /\ ~Accepts(r)
           \/ r.op = "generate" /\ ~(Stored(r.id) /\ docs[r.id].active)
    /\ Reply(n, "refused", Nothing)
    /\ OnlyReply
-----------------------------------------------------------------------------
(* A member's image is stored first; then the member's document is marked, *)
(* with the version read before, and once more with the version it has     *)
(* when that was refused.  A call is "alone" when no other image call was   *)
(* under way as it stored its image (history).                             *)

ImageCall(n, phases) ==
    wire[n] # Nothing /\ wire[n].request.op \in {"upload", "remove"} /\ wire[n].phase \in phases

Storing(n) ==
    [wire EXCEPT
        ![n].phase = "stored", ![n].seen = docs[wire[n].request.id].etag,
        ![n].alone = \A m \in Slots \ {n} : ~ImageCall(m, {"sent", "stored", "retry"})]

(* Fault: the removal of an image does not mark the member.               *)
StoreImageUnmarked(n) ==
    /\ ImageCall(n, {"sent"})
    /\ LET r == wire[n].request
       IN  /\ Stored(r.id)
           /\ images' = IF r.op = "upload" THEN images \cup {r.id} ELSE images \ {r.id}
           /\ IF r.op = "upload"
              THEN wire' = Storing(n)
              ELSE Reply(n, "ok", Nothing)
    /\ UNCHANGED <<screen, clock, docs, listed, ed, awaits, counters>>

StoreImage(n) ==
    /\ ImageCall(n, {"sent"})
    /\ LET r == wire[n].request
           known == Stored(r.id) /\ (r.op = "upload" => docs[r.id].active)
           marks == known /\ (r.op = "upload" \/ docs[r.id].photo)
       IN  /\ images' = IF ~known THEN images
                        ELSE IF r.op = "upload" THEN images \cup {r.id} ELSE images \ {r.id}
           /\ IF marks THEN wire' = Storing(n)
              ELSE Reply(n, IF known THEN "ok" ELSE "refused", Nothing)
    /\ UNCHANGED <<screen, clock, docs, listed, ed, awaits, counters>>

MarkImage(n) ==
    /\ ImageCall(n, {"stored", "retry"})
    /\ LET r == wire[n].request
       IN  /\ docs[r.id].etag = wire[n].seen /\ Room(r.id)
           /\ docs' = [docs EXCEPT ![r.id].etag = @ + 1, ![r.id].photo = (r.op = "upload")]
           /\ Reply(n, "ok", Nothing)
    /\ OnlyDocs

MarkRefused(n) ==
    /\ ImageCall(n, {"stored", "retry"})
    /\ LET r == wire[n].request
       IN  /\ docs[r.id].etag # wire[n].seen
           /\ \/ /\ wire[n].phase = "stored" /\ docs[r.id].active
                 /\ wire' = [wire EXCEPT ![n].phase = "retry", ![n].seen = docs[r.id].etag]
              \/ /\ wire[n].phase = "stored" /\ ~docs[r.id].active
                 /\ Reply(n, "refused", Nothing)
              \/ wire[n].phase = "retry" /\ Reply(n, "stale", Nothing)
    /\ OnlyReply

Serve(n) ==
    \/ ServeCreate(n) \/ ServePut(n) \/ ServeArchive(n) \/ ServePurge(n)
    \/ ServeGet(n) \/ ServeWork(n) \/ ServeMerge(n) \/ FindStale(n) \/ Refuse(n)
    \/ StoreImage(n) \/ MarkImage(n) \/ MarkRefused(n)
-----------------------------------------------------------------------------
(* The other editors of the same documents, and time.                      *)

OthersSave(i) ==
    /\ Stored(i) /\ Room(i)
    /\ LET d == docs[i]
       IN  \E v \in IF screen = "members" THEN ScanCodes \ {d.value}
                    ELSE IF screen = "sessions" THEN {"held", "cancelled"} ELSE {d.value} :
              /\ IF screen = "sessions" THEN MayOverride(d, v, d.active) ELSE d.active
              /\ docs' = [docs EXCEPT ![i] = [Revised(@) EXCEPT !.value = v]]
    /\ UNCHANGED <<screen, clock, images, listed, ed, wire, awaits, counters>>

OthersArchive(i) ==
    /\ Stored(i) /\ docs[i].active /\ Room(i)
    /\ screen = "sessions" => clock = "over"
    /\ docs' = [docs EXCEPT ![i] = [Revised(@) EXCEPT !.active = FALSE]]
    /\ UNCHANGED <<screen, clock, images, listed, ed, wire, awaits, counters>>

TimePasses ==
    /\ screen = "sessions" /\ clock # "over"
    /\ clock' = IF clock = "before" THEN "during" ELSE "over"
    /\ UNCHANGED <<screen, docs, images, listed, ed, wire, awaits, counters>>
=============================================================================

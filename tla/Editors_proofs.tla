---------------------------- MODULE Editors_proofs -----------------------------
(***************************************************************************)
(* Proofs about Editors for any documents, scan codes and screens, and any *)
(* bounds on versions, drafts, lost answers and calls in flight.           *)
(*                                                                         *)
(* Every step of every screen has one of seven shapes (Opens, Alters,      *)
(* Sends, GoesOn, Takes, Ends, Leaves); the invariant and what follows     *)
(* from it are proved for the shapes and for the server's steps.           *)
(***************************************************************************)
EXTENDS Editors, WellFoundedInduction, TLAPS

-----------------------------------------------------------------------------
(* The invariant.                                                          *)

(* A copy of a document is never newer than the stored one, and with the   *)
(* same version it is the stored one.  Only members get versions that are  *)
(* no edits, and only churches are deleted.                                *)
Known(d) ==
    /\ d \in Docs /\ d.edits <= d.etag
    /\ screen # "members" => d.edits = d.etag
    /\ screen = "members" =>
           /\ Stored(d.id) /\ d.etag <= docs[d.id].etag
           /\ d.etag = docs[d.id].etag => d = docs[d.id]

DocsOK == \A i \in Ids : Stored(i) => docs[i].id = i /\ Known(docs[i]) /\ docs[i].by <= drafts

ListOK == \A i \in Ids : listed[i] # Nothing => listed[i].id = i /\ Known(listed[i])

(* What a save is sent over.                                               *)
SentOver(r) ==
    /\ screen # "members" => r.refreshed \/ r.basis = r.etag
    /\ screen = "members" =>
           /\ Stored(r.id) /\ r.etag <= docs[r.id].etag
           /\ r.etag = docs[r.id].etag =>
                  /\ r.refreshed \/ docs[r.id].edits = r.basis
                  /\ r.agreed \/ docs[r.id].value \in {"none", r.value}

RequestOK(r) ==
    /\ r \in Requests /\ r.draft <= drafts
    /\ r.op # "create" => r.id \in Ids
    /\ r.op \in {"put", "merge"} => SentOver(r)
    /\ r.op = "merge" => screen = "duplicates" /\ r.other \in Ids \ {r.id}
    /\ r.op = "purge" => screen = "churches"
    /\ r.op = "archive" => screen # "sessions"
    /\ r.op = "checkin" => screen = "register"
    /\ r.op \in {"upload", "remove"} => screen = "members" /\ Stored(r.id)

Documented(r) == r.op \in {"create", "put", "get"}

CallOK(n) ==
    wire[n] # Nothing =>
        LET c == wire[n]
            r == wire[n].request
        IN  /\ RequestOK(r)
            /\ c.phase \in {"stored", "retry"} => r.op \in {"upload", "remove"}
            /\ c.phase = "served" =>
                   /\ c.reply # Nothing
                   /\ c.reply.doc # Nothing => Known(c.reply.doc)
                   /\ c.reply.status = "ok" /\ Documented(r) => c.reply.doc # Nothing
                   /\ r.op \in {"create", "get", "generate"} => c.reply.status # "stale"

CallsOK == \A n \in Slots : CallOK(n)

(* The requests of each mutation.                                          *)
Verbs(op) ==
    CASE op = "save" -> {"create", "put", "upload", "checkin"}
      [] op = "archive" -> {"archive", "put"}
      [] op = "reload" -> {"get"}
      [] op = "photo" -> {"upload", "remove", "get"}
      [] OTHER -> {op}

AwaitsOK ==
    /\ \A op \in Ops : awaits[op] # 0 =>
           Open /\ wire[awaits[op]] # Nothing /\ wire[awaits[op]].request.op \in Verbs(op)
    /\ \A o, p \in Ops : awaits[o] # 0 /\ awaits[o] = awaits[p] => o = p

EditorOK(e) ==
    /\ e \in Editors /\ e.draft = drafts
    /\ e.doc # Nothing => Known(e.doc) /\ (e.refreshed \/ e.basis = e.doc.edits)
    /\ e.other # Nothing => Known(e.other)
    /\ screen = "duplicates" =>
           e.doc # Nothing /\ e.other # Nothing /\ e.doc.id # e.other.id
    /\ screen \in {"sessions", "update"} => e.doc # Nothing
    /\ "archive" \in e.asked \/ "purge" \in e.asked \/ e.replacing => e.doc # Nothing
    /\ screen = "members" /\ e.picked => e.doc = Nothing
    /\ e.err["generate"] # "stale"
    /\ losses = 0 => \A op \in Ops : e.err[op] # "uncertain"

(* What an editor that awaits an answer is like.                           *)
WaitsOK ==
    Open =>
        /\ \A op \in Ops \ {"merge"} : awaits[op] # 0 => ed.err[op] = "none"
        /\ awaits["reload"] # 0 \/ awaits["photo"] # 0 => ed.doc # Nothing
        /\ awaits["save"] # 0 =>
               LET r == wire[awaits["save"]].request IN
               /\ r.op \in {"upload", "checkin"} => ed.picked
               /\ ed.doc = Nothing => r.op # "put"
               /\ r.op = "create" => r.draft = ed.draft

Awaited(n) == \E op \in Ops : awaits[op] = n

UnderWay(n) == ImageCall(n, {"sent", "stored", "retry"})

(* An image call that is awaited and met no other as it stored its image   *)
(* meets none until it is carried out.                                     *)
ImagesOK ==
    \A n \in Slots :
        ImageCall(n, {"stored", "retry"}) /\ wire[n].alone /\ Awaited(n) =>
            /\ wire[n].request.id \in images <=> wire[n].request.op = "upload"
            /\ \A m \in Slots \ {n} : ~UnderWay(m)

IInv ==
    /\ TypeOK /\ DocsOK /\ ListOK /\ CallsOK /\ AwaitsOK
    /\ (Open => EditorOK(ed)) /\ WaitsOK /\ ImagesOK

(* Creates.                                                                *)
Creating(k) == {n \in Slots : Sent(n, "create") /\ wire[n].request.draft = k}
Born(k) == {i \in Ids : Stored(i) /\ docs[i].by = k}
Barren(k) == Creating(k) = {} /\ Born(k) = {}

(* A draft is created, being created, or neither; an editor that may send  *)
(* it (again) has created nothing.                                         *)
OnceOK(k) ==
    /\ \A m, n \in Creating(k) : m = n
    /\ \A i, j \in Born(k) : i = j
    /\ Creating(k) = {} \/ Born(k) = {}
    /\ Open /\ ed.draft = k /\ ed.doc = Nothing =>
           /\ awaits["save"] = 0 /\ ed.err["save"] # "uncertain" => Barren(k)
           /\ Answered("save") /\ Answer("save").status # "ok" /\ ~Uploading => Barren(k)

OnceInv ==
    /\ screen = "users" =>
           \A i, j \in Ids : Stored(i) /\ Stored(j) /\ docs[i].by = docs[j].by /\ docs[i].by # 0
                                 => i = j
    /\ screen # "users" => \A k \in Nat \ {0} : SeesToIt(k) => OnceOK(k)

-----------------------------------------------------------------------------
(* What stays true when documents and drafts move on.                      *)

(* The least number of a set is in it.                                     *)
LEMMA MinIsLeast ==
    ASSUME NEW S, S \subseteq Nat, S # {}
    PROVE  Min(S) \in S /\ \A n \in S : Min(S) <= n
  <1> DEFINE Before == {pair \in Nat \X Nat : pair[1] < pair[2]}
  <1>1. IsWellFoundedOn(Before, Nat)
    BY NatLessThanWellFounded DEF OpToRel
  <1>2. \E m \in S : \A n \in S : ~(<<n, m>> \in Before)
    <2> HIDE DEF Before
    <2>1. QED
      BY <1>1, WFMin
  <1>3. \A m, n \in S : ~(<<n, m>> \in Before) => m <= n
    OBVIOUS
  <1>4. \E m \in S : \A n \in S : m <= n
    BY <1>2, <1>3
  <1>5. QED
    BY <1>4 DEF Min

DocsMove ==
    /\ screen' = screen
    /\ docs' \in [Ids -> Docs \cup {Nothing}]
    /\ \A i \in Ids : Stored(i)' =>
           /\ docs'[i].id = i /\ docs'[i].edits <= docs'[i].etag
           /\ screen # "members" => docs'[i].edits = docs'[i].etag
    /\ screen = "members" =>
           \A i \in Ids : Stored(i) =>
               Stored(i)' /\ (docs'[i] = docs[i] \/ docs[i].etag < docs'[i].etag)

(* What the fields of a document are.                                      *)
LEMMA DocFields ==
    ASSUME NEW d \in Docs
    PROVE  /\ d.id \in Ids /\ d.etag \in 1..MaxETag /\ d.edits \in 1..MaxETag
           /\ d.etag \in Nat /\ d.edits \in Nat /\ d.by \in Nat /\ d.value \in Values
           /\ d.active \in BOOLEAN /\ d.photo \in BOOLEAN
  BY Bounds DEF Docs

(* Documents that stay only move forward.                                  *)
LEMMA NothingMoves ==
    ASSUME TypeOK, DocsOK, UNCHANGED <<screen, docs>>
    PROVE  DocsMove
  BY DocFields DEF TypeOK, DocsOK, DocsMove, Known, Stored

(* What is known of the documents stays known as they move forward.        *)
LEMMA KnownStays ==
    ASSUME TypeOK, DocsMove
    PROVE  \A d \in Docs : Known(d) => Known(d)'
  <1> SUFFICES ASSUME NEW d \in Docs, Known(d)
               PROVE  Known(d)'
    OBVIOUS
  <1>1. CASE screen # "members"
    BY <1>1 DEF Known, DocsMove
  <1>2. CASE screen = "members"
    <2>1. d.id \in Ids /\ Stored(d.id) /\ d.etag <= docs[d.id].etag
      BY <1>2, DocFields DEF Known
    <2>2. docs[d.id] \in Docs /\ docs'[d.id] \in Docs /\ Stored(d.id)'
      BY <1>2, <2>1 DEF DocsMove, TypeOK, Stored
    <2>3. docs'[d.id] = docs[d.id] \/ docs[d.id].etag < docs'[d.id].etag
      BY <1>2, <2>1 DEF DocsMove
    <2>4. d.etag \in Nat /\ docs[d.id].etag \in Nat /\ docs'[d.id].etag \in Nat
      BY <2>2, DocFields
    <2>5. QED
      BY <1>2, <2>1, <2>2, <2>3, <2>4 DEF Known, DocsMove
  <1>3. QED
    BY <1>1, <1>2

(* What the fields of a request are.                                       *)
LEMMA RequestFields ==
    ASSUME NEW r \in Requests
    PROVE  /\ r.etag \in Nat /\ r.basis \in Nat /\ r.otherTag \in Nat /\ r.draft \in Nat
           /\ r.value \in Values /\ r.active \in BOOLEAN
  BY Bounds DEF Requests

(* A request stays sound as the documents move forward and drafts are      *)
(* opened.                                                                 *)
LEMMA RequestStays ==
    ASSUME TypeOK, DocsMove, drafts \in Nat, drafts' \in Nat, drafts <= drafts'
    PROVE  \A r \in Requests : RequestOK(r) => RequestOK(r)'
  <1> SUFFICES ASSUME NEW r \in Requests, RequestOK(r)
               PROVE  RequestOK(r)'
    OBVIOUS
  <1>1. r.draft <= drafts'
    BY RequestFields DEF RequestOK
  <1>2. r.id \in Ids /\ screen = "members" /\ Stored(r.id) =>
            /\ Stored(r.id)' /\ docs[r.id].etag \in Nat /\ docs'[r.id].etag \in Nat
            /\ docs'[r.id] = docs[r.id] \/ docs[r.id].etag < docs'[r.id].etag
    BY DocFields DEF TypeOK, DocsMove, Stored
  <1>3. r.op \in {"put", "merge"} => SentOver(r)'
    <2> SUFFICES ASSUME r.op \in {"put", "merge"}
                 PROVE  SentOver(r)'
      OBVIOUS
    <2>1. SentOver(r) /\ r.id \in Ids /\ r.etag \in Nat
      BY RequestFields DEF RequestOK
    <2>2. CASE screen # "members"
      BY <2>1, <2>2 DEF SentOver, DocsMove
    <2>3. CASE screen = "members"
      BY <1>2, <2>1, <2>3 DEF SentOver, DocsMove
    <2>4. QED
      BY <2>2, <2>3
  <1>4. QED
    BY <1>1, <1>2, <1>3 DEF RequestOK, DocsMove

(* So does a call that nothing is done to.                                 *)
LEMMA CallStays ==
    ASSUME TypeOK, DocsMove, drafts \in Nat, drafts' \in Nat, drafts <= drafts',
           NEW n \in Slots, CallOK(n), wire'[n] = wire[n]
    PROVE  CallOK(n)'
  <1>1. CASE wire[n] = Nothing
    BY <1>1 DEF CallOK
  <1>2. CASE wire[n] # Nothing
    <2>1. wire[n] \in Calls /\ wire[n].request \in Requests
      BY <1>2 DEF TypeOK, Calls
    <2>2. wire[n].reply \in Replies \cup {Nothing}
      BY <2>1 DEF Calls
    <2>3. RequestOK(wire[n].request)'
      BY <1>2, <2>1, RequestStays DEF CallOK
    <2>4. wire[n].phase = "served" /\ wire[n].reply.doc # Nothing => Known(wire[n].reply.doc)'
      BY <1>2, <2>2, KnownStays DEF CallOK, Known
    <2>5. QED
      BY <1>2, <2>3, <2>4 DEF CallOK, Documented
  <1>3. QED
    BY <1>1, <1>2

(* So does an editor.                                                      *)
LEMMA EditorStays ==
    ASSUME TypeOK, DocsMove, drafts' = drafts, losses' = losses
    PROVE  \A e \in Editors : EditorOK(e) => EditorOK(e)'
  BY KnownStays DEF EditorOK, DocsMove, Known
-----------------------------------------------------------------------------
(* What the steps of the screens have in common.                           *)

Opens ==
    /\ ~Open /\ drafts < MaxDrafts[screen] /\ drafts' = drafts + 1
    /\ ed' # Nothing /\ EditorOK(ed)'
    /\ UNCHANGED <<screen, server, listed, wire, awaits, losses>>

Alters ==
    /\ Open /\ InEditor /\ ed' # Nothing /\ EditorOK(ed')
    /\ ed'.doc = Nothing <=> ed.doc = Nothing
    /\ ed'.picked # ed.picked => screen = "members" /\ awaits["save"] = 0
    /\ \A op \in Ops \ {"merge"} : awaits[op] # 0 => ed'.err[op] = ed.err[op]
    /\ ed.doc = Nothing => ed'.err["save"] = ed.err["save"]

Sends(op, r) ==
    /\ Open /\ Mutate(op, r) /\ ed' # Nothing /\ EditorOK(ed')
    /\ RequestOK(r) /\ r.op \in Verbs(op) \ {"checkin"}
    /\ ed'.doc = ed.doc /\ ed'.picked = ed.picked
    /\ op # "merge" => ed'.err[op] = "none"
    /\ \A o \in Ops \ {op} : ed'.err[o] = ed.err[o]
    /\ op \in {"reload", "photo"} => ed.doc # Nothing
    /\ r.op \in {"upload", "remove"} => op = "photo"
    /\ op = "save" /\ ed.doc = Nothing => r.op = "create"
    /\ r.op = "create" =>
           /\ op = "save" /\ ed.doc = Nothing /\ r.draft = ed.draft
           /\ screen \in {"groups", "members"} => ed.err["save"] # "uncertain"

GoesOn(op, r) ==
    /\ Open /\ Succeeded(op) /\ GoOn(op, r)
    /\ RequestOK(r) /\ r.op \in Verbs(op) \ {"create", "put"}
    /\ r.op \in {"upload", "checkin"} => op = "save" /\ ed.picked
    /\ r.op # "remove"

Takes(op) ==
    /\ Open /\ Succeeded(op) /\ HangUp(op) /\ ed' # Nothing /\ EditorOK(ed')
    /\ ed'.picked = ed.picked
    /\ \A o \in Ops : ed'.err[o] \in {ed.err[o], "none"}
    /\ ed.doc # Nothing => ed'.doc # Nothing
    /\ ed'.doc = Nothing => op # "save" /\ ed'.err = ed.err
    /\ op = "reload" /\ screen \notin {"churches", "sessions"} =>
           ed'.err["save"] = "none" /\ ed'.err["archive"] = "none"

(* Whatever ends a mutation: its answer, or that none came.                *)
Ends(op) ==
    /\ Open /\ op \in Ops /\ awaits[op] # 0 /\ awaits' = [awaits EXCEPT ![op] = 0]
    /\ wire' = [wire EXCEPT ![awaits[op]] = Nothing] \/ wire' = wire
    /\ UNCHANGED <<screen, server, listed, drafts>>
    /\ losses' \in 0..MaxLosses /\ losses <= losses'
    /\ ed' # Nothing /\ EditorOK(ed)'
    /\ ed'.picked = ed.picked
    /\ \A o \in Ops \ {op} : ed'.err[o] \in {ed.err[o], "none"}
    /\ ed.doc # Nothing => ed'.doc # Nothing

Leaves == Open /\ Close /\ losses' \in 0..MaxLosses /\ losses <= losses'

EditorStep ==
    \/ Opens \/ Alters \/ Leaves
    \/ \E op \in Ops, r \in Requests : Sends(op, r) \/ GoesOn(op, r)
    \/ \E op \in Ops : Takes(op)

(* An editor that is drawn again changes only its time.                    *)
LEMMA DrawnFields ==
    ASSUME TypeOK, NEW e \in Editors, Drawn(e)
    PROVE  /\ ed' \in Editors /\ ed' = [e EXCEPT !.at = clock]
           /\ ed'.doc = e.doc /\ ed'.other = e.other /\ ed'.basis = e.basis
           /\ ed'.draft = e.draft /\ ed'.err = e.err /\ ed'.picked = e.picked
           /\ ed'.asked = e.asked /\ ed'.replacing = e.replacing
           /\ ed'.refreshed = e.refreshed /\ ed'.value = e.value
  BY DEF Drawn, Editors, TypeOK

(* Drawing an editor again keeps it sound.                                 *)
LEMMA DrawnIsOK ==
    ASSUME TypeOK, NEW e \in Editors, EditorOK(e), Drawn(e)
    PROVE  EditorOK(ed')
  BY DrawnFields DEF EditorOK

(* A step in an open editor that sends nothing and gets nothing.           *)
LEMMA Altered ==
    ASSUME IInv, Open, InEditor, NEW e \in Editors, EditorOK(e), Drawn(e),
           e.doc = Nothing <=> ed.doc = Nothing,
           e.picked # ed.picked => screen = "members" /\ awaits["save"] = 0,
           \A op \in Ops \ {"merge"} : awaits[op] # 0 => e.err[op] = ed.err[op],
           ed.doc = Nothing => e.err["save"] = ed.err["save"]
    PROVE  Alters
  <1>1. EditorOK(ed') /\ ed' # Nothing
    BY DrawnIsOK, DrawnFields, NothingIsNoRecord DEF IInv
  <1>2. ed'.doc = e.doc /\ ed'.picked = e.picked /\ ed'.err = e.err
    BY DrawnFields DEF IInv
  <1>3. QED
    BY <1>1, <1>2 DEF Alters

(* The same, where only what is asked and typed changes.                   *)
LEMMA Reworded ==
    ASSUME IInv, Open, InEditor, NEW e \in Editors, Drawn(e),
           e = [ed EXCEPT !.dirty = e.dirty, !.value = e.value, !.asked = e.asked,
                          !.editing = e.editing, !.replacing = e.replacing],
           "archive" \in e.asked \/ "purge" \in e.asked \/ e.replacing => ed.doc # Nothing
    PROVE  Alters
  <1>1. ed \in Editors /\ EditorOK(ed)
    BY DEF IInv, Open, EditorOK
  <1>2. /\ e.doc = ed.doc /\ e.other = ed.other /\ e.basis = ed.basis /\ e.draft = ed.draft
        /\ e.err = ed.err /\ e.picked = ed.picked /\ e.refreshed = ed.refreshed
    BY <1>1 DEF Editors
  <1>3. EditorOK(e)
    BY <1>1, <1>2 DEF EditorOK
  <1>4. QED
    BY <1>2, <1>3, Altered

(* Each of an editor's own steps alters it and nothing else.               *)
LEMMA RedrawAlters == IInv /\ Redraw => Alters
  BY Reworded DEF Redraw, IInv, EditorOK, Editors

LEMMA TypeAlters ==
    ASSUME IInv, Open, NEW v \in Values, Type(v)
    PROVE  Alters
  <1> DEFINE e == [ed EXCEPT !.dirty = TRUE, !.value = v]
  <1>1. ed \in Editors /\ EditorOK(ed)
    BY DEF IInv, EditorOK
  <1>2. /\ e \in Editors /\ e.asked = ed.asked /\ e.replacing = ed.replacing
        /\ e = [ed EXCEPT !.dirty = e.dirty, !.value = e.value, !.asked = e.asked,
                          !.editing = e.editing, !.replacing = e.replacing]
    BY <1>1 DEF Editors
  <1>3. Drawn(e) /\ InEditor
    BY DEF Type
  <1> HIDE DEF e
  <1>4. QED
    BY <1>1, <1>2, <1>3, Reworded DEF EditorOK

Questions == {"archive", "purge", "cancel", "merge"}

LEMMA AskAlters ==
    ASSUME IInv, Open, NEW q \in Questions, q \in {"archive", "purge"} => ed.doc # Nothing,
           AskTo(q)
    PROVE  Alters
  <1> DEFINE e == [ed EXCEPT !.asked = @ \cup {q}]
  <1>1. ed \in Editors /\ EditorOK(ed)
    BY DEF IInv, EditorOK
  <1>2. /\ e \in Editors /\ e.asked = ed.asked \cup {q} /\ e.replacing = ed.replacing
        /\ e = [ed EXCEPT !.dirty = e.dirty, !.value = e.value, !.asked = e.asked,
                          !.editing = e.editing, !.replacing = e.replacing]
    BY <1>1 DEF Editors, Questions
  <1>3. Drawn(e) /\ InEditor
    BY DEF AskTo
  <1> HIDE DEF e
  <1>4. QED
    BY <1>1, <1>2, <1>3, Reworded DEF EditorOK

LEMMA KeepAlters ==
    ASSUME IInv, Open, NEW q, Keep(q)
    PROVE  Alters
  <1> DEFINE e == [ed EXCEPT !.asked = @ \ {q}]
  <1>1. ed \in Editors /\ EditorOK(ed)
    BY DEF IInv, EditorOK
  <1>2. /\ e \in Editors /\ e.asked = ed.asked \ {q} /\ e.replacing = ed.replacing
        /\ e = [ed EXCEPT !.dirty = e.dirty, !.value = e.value, !.asked = e.asked,
                          !.editing = e.editing, !.replacing = e.replacing]
    BY <1>1 DEF Editors
  <1>3. Drawn(e) /\ InEditor
    BY DEF Keep
  <1> HIDE DEF e
  <1>4. QED
    BY <1>1, <1>2, <1>3, Reworded DEF EditorOK

(* A new editor, which may be one of a pair or for a session.              *)
LEMMA NewEditorOpens ==
    ASSUME IInv, ~Open, drafts < MaxDrafts[screen], drafts' = drafts + 1,
           UNCHANGED <<screen, server, listed, wire, awaits, losses>>,
           NEW e \in Editors, ed' = e, e.draft = drafts + 1,
           e.doc # Nothing => Known(e.doc) /\ e.basis = e.doc.edits,
           e.other # Nothing => Known(e.other),
           e.asked = {}, ~e.replacing, screen = "members" => ~e.picked,
           \A op \in Ops : e.err[op] = "none",
           screen = "duplicates" => e.doc # Nothing /\ e.other # Nothing /\ e.doc.id # e.other.id,
           screen \in {"sessions", "update"} => e.doc # Nothing
    PROVE  Opens
  <1>1. DocsMove
    BY NothingMoves DEF IInv, server
  <1>2. (e.doc # Nothing => Known(e.doc)') /\ (e.other # Nothing => Known(e.other)')
    BY <1>1, KnownStays DEF IInv, Known
  <1>3. EditorOK(ed)'
    BY <1>2 DEF EditorOK, Ops, server
  <1>4. ed' # Nothing
    BY NothingIsNoRecord
  <1>5. QED
    BY <1>3, <1>4 DEF Opens

(* What a new editor is like.                                              *)
LEMMA NewEditorFields ==
    ASSUME IInv, NEW d \in Docs \cup {Nothing}, NEW editing \in BOOLEAN
    PROVE  LET e == NewEditor(d, "none", editing) IN
           /\ e \in Editors /\ e.doc = d /\ e.other = Nothing /\ e.draft = drafts + 1
           /\ e.asked = {} /\ e.replacing = FALSE /\ e.picked = FALSE
           /\ \A op \in Ops : e.err[op] = "none"
           /\ d # Nothing => e.basis = d.edits
  <1>1. drafts \in Nat /\ clock \in Clocks
    BY Bounds DEF IInv, TypeOK
  <1>2. /\ (IF d = Nothing THEN 0 ELSE d.edits) \in 0..MaxETag
        /\ (IF d = Nothing THEN "none" ELSE d.value) \in Values
    BY DocFields, Bounds DEF Values
  <1>3. [op \in Ops |-> "none"] \in [Ops -> Errors]
    BY DEF Errors
  <1>4. QED
    BY <1>1, <1>2, <1>3 DEF NewEditor, Editors

(* An editor opened over a known document, or a new draft, is sound.       *)
LEMMA OpenEditorOpens ==
    ASSUME IInv, NEW d \in Docs \cup {Nothing}, d # Nothing => Known(d),
           screen \in {"sessions", "update"} => d # Nothing, screen # "duplicates",
           NEW editing \in BOOLEAN, OpenEditor(d, editing)
    PROVE  Opens
  <1> DEFINE e == NewEditor(d, "none", editing)
  <1>1. /\ ~Open /\ drafts < MaxDrafts[screen] /\ drafts' = drafts + 1
        /\ UNCHANGED <<screen, server, listed, wire, awaits, losses>>
        /\ ed' = e
    BY DEF OpenEditor
  <1>2. /\ e \in Editors /\ e.doc = d /\ e.other = Nothing /\ e.draft = drafts + 1
        /\ e.asked = {} /\ e.replacing = FALSE /\ e.picked = FALSE
        /\ \A op \in Ops : e.err[op] = "none"
        /\ d # Nothing => e.basis = d.edits
    BY NewEditorFields
  <1> HIDE DEF e
  <1>3. QED
    BY <1>1, <1>2, NewEditorOpens

(* The rows of the list are known documents.                               *)
LEMMA ListedOpens ==
    ASSUME IInv, NEW d \in {listed[i] : i \in Ids}
    PROVE  d \in Docs \cup {Nothing} /\ (d # Nothing => Known(d))
  BY DEF IInv, TypeOK, ListOK

(* A request for the document that is open.                                *)
LEMMA RequestOfEditor ==
    ASSUME IInv, Open, NEW verb \in {"create", "put", "archive", "get", "purge", "generate",
                                     "upload", "remove", "checkin", "merge"}
    PROVE  LET r == Request(verb) IN
           /\ r \in Requests /\ r.op = verb /\ r.draft = ed.draft /\ r.draft = drafts
           /\ r.refreshed = ed.refreshed /\ r.agreed = FALSE /\ r.basis = ed.basis
           /\ ed.doc # Nothing =>
                  /\ r.id = ed.doc.id /\ r.id \in Ids /\ r.etag = ed.doc.etag
                  /\ r.value = ed.doc.value
  BY Bounds, DocFields DEF Request, Requests, IInv, EditorOK, Editors, Values

(* Over a document that is open the draft goes over the version it is of.  *)
LEMMA SentOverDoc ==
    ASSUME IInv, Open, ed.doc # Nothing, NEW r \in Requests,
           r.id = ed.doc.id, r.etag = ed.doc.etag, r.basis = ed.basis,
           r.refreshed = ed.refreshed,
           screen = "members" => r.agreed \/ ed.doc.value \in {"none", r.value}
    PROVE  SentOver(r)
  <1>1. ed.doc \in Docs /\ Known(ed.doc) /\ (ed.refreshed \/ ed.basis = ed.doc.edits)
    BY DEF IInv, EditorOK, Editors, Known
  <1>2. QED
    BY <1>1 DEF SentOver, Known

(* A call takes a free slot.                                               *)
LEMMA Freed ==
    ASSUME TypeOK, Free # {}
    PROVE  Min(Free) \in Slots /\ wire[Min(Free)] = Nothing
  <1>1. Free \subseteq Nat
    BY Bounds DEF Free, Slots
  <1>2. QED
    BY <1>1, MinIsLeast DEF Free

(* A mutation that begins sends its request.                               *)
LEMMA MutateSends ==
    ASSUME IInv, Open, NEW op \in Ops, NEW r \in Requests, Mutate(op, r),
           NEW e \in Editors, EditorOK(e), Drawn(e), RequestOK(r),
           r.op \in Verbs(op) \ {"checkin"},
           e.doc = ed.doc, e.picked = ed.picked, op # "merge" => e.err[op] = "none",
           \A o \in Ops \ {op} : e.err[o] = ed.err[o],
           op \in {"reload", "photo"} => ed.doc # Nothing,
           r.op \in {"upload", "remove"} => op = "photo",
           op = "save" /\ ed.doc = Nothing => r.op = "create",
           r.op = "create" =>
               /\ op = "save" /\ ed.doc = Nothing /\ r.draft = ed.draft
               /\ screen \in {"groups", "members"} => ed.err["save"] # "uncertain"
    PROVE  Sends(op, r)
  <1>1. EditorOK(ed') /\ ed' # Nothing
    BY DrawnIsOK, DrawnFields, NothingIsNoRecord DEF IInv
  <1>2. ed'.doc = e.doc /\ ed'.picked = e.picked /\ ed'.err = e.err
    BY DrawnFields DEF IInv
  <1>3. QED
    BY <1>1, <1>2 DEF Sends

(* A mutation that begins anew has no error.                               *)
LEMMA BeganIsOK ==
    ASSUME IInv, Open, NEW op \in Ops
    PROVE  LET e == Began(ed, op) IN
           /\ e \in Editors /\ EditorOK(e) /\ e.err[op] = "none"
           /\ \A o \in Ops \ {op} : e.err[o] = ed.err[o]
           /\ e.doc = ed.doc /\ e.picked = ed.picked /\ e.replacing = ed.replacing
  <1> DEFINE e == Began(ed, op)
  <1>1. ed \in Editors /\ EditorOK(ed)
    BY DEF IInv, EditorOK
  <1>2. /\ e \in Editors /\ e.err[op] = "none" /\ \A o \in Ops \ {op} : e.err[o] = ed.err[o]
        /\ e.doc = ed.doc /\ e.other = ed.other /\ e.basis = ed.basis /\ e.draft = ed.draft
        /\ e.picked = ed.picked /\ e.asked = ed.asked /\ e.replacing = ed.replacing
        /\ e.refreshed = ed.refreshed
    BY <1>1 DEF Began, Editors, Errors
  <1> HIDE DEF e
  <1>3. EditorOK(e)
    BY <1>1, <1>2 DEF EditorOK, Ops
  <1>4. QED
    BY <1>2, <1>3 DEF e

(* Every mutation but a save and a merge sends what is open.               *)
LEMMA SendSends ==
    ASSUME IInv, Open, NEW op \in Ops \ {"save", "merge"}, NEW verb, Send(op, verb),
           verb \in Verbs(op) \ {"put"}, ed.doc # Nothing,
           verb = "purge" => screen = "churches", verb = "archive" => screen # "sessions",
           verb \in {"upload", "remove"} => screen = "members" /\ op = "photo"
    PROVE  \E r \in Requests : Sends(op, r)
  <1> DEFINE r == Request(verb)
  <1>1. /\ verb \in {"archive", "get", "purge", "generate", "upload", "remove"}
    BY DEF Verbs, Ops
  <1>2. /\ r \in Requests /\ r.op = verb /\ r.draft = drafts /\ r.id \in Ids /\ r.id = ed.doc.id
    BY <1>1, RequestOfEditor
  <1>3. drafts \in Nat
    BY Bounds DEF IInv, TypeOK
  <1>4. screen = "members" => Stored(ed.doc.id)
    BY DEF IInv, EditorOK, Known
  <1> HIDE DEF r
  <1>5. RequestOK(r)
    BY <1>1, <1>2, <1>3, <1>4 DEF RequestOK
  <1>6. Mutate(op, r) /\ Drawn(Began(ed, op))
    BY DEF Send, r
  <1>7. QED
    BY <1>1, <1>2, <1>5, <1>6, BeganIsOK, MutateSends

(* A save is sent over what the form was filled from.                      *)
LEMMA SaveRequestIsOK ==
    ASSUME IInv, Open, NEW v \in Values, NEW active \in BOOLEAN, NEW agreed \in BOOLEAN,
           screen = "members" /\ ed.doc # Nothing =>
               agreed \/ ed.doc.value \in {"none", v}
    PROVE  LET r == SaveRequest(v, active, agreed) IN
           /\ r \in Requests /\ RequestOK(r) /\ r.draft = ed.draft
           /\ r.op = IF ed.doc = Nothing THEN "create" ELSE "put"
  <1> DEFINE r == SaveRequest(v, active, agreed)
             op == IF ed.doc = Nothing THEN "create" ELSE "put"
  <1>1. /\ Request(op) \in Requests /\ Request(op).op = op
        /\ Request(op).draft = ed.draft /\ Request(op).draft = drafts
        /\ Request(op).refreshed = ed.refreshed /\ Request(op).basis = ed.basis
        /\ ed.doc # Nothing =>
               /\ Request(op).id = ed.doc.id /\ Request(op).id \in Ids
               /\ Request(op).etag = ed.doc.etag
    BY RequestOfEditor
  <1>2. r = [Request(op) EXCEPT !.value = v, !.active = active, !.agreed = agreed]
    BY DEF SaveRequest
  <1> HIDE DEF op, r
  <1>3. /\ r \in Requests /\ r.op = op /\ r.draft = ed.draft /\ r.draft = drafts
        /\ r.refreshed = ed.refreshed /\ r.basis = ed.basis
        /\ r.value = v /\ r.agreed = agreed
        /\ ed.doc # Nothing => r.id = ed.doc.id /\ r.id \in Ids /\ r.etag = ed.doc.etag
    BY <1>1, <1>2 DEF Requests
  <1>4. ed.doc # Nothing => SentOver(r)
    BY <1>3, SentOverDoc
  <1>5. drafts \in Nat
    BY Bounds DEF IInv, TypeOK
  <1>6. RequestOK(r)
    BY <1>3, <1>4, <1>5 DEF RequestOK, op
  <1>7. QED
    BY <1>3, <1>6 DEF op, r

(* A save, of a draft or of what is open.                                  *)
LEMMA SaveSends ==
    ASSUME IInv, Open, NEW v \in Values, NEW agreed \in BOOLEAN, NEW active \in BOOLEAN,
           screen = "members" /\ ed.doc # Nothing =>
               agreed \/ ed.doc.value \in {"none", v},
           screen \in {"groups", "members"} /\ ed.doc = Nothing => ed.err["save"] # "uncertain",
           Mutate("save", SaveRequest(v, active, agreed)),
           NEW replacing \in BOOLEAN, replacing => ed.replacing,
           Drawn([Began(ed, "save") EXCEPT !.replacing = replacing])
    PROVE  \E r \in Requests : Sends("save", r)
  <1> DEFINE r == SaveRequest(v, active, agreed)
             e == [Began(ed, "save") EXCEPT !.replacing = replacing]
             b == Began(ed, "save")
  <1>1. /\ r \in Requests /\ RequestOK(r) /\ r.draft = ed.draft
        /\ r.op = IF ed.doc = Nothing THEN "create" ELSE "put"
    BY SaveRequestIsOK
  <1>2. /\ b \in Editors /\ EditorOK(b) /\ b.err["save"] = "none" /\ "save" \in Ops
        /\ \A o \in Ops \ {"save"} : b.err[o] = ed.err[o]
        /\ b.doc = ed.doc /\ b.picked = ed.picked /\ b.replacing = ed.replacing
    BY BeganIsOK DEF Ops
  <1> HIDE DEF b
  <1>3. /\ e \in Editors /\ e.doc = b.doc /\ e.other = b.other /\ e.basis = b.basis
        /\ e.draft = b.draft /\ e.picked = b.picked /\ e.asked = b.asked /\ e.err = b.err
        /\ e.refreshed = b.refreshed /\ e.replacing = replacing
    BY <1>2 DEF b, Editors
  <1>4. Mutate("save", r) /\ Drawn(e)
    OBVIOUS
  <1> HIDE DEF r, e
  <1>5. EditorOK(e)
    BY <1>2, <1>3 DEF EditorOK
  <1>6. {"create", "put"} \subseteq Verbs("save")
    BY DEF Verbs
  <1>7. QED
    BY <1>1, <1>2, <1>3, <1>4, <1>5, <1>6, MutateSends

(* The same for a save that keeps its question.                            *)
LEMMA SendSaveSends ==
    ASSUME IInv, Open, NEW v \in Values, NEW agreed \in BOOLEAN,
           screen = "members" /\ ed.doc # Nothing =>
               agreed \/ ed.doc.value \in {"none", v},
           screen \in {"groups", "members"} /\ ed.doc = Nothing => ed.err["save"] # "uncertain",
           SendSave(v, agreed)
    PROVE  \E r \in Requests : Sends("save", r)
  <1>1. Began(ed, "save") \in Editors
    BY BeganIsOK DEF Ops
  <1>2. /\ Began(ed, "save") = [Began(ed, "save") EXCEPT !.replacing = ed.replacing]
        /\ ed.replacing \in BOOLEAN
    BY <1>1 DEF Began, Editors, IInv, EditorOK
  <1>3. QED
    BY <1>2, SaveSends DEF SendSave

(* What an answer that is a document brings.                               *)
LEMMA AnsweredDoc ==
    ASSUME IInv, NEW op \in Ops, Succeeded(op)
    PROVE  /\ awaits[op] \in Slots /\ wire[awaits[op]] \in Calls
           /\ wire[awaits[op]].request \in Requests /\ RequestOK(wire[awaits[op]].request)
           /\ wire[awaits[op]].request.op \in Verbs(op)
           /\ Open /\ Answer(op) \in Replies
           /\ Documented(wire[awaits[op]].request) =>
                  Answer(op).doc \in Docs /\ Known(Answer(op).doc)
  <1>1. awaits[op] \in Slots /\ Open /\ wire[awaits[op]] # Nothing
        /\ wire[awaits[op]].request.op \in Verbs(op)
    BY Bounds DEF IInv, TypeOK, AwaitsOK, Succeeded, Answered, Slots
  <1>2. wire[awaits[op]] \in Calls /\ CallOK(awaits[op])
    BY <1>1 DEF IInv, TypeOK, CallsOK
  <1>3. QED
    BY <1>1, <1>2 DEF Calls, Replies, CallOK, Succeeded, Answered, Answer

(* The editor takes a document that was answered.                          *)
LEMMA TakesDoc ==
    ASSUME IInv, NEW op \in Ops, Succeeded(op), HangUp(op),
           NEW e \in Editors, Drawn(e), e.doc \in Docs, Known(e.doc),
           e.refreshed \/ e.basis = e.doc.edits,
           e.other = ed.other, e.draft = ed.draft, e.picked = ed.picked,
           e.asked \subseteq ed.asked, e.replacing => ed.replacing,
           \A o \in Ops : e.err[o] \in {ed.err[o], "none"},
           screen # "duplicates",
           screen = "members" => ~ed.picked,
           op = "reload" /\ screen \notin {"churches", "sessions"} =>
               e.err["save"] = "none" /\ e.err["archive"] = "none"
    PROVE  Takes(op)
  <1>1. Open
    BY AnsweredDoc
  <1>2. EditorOK(ed) /\ ed \in Editors
    BY <1>1 DEF IInv, EditorOK
  <1>3. EditorOK(e) /\ e.doc # Nothing
    BY <1>2, NothingIsNoRecord DEF EditorOK, Ops
  <1>4. /\ EditorOK(ed') /\ ed' # Nothing
        /\ ed'.doc = e.doc /\ ed'.picked = e.picked /\ ed'.err = e.err
    BY <1>3, DrawnIsOK, DrawnFields, NothingIsNoRecord DEF IInv
  <1>5. QED
    BY <1>1, <1>3, <1>4 DEF Takes

(* What an editor is like that was filled from a document.                 *)
LEMMA RefilledFields ==
    ASSUME IInv, Open, NEW d \in Docs
    PROVE  LET e == Refilled(d) IN
           /\ e \in Editors /\ e.doc = d /\ e.basis = d.edits /\ e.other = ed.other
           /\ e.draft = ed.draft /\ e.picked = ed.picked /\ e.asked = ed.asked
           /\ e.replacing = ed.replacing /\ e.err = ed.err /\ e.editing = ed.editing
           /\ e.value = d.value /\ e.at = ed.at
  <1>1. ed \in Editors /\ d.edits \in 0..MaxETag /\ d.value \in Values
    BY DocFields, Bounds DEF IInv, EditorOK
  <1>2. QED
    BY <1>1 DEF Refilled, Editors

(* A reload's answer is taken.                                             *)
LEMMA TakeReloadedTakes ==
    ASSUME IInv, NEW forgotten, NEW questions, TakeReloaded(forgotten, questions),
           screen # "duplicates",
           screen \notin {"churches", "sessions"} => {"save", "archive"} \subseteq forgotten
    PROVE  Takes("reload")
  <1> DEFINE d == Answer("reload").doc
             f == Refilled(d)
             e == [f EXCEPT !.asked = @ \ questions, !.replacing = FALSE,
                            !.err = [op \in Ops |-> IF op \in forgotten THEN "none" ELSE @[op]]]
  <1>1. /\ Succeeded("reload") /\ HangUp("reload") /\ "reload" \in Ops
        /\ wire[awaits["reload"]].request.op = "get" /\ Open /\ d \in Docs /\ Known(d)
    BY AnsweredDoc DEF TakeReloaded, Ops, Verbs, Documented
  <1>2. ed.doc # Nothing /\ EditorOK(ed) /\ ed \in Editors
    BY <1>1 DEF IInv, WaitsOK, EditorOK, Succeeded, Answered
  <1>3. /\ f \in Editors /\ f.doc = d /\ f.basis = d.edits /\ f.other = ed.other
        /\ f.draft = ed.draft /\ f.picked = ed.picked /\ f.asked = ed.asked
        /\ f.replacing = ed.replacing /\ f.err = ed.err
    BY <1>1, RefilledFields
  <1>4. Drawn(e)
    BY DEF TakeReloaded
  <1> HIDE DEF f
  <1>5. /\ e \in Editors /\ e.doc = d /\ e.basis = d.edits /\ e.other = ed.other
        /\ e.draft = ed.draft /\ e.picked = ed.picked /\ e.asked \subseteq ed.asked
        /\ e.replacing = FALSE
        /\ \A op \in Ops : e.err[op] = IF op \in forgotten THEN "none" ELSE ed.err[op]
    BY <1>2, <1>3 DEF Editors, Errors
  <1> HIDE DEF e, d
  <1>6. screen \notin {"churches", "sessions"} =>
            e.err["save"] = "none" /\ e.err["archive"] = "none"
    BY <1>5 DEF Ops
  <1>7. QED
    BY <1>1, <1>2, <1>4, <1>5, <1>6, TakesDoc DEF EditorOK

(* A save's answer is taken by an editor that stays open.                  *)
LEMMA StayOnTakes ==
    ASSUME IInv, NEW op \in Ops, NEW questions, StayOn(op, questions),
           Documented(wire[awaits[op]].request), screen \notin {"duplicates", "members"},
           op # "reload"
    PROVE  Takes(op)
  <1> DEFINE d == Answer(op).doc
             f == Refilled(d)
             e == [f EXCEPT !.asked = @ \ questions]
  <1>1. Succeeded(op) /\ HangUp(op) /\ Open /\ d \in Docs /\ Known(d)
    BY AnsweredDoc DEF StayOn
  <1>2. EditorOK(ed) /\ ed \in Editors
    BY <1>1 DEF IInv, EditorOK
  <1>3. /\ f \in Editors /\ f.doc = d /\ f.basis = d.edits /\ f.other = ed.other
        /\ f.draft = ed.draft /\ f.picked = ed.picked /\ f.asked = ed.asked
        /\ f.replacing = ed.replacing /\ f.err = ed.err
    BY <1>1, RefilledFields
  <1>4. Drawn(e)
    BY DEF StayOn
  <1> HIDE DEF f
  <1>5. /\ e \in Editors /\ e.doc = d /\ e.basis = d.edits /\ e.other = ed.other
        /\ e.draft = ed.draft /\ e.picked = ed.picked /\ e.asked \subseteq ed.asked
        /\ e.replacing = ed.replacing /\ e.err = ed.err
    BY <1>2, <1>3 DEF Editors
  <1> HIDE DEF e, d
  <1>6. QED
    BY <1>1, <1>2, <1>4, <1>5, TakesDoc

(* Closing an editor leaves its calls to the server.                       *)
LEMMA CloseOnLeaves ==
    ASSUME IInv, NEW op \in Ops, CloseOn(op)
    PROVE  Leaves
  BY AnsweredDoc DEF CloseOn, Leaves, IInv, TypeOK

LEMMA CloseSheetLeaves == ASSUME IInv, NEW busy, CloseSheet(busy) PROVE Leaves
  BY DEF CloseSheet, Leaves, IInv, TypeOK
(* The error of a screen is that of one of its mutations, and of the first *)
(* of them when that has one.                                              *)
LEMMA FirstError ==
    ASSUME NEW order, DOMAIN order \subseteq Nat \ {0}, 1 \in DOMAIN order
    PROVE  /\ ed.err[order[1]] # "none" => ErrorOf(order) = ed.err[order[1]]
           /\ ErrorOf(order) # "none" =>
                  \E i \in DOMAIN order : ErrorOf(order) = ed.err[order[i]]
  <1> DEFINE failed == {i \in DOMAIN order : ed.err[order[i]] # "none"}
  <1>1. ErrorOf(order) = IF failed = {} THEN "none" ELSE ed.err[order[Min(failed)]]
    BY DEF ErrorOf
  <1>2. failed # {} => Min(failed) \in failed /\ \A i \in failed : Min(failed) <= i
    BY MinIsLeast
  <1>3. 1 \in failed => Min(failed) = 1
    BY <1>2
  <1>4. QED
    BY <1>1, <1>2, <1>3

(* What is not pending is not awaited.                                     *)
LEMMA Pended ==
    ASSUME NEW ops, ~Pending(ops), NEW op \in ops
    PROVE  awaits[op] = 0
  BY DEF Pending

(* The screens.                                                            *)
LEMMA GroupSteps == IInv /\ screen = "groups" /\ GroupStep => EditorStep
  <1> SUFFICES ASSUME IInv, screen = "groups", GroupStep
               PROVE  EditorStep
    OBVIOUS
  <1> USE DEF EditorStep
  <1>1. {"save", "archive", "reload", "photo", "purge", "generate", "merge"} = Ops
    BY DEF Ops
  <1>2. "none" \in Values /\ "get" \in Verbs("reload") /\ "archive" \in Verbs("archive")
    BY DEF Values, Verbs
  <1>3. CASE OpenGroup
    BY <1>3, ListedOpens, OpenEditorOpens DEF OpenGroup
  <1>4. CASE CloseSheet(GroupBusy)
    BY <1>4, CloseSheetLeaves
  <1>5. CASE Open /\ EditGroup
    BY <1>2, <1>5, TypeAlters DEF EditGroup
  <1>6. CASE Open /\ SaveGroup
    <2>1. ed.err["save"] # "uncertain"
      <3>1. ed.err["save"] = "uncertain" => GroupError = "uncertain"
        BY FirstError DEF GroupError
      <3>2. QED
        BY <1>6, <3>1 DEF SaveGroup, GroupLocked
    <2>2. QED
      BY <1>1, <1>2, <1>6, <2>1, SendSaveSends DEF SaveGroup
  <1>7. CASE Open /\ AskToArchiveGroup
    BY <1>7, AskAlters DEF AskToArchiveGroup, Questions
  <1>8. CASE Open /\ ArchiveGroup
    <2>1. ed.doc # Nothing
      BY <1>8 DEF ArchiveGroup, IInv, EditorOK
    <2>2. QED
      BY <1>1, <1>2, <1>8, <2>1, SendSends DEF ArchiveGroup
  <1>9. CASE Open /\ KeepGroup
    BY <1>9, KeepAlters DEF KeepGroup
  <1>10. CASE Open /\ ReloadGroup
    BY <1>1, <1>2, <1>10, SendSends DEF ReloadGroup
  <1>11. CASE Open /\ (CloseOn("save") \/ CloseOn("archive"))
    BY <1>1, <1>11, CloseOnLeaves
  <1>12. CASE Open /\ TakeReloaded({"save", "archive"}, {"archive"})
    BY <1>1, <1>12, TakeReloadedTakes
  <1>13. QED
    BY <1>3, <1>4, <1>5, <1>6, <1>7, <1>8, <1>9, <1>10, <1>11, <1>12 DEF GroupStep

LEMMA FieldSteps == IInv /\ screen = "fields" /\ FieldStep => EditorStep
  <1> SUFFICES ASSUME IInv, screen = "fields", FieldStep
               PROVE  EditorStep
    OBVIOUS
  <1> USE DEF EditorStep
  <1>1. {"save", "archive", "reload", "photo", "purge", "generate", "merge"} = Ops
    BY DEF Ops
  <1>2. "none" \in Values /\ "get" \in Verbs("reload") /\ "archive" \in Verbs("archive")
    BY DEF Values, Verbs
  <1>3. CASE OpenField
    BY <1>3, ListedOpens, OpenEditorOpens DEF OpenField
  <1>4. CASE CloseSheet(FieldBusy)
    BY <1>4, CloseSheetLeaves
  <1>5. CASE Open /\ EditField
    BY <1>2, <1>5, TypeAlters DEF EditField
  <1>6. CASE Open /\ SaveField
    BY <1>1, <1>2, <1>6, SendSaveSends DEF SaveField
  <1>7. CASE Open /\ AskToArchiveField
    BY <1>7, AskAlters DEF AskToArchiveField, Questions
  <1>8. CASE Open /\ ArchiveField
    BY <1>1, <1>2, <1>8, SendSends DEF ArchiveField
  <1>9. CASE Open /\ KeepField
    BY <1>9, KeepAlters DEF KeepField
  <1>10. CASE Open /\ ReloadField
    BY <1>1, <1>2, <1>10, SendSends DEF ReloadField
  <1>11. CASE Open /\ (CloseOn("save") \/ CloseOn("archive"))
    BY <1>1, <1>11, CloseOnLeaves
  <1>12. CASE Open /\ TakeReloaded({"save", "archive"}, {"archive"})
    BY <1>1, <1>12, TakeReloadedTakes
  <1>13. QED
    BY <1>3, <1>4, <1>5, <1>6, <1>7, <1>8, <1>9, <1>10, <1>11, <1>12 DEF FieldStep

LEMMA UserSteps == IInv /\ screen = "users" /\ UserStep => EditorStep
  <1> SUFFICES ASSUME IInv, screen = "users", UserStep
               PROVE  EditorStep
    OBVIOUS
  <1> USE DEF EditorStep
  <1>1. {"save", "archive", "reload", "photo", "purge", "generate", "merge"} = Ops
    BY DEF Ops
  <1>2. "none" \in Values /\ "archive" \in Verbs("archive")
    BY DEF Values, Verbs
  <1>3. CASE OpenUser
    BY <1>3, ListedOpens, OpenEditorOpens DEF OpenUser
  <1>4. CASE CloseSheet(UserBusy)
    BY <1>4, CloseSheetLeaves
  <1>5. CASE Open /\ EditUser
    BY <1>2, <1>5, TypeAlters DEF EditUser
  <1>6. CASE Open /\ SaveUser
    BY <1>1, <1>2, <1>6, SendSaveSends DEF SaveUser
  <1>7. CASE Open /\ AskToArchiveUser
    BY <1>7, AskAlters DEF AskToArchiveUser, Questions
  <1>8. CASE Open /\ ArchiveUser
    <2>1. ed.doc # Nothing
      BY <1>8 DEF ArchiveUser, IInv, EditorOK
    <2>2. QED
      BY <1>1, <1>2, <1>8, <2>1, SendSends DEF ArchiveUser
  <1>9. CASE Open /\ KeepUser
    BY <1>9, KeepAlters DEF KeepUser
  <1>10. CASE Open /\ (CloseOn("save") \/ CloseOn("archive"))
    BY <1>1, <1>10, CloseOnLeaves
  <1>11. QED
    BY <1>3, <1>4, <1>5, <1>6, <1>7, <1>8, <1>9, <1>10 DEF UserStep

LEMMA ChurchSteps == IInv /\ screen = "churches" /\ ChurchStep => EditorStep
  <1> SUFFICES ASSUME IInv, screen = "churches", ChurchStep
               PROVE  EditorStep
    OBVIOUS
  <1> USE DEF EditorStep
  <1>1. {"save", "archive", "reload", "photo", "purge", "generate", "merge"} = Ops
    BY DEF Ops
  <1>2. /\ "none" \in Values /\ "get" \in Verbs("reload") /\ "archive" \in Verbs("archive")
        /\ "purge" \in Verbs("purge")
    BY DEF Values, Verbs
  <1>3. CASE OpenChurch
    BY <1>3, ListedOpens, OpenEditorOpens DEF OpenChurch
  <1>4. CASE CloseSheet(ChurchBusy)
    BY <1>4, CloseSheetLeaves
  <1>5. CASE Open /\ EditChurch
    BY <1>2, <1>5, TypeAlters DEF EditChurch
  <1>6. CASE Open /\ SaveChurch
    BY <1>1, <1>2, <1>6, SendSaveSends DEF SaveChurch
  <1>7. CASE Open /\ (AskToArchiveChurch \/ AskToPurgeChurch)
    BY <1>7, AskAlters DEF AskToArchiveChurch, AskToPurgeChurch, OverArchived, Questions
  <1>8. CASE Open /\ (ArchiveChurch \/ PurgeChurch)
    <2>1. ed.doc # Nothing
      BY <1>8 DEF ArchiveChurch, PurgeChurch, IInv, EditorOK
    <2>2. QED
      BY <1>1, <1>2, <1>8, <2>1, SendSends DEF ArchiveChurch, PurgeChurch
  <1>9. CASE Open /\ KeepChurch
    BY <1>9, KeepAlters DEF KeepChurch
  <1>10. CASE Open /\ ReloadChurch
    BY <1>1, <1>2, <1>10, SendSends DEF ReloadChurch
  <1>11. CASE Open /\ (CloseOn("save") \/ CloseOn("archive") \/ CloseOn("purge"))
    BY <1>1, <1>11, CloseOnLeaves
  <1>12. CASE Open /\ TakeReloaded({"save", "archive"}, {"archive"})
    BY <1>1, <1>12, TakeReloadedTakes
  <1>13. QED
    BY <1>3, <1>4, <1>5, <1>6, <1>7, <1>8, <1>9, <1>10, <1>11, <1>12 DEF ChurchStep

(* A screen whose save is no upload and no check-in is answered with what  *)
(* was saved.                                                              *)
LEMMA SavedDoc ==
    ASSUME IInv, screen \notin {"members", "register"}, Succeeded("save")
    PROVE  Documented(wire[awaits["save"]].request)
  BY AnsweredDoc DEF Verbs, Ops, RequestOK, Documented

LEMMA EventSteps == IInv /\ screen = "events" /\ EventStep => EditorStep
  <1> SUFFICES ASSUME IInv, screen = "events", EventStep
               PROVE  EditorStep
    OBVIOUS
  <1> USE DEF EditorStep
  <1>1. {"save", "archive", "reload", "photo", "purge", "generate", "merge"} = Ops
    BY DEF Ops
  <1>2. /\ "none" \in Values /\ "get" \in Verbs("reload") /\ "archive" \in Verbs("archive")
        /\ "generate" \in Verbs("generate")
    BY DEF Values, Verbs
  <1>3. CASE OpenEvent
    BY <1>3, ListedOpens, OpenEditorOpens DEF OpenEvent
  <1>4. CASE CloseSheet(EventBusy)
    BY <1>4, CloseSheetLeaves
  <1>5. CASE Open /\ EditEvent
    BY <1>2, <1>5, TypeAlters DEF EditEvent
  <1>6. CASE Open /\ SaveEvent
    BY <1>1, <1>2, <1>6, SendSaveSends DEF SaveEvent
  <1>7. CASE Open /\ GenerateNext
    BY <1>1, <1>2, <1>7, SendSends DEF GenerateNext
  <1>8. CASE Open /\ TakeGenerated
    <2>1. Succeeded("generate") /\ HangUp("generate") /\ Drawn(ed)
      BY <1>8 DEF TakeGenerated
    <2>2. ed \in Editors /\ EditorOK(ed)
      BY <1>8 DEF IInv, EditorOK
    <2>3. /\ EditorOK(ed') /\ ed' # Nothing
          /\ ed'.doc = ed.doc /\ ed'.picked = ed.picked /\ ed'.err = ed.err
      BY <2>1, <2>2, DrawnIsOK, DrawnFields, NothingIsNoRecord DEF IInv
    <2>4. Takes("generate")
      BY <1>8, <2>1, <2>3 DEF Takes
    <2>5. QED
      BY <1>1, <2>4
  <1>9. CASE Open /\ AskToArchiveEvent
    BY <1>9, AskAlters DEF AskToArchiveEvent, Questions
  <1>10. CASE Open /\ ArchiveEvent
    <2>1. ed.doc # Nothing
      BY <1>10 DEF ArchiveEvent, IInv, EditorOK
    <2>2. QED
      BY <1>1, <1>2, <1>10, <2>1, SendSends DEF ArchiveEvent
  <1>11. CASE Open /\ KeepEvent
    BY <1>11, KeepAlters DEF KeepEvent
  <1>12. CASE Open /\ ReloadEvent
    BY <1>1, <1>2, <1>12, SendSends DEF ReloadEvent
  <1>13. CASE Open /\ StayOn("save", {})
    BY <1>1, <1>13, SavedDoc, StayOnTakes DEF StayOn
  <1>14. CASE Open /\ CloseOn("archive")
    BY <1>1, <1>14, CloseOnLeaves
  <1>15. CASE Open /\ TakeReloaded({"save", "archive"}, {"archive"})
    BY <1>1, <1>15, TakeReloadedTakes
  <1>16. QED
    BY <1>3, <1>4, <1>5, <1>6, <1>7, <1>8, <1>9, <1>10, <1>11, <1>12, <1>13, <1>14, <1>15
       DEF EventStep

(* Saving a session sends it as it is to be, or refuses by itself.         *)
LEMMA SaveAsSteps ==
    ASSUME IInv, screen = "sessions", Open, NEW v \in Values, NEW cancelling \in BOOLEAN,
           Saveless, SaveAs(v, cancelling)
    PROVE  Alters \/ \E r \in Requests : Sends("save", r)
  <1>1. awaits["save"] = 0 /\ ed.doc # Nothing /\ ed \in Editors /\ EditorOK(ed)
    BY Pended DEF Saveless, IInv, EditorOK
  <1>2. CASE ScheduleEditable /\ clock # "before"
    <2> DEFINE e == [ed EXCEPT !.err["save"] = "refused"]
    <2>1. Drawn(e) /\ InEditor
      BY <1>2 DEF SaveAs
    <2>2. /\ e \in Editors /\ e.doc = ed.doc /\ e.other = ed.other /\ e.basis = ed.basis
          /\ e.draft = ed.draft /\ e.picked = ed.picked /\ e.asked = ed.asked
          /\ e.replacing = ed.replacing /\ e.refreshed = ed.refreshed
          /\ e.err["save"] = "refused" /\ \A o \in Ops \ {"save"} : e.err[o] = ed.err[o]
      BY <1>1 DEF Editors, Errors, Ops
    <2> HIDE DEF e
    <2>3. EditorOK(e)
      BY <1>1, <2>2 DEF EditorOK, Ops
    <2>4. QED
      BY <1>1, <2>1, <2>2, <2>3, Altered
  <1>3. CASE ~(ScheduleEditable /\ clock # "before")
    <2> DEFINE value == IF ScheduleEditable THEN v ELSE ed.doc.value
    <2>1. ed.doc.value \in Values /\ ed.doc.active \in BOOLEAN
      BY <1>1, DocFields DEF Editors
    <2>2. /\ Mutate("save", SaveRequest(value, ed.doc.active, cancelling))
          /\ Drawn(Began(ed, "save"))
      BY <1>3 DEF SaveAs
    <2>3. Began(ed, "save") \in Editors
      BY BeganIsOK DEF Ops
    <2>4. /\ Began(ed, "save") = [Began(ed, "save") EXCEPT !.replacing = ed.replacing]
          /\ ed.replacing \in BOOLEAN
      BY <1>1, <2>3 DEF Began, Editors
    <2>5. value \in Values
      BY <2>1
    <2> HIDE DEF value
    <2>6. QED
      BY <2>1, <2>2, <2>4, <2>5, SaveSends
  <1>4. QED
    BY <1>2, <1>3

(* Archiving or restoring a session is a save of its override.             *)
LEMMA ShelveSends ==
    ASSUME IInv, screen = "sessions", Open, NEW active \in BOOLEAN, Shelve(active)
    PROVE  \E r \in Requests : Sends("archive", r)
  <1> DEFINE r == SaveRequest(ed.doc.value, active, FALSE)
  <1>1. ed.doc # Nothing /\ ed.doc.value \in Values
    BY DocFields DEF IInv, EditorOK, Editors
  <1>2. /\ r \in Requests /\ RequestOK(r) /\ r.op = "put"
    BY <1>1, SaveRequestIsOK
  <1>3. Mutate("archive", r) /\ Drawn(Began(ed, "archive"))
    BY DEF Shelve
  <1> HIDE DEF r
  <1>4. "put" \in Verbs("archive") /\ "archive" \in Ops
    BY DEF Verbs, Ops
  <1>5. QED
    BY <1>1, <1>2, <1>3, <1>4, BeganIsOK, MutateSends

LEMMA SessionSteps == IInv /\ screen = "sessions" /\ SessionStep => EditorStep
  <1> SUFFICES ASSUME IInv, screen = "sessions", SessionStep
               PROVE  EditorStep
    OBVIOUS
  <1> USE DEF EditorStep
  <1>1. {"save", "archive", "reload", "photo", "purge", "generate", "merge"} = Ops
    BY DEF Ops
  <1>2. {"held", "cancelled"} \subseteq Values /\ "get" \in Verbs("reload")
    BY DEF Values, Verbs
  <1>3. Open => ed.doc # Nothing /\ ed.value \in Values
    BY DEF IInv, EditorOK, Editors
  <1>4. CASE OpenSession
    BY <1>4, ListedOpens, OpenEditorOpens DEF OpenSession
  <1>5. CASE CloseSheet(SessionBusy) \/ StartCheckIn
    BY <1>5, CloseSheetLeaves DEF StartCheckIn
  <1>6. CASE Open /\ EditSession
    BY <1>3, <1>6, TypeAlters DEF EditSession
  <1>7. CASE Open /\ (SaveSession \/ RestoreOccurrence \/ ConfirmCancellation)
    BY <1>1, <1>2, <1>3, <1>7, SaveAsSteps
       DEF SaveSession, RestoreOccurrence, ConfirmCancellation
  <1>8. CASE Open /\ (AskToCancel \/ AskToArchiveSession)
    BY <1>3, <1>8, AskAlters DEF AskToCancel, AskToArchiveSession, Questions
  <1>9. CASE Open /\ (KeepOccurrence \/ KeepSession)
    BY <1>9, KeepAlters DEF KeepOccurrence, KeepSession
  <1>10. CASE Open /\ (ConfirmArchive \/ RestoreArchived)
    BY <1>1, <1>10, ShelveSends DEF ConfirmArchive, RestoreArchived
  <1>11. CASE Open /\ ReloadSession
    BY <1>1, <1>2, <1>3, <1>11, SendSends DEF ReloadSession
  <1>12. CASE Open /\ StayOn("save", {"cancel"})
    BY <1>1, <1>12, SavedDoc, StayOnTakes DEF StayOn
  <1>13. CASE Open /\ StayOn("archive", {"archive"})
    <2>1. Documented(wire[awaits["archive"]].request)
      BY <1>1, <1>13, AnsweredDoc DEF StayOn, Verbs, RequestOK, Documented
    <2>2. QED
      BY <1>1, <1>13, <2>1, StayOnTakes
  <1>14. CASE Open /\ TakeReloaded({"save"}, {})
    BY <1>1, <1>14, TakeReloadedTakes
  <1>15. QED
    BY <1>4, <1>5, <1>6, <1>7, <1>8, <1>9, <1>10, <1>11, <1>12, <1>13, <1>14 DEF SessionStep

(* The member's document is fetched before its editor opens.               *)
LEMMA StoredOpens ==
    ASSUME IInv, NEW i \in Ids, Stored(i)
    PROVE  docs[i] \in Docs /\ Known(docs[i])
  BY DEF IInv, TypeOK, DocsOK, Stored

(* Editing and replacing are the editor's own steps.                       *)
LEMMA ToggleAlters ==
    ASSUME IInv, Open, NEW editing \in BOOLEAN, NEW replacing \in BOOLEAN,
           replacing => ed.doc # Nothing,
           Drawn([ed EXCEPT !.editing = editing, !.replacing = replacing]), InEditor
    PROVE  Alters
  <1> DEFINE e == [ed EXCEPT !.editing = editing, !.replacing = replacing]
  <1>1. ed \in Editors /\ EditorOK(ed)
    BY DEF IInv, EditorOK
  <1>2. /\ e \in Editors /\ e.asked = ed.asked /\ e.replacing = replacing
        /\ e = [ed EXCEPT !.dirty = e.dirty, !.value = e.value, !.asked = e.asked,
                          !.editing = e.editing, !.replacing = e.replacing]
    BY <1>1 DEF Editors
  <1>3. Drawn(e)
    OBVIOUS
  <1> HIDE DEF e
  <1>4. QED
    BY <1>1, <1>2, <1>3, Reworded DEF EditorOK

LEMMA PickPhotoAlters == ASSUME IInv, screen = "members", Open, PickPhoto PROVE Alters
  <1> DEFINE e == [ed EXCEPT !.picked = ~@]
  <1>1. ed \in Editors /\ EditorOK(ed)
    BY DEF IInv, EditorOK
  <1>2. /\ Drawn(e) /\ InEditor /\ ed.doc = Nothing /\ awaits["save"] = 0
    BY Pended DEF PickPhoto, MemberLocked, MemberBusy
  <1>3. /\ e \in Editors /\ e.doc = ed.doc /\ e.other = ed.other /\ e.basis = ed.basis
        /\ e.draft = ed.draft /\ e.asked = ed.asked /\ e.replacing = ed.replacing
        /\ e.refreshed = ed.refreshed /\ e.err = ed.err
    BY <1>1 DEF Editors
  <1> HIDE DEF e
  <1>4. EditorOK(e)
    BY <1>1, <1>2, <1>3 DEF EditorOK
  <1>5. QED
    BY <1>2, <1>3, <1>4, Altered

(* The member fetched after a photo goes under the draft.                  *)
LEMMA TakeRefreshedTakes ==
    ASSUME IInv, screen = "members", Open, TakeRefreshed PROVE Takes("photo")
  <1> DEFINE d == Answer("photo").doc
             e == [ed EXCEPT !.doc = d, !.refreshed = TRUE]
  <1>1. /\ Succeeded("photo") /\ HangUp("photo") /\ Drawn(e) /\ "photo" \in Ops
        /\ wire[awaits["photo"]].request.op = "get"
    BY DEF TakeRefreshed, Ops
  <1>2. d \in Docs /\ Known(d)
    BY <1>1, AnsweredDoc DEF Documented
  <1>3. ed.doc # Nothing /\ ed \in Editors /\ EditorOK(ed) /\ ~ed.picked
    BY <1>1 DEF IInv, WaitsOK, EditorOK, Succeeded, Answered
  <1>4. /\ e \in Editors /\ e.doc = d /\ e.refreshed /\ e.other = ed.other
        /\ e.draft = ed.draft /\ e.picked = ed.picked /\ e.asked = ed.asked
        /\ e.replacing = ed.replacing /\ e.err = ed.err
    BY <1>2, <1>3 DEF Editors
  <1> HIDE DEF e, d
  <1>5. QED
    BY <1>1, <1>2, <1>3, <1>4, TakesDoc

(* A picked photo is uploaded for the member that was created.             *)
LEMMA UploadPickedGoesOn ==
    ASSUME IInv, screen = "members", Open, UploadPicked
    PROVE  \E r \in Requests : GoesOn("save", r)
  <1> DEFINE d == Answer("save").doc
             r == [Request("upload") EXCEPT !.id = d.id]
  <1>1. Succeeded("save") /\ ed.picked /\ ~Uploading /\ GoOn("save", r) /\ "save" \in Ops
    BY DEF UploadPicked, Ops
  <1>2. wire[awaits["save"]].request.op \in {"create", "put"}
    BY <1>1, AnsweredDoc DEF Verbs, RequestOK, Uploading, Succeeded, Answered
  <1>3. d \in Docs /\ Known(d) /\ d.id \in Ids /\ Stored(d.id)
    BY <1>1, <1>2, AnsweredDoc, DocFields DEF Documented, Known
  <1>4. /\ Request("upload") \in Requests /\ Request("upload").op = "upload"
        /\ Request("upload").draft = drafts
    BY <1>1, RequestOfEditor
  <1>40. drafts \in Nat
    BY Bounds DEF IInv, TypeOK
  <1> HIDE DEF d
  <1>5. r \in Requests /\ r.op = "upload" /\ r.draft = drafts /\ r.id = d.id
    BY <1>3, <1>4 DEF Requests
  <1> HIDE DEF r
  <1>6. RequestOK(r) /\ r.op \in Verbs("save") \ {"create", "put"}
    BY <1>3, <1>40, <1>5 DEF RequestOK, Verbs
  <1>7. QED
    BY <1>1, <1>5, <1>6 DEF GoesOn

(* A photo that was changed has the member fetched again.                  *)
LEMMA RefreshMemberGoesOn ==
    ASSUME IInv, screen = "members", Open, RefreshMember
    PROVE  \E r \in Requests : GoesOn("photo", r)
  <1> DEFINE r == Request("get")
  <1>1. Succeeded("photo") /\ GoOn("photo", r)
    BY DEF RefreshMember
  <1>2. ed.doc # Nothing
    BY <1>1 DEF IInv, WaitsOK, Succeeded, Answered
  <1>3. r \in Requests /\ r.op = "get" /\ r.draft = drafts /\ r.id \in Ids
    BY <1>2, RequestOfEditor
  <1>30. drafts \in Nat
    BY Bounds DEF IInv, TypeOK
  <1> HIDE DEF r
  <1>4. RequestOK(r) /\ r.op \in Verbs("photo") \ {"create", "put"}
    BY <1>3, <1>30 DEF RequestOK, Verbs
  <1>5. QED
    BY <1>1, <1>3, <1>4 DEF GoesOn

(* A member's save that replaces a code was asked about.                   *)
LEMMA MemberSaveSends ==
    ASSUME IInv, screen = "members", Open, SaveMember \/ ConfirmReplacement
    PROVE  \E r \in Requests : Sends("save", r)
  <1>1. ed \in Editors /\ EditorOK(ed) /\ ed.value \in Values
    BY DEF IInv, EditorOK, Editors
  <1>2. CASE SaveMember
    <2>1. ed.err["save"] = "uncertain" => MemberError = "uncertain"
      BY FirstError DEF MemberError
    <2>2. ed.err["save"] # "uncertain"
      BY <1>2, <2>1 DEF SaveMember, MaySave
    <2>3. ed.doc # Nothing => ed.doc.value \in {"none", ed.value}
      BY <1>2 DEF SaveMember, Replaces
    <2>4. QED
      BY <1>1, <1>2, <2>2, <2>3, SendSaveSends DEF SaveMember
  <1>3. CASE ConfirmReplacement
    <2>1. ed.doc # Nothing
      BY <1>1, <1>3 DEF ConfirmReplacement, EditorOK
    <2>2. QED
      BY <1>1, <1>3, <2>1, SaveSends DEF ConfirmReplacement
  <1>4. QED
    BY <1>2, <1>3

LEMMA MemberSteps == IInv /\ screen = "members" /\ MemberStep => EditorStep
  <1> SUFFICES ASSUME IInv, screen = "members", MemberStep
               PROVE  EditorStep
    OBVIOUS
  <1> USE DEF EditorStep
  <1>1. {"save", "archive", "reload", "photo", "purge", "generate", "merge"} = Ops
    BY DEF Ops
  <1>2. /\ ScanCodes \cup {"none"} \subseteq Values /\ "get" \in Verbs("reload")
        /\ "archive" \in Verbs("archive") /\ {"upload", "remove"} \subseteq Verbs("photo")
    BY DEF Values, Verbs
  <1>3. Open => ed \in Editors /\ ed.editing \in BOOLEAN /\ ed.replacing \in BOOLEAN
    BY DEF IInv, EditorOK, Editors
  <1>4. CASE OpenMember
    BY <1>4, StoredOpens, OpenEditorOpens DEF OpenMember
  <1>5. CASE CloseSheet(MemberBusy)
    BY <1>5, CloseSheetLeaves
  <1>6. CASE Open /\ (StartEditing \/ AskToReplaceCode \/ KeepEditing)
    <2>1. [ed EXCEPT !.editing = TRUE] = [ed EXCEPT !.editing = TRUE, !.replacing = ed.replacing]
      BY <1>3, <1>6 DEF Editors
    <2>2. \A b \in BOOLEAN :
             [ed EXCEPT !.replacing = b] = [ed EXCEPT !.editing = ed.editing, !.replacing = b]
      BY <1>3, <1>6 DEF Editors
    <2>3. CASE StartEditing
      BY <1>3, <1>6, <2>1, <2>3, ToggleAlters DEF StartEditing
    <2>4. CASE AskToReplaceCode
      <3>1. /\ Drawn([ed EXCEPT !.editing = ed.editing, !.replacing = TRUE])
            /\ InEditor /\ ed.doc # Nothing
        BY <2>2, <2>4 DEF AskToReplaceCode, Replaces
      <3>2. QED
        BY <1>3, <1>6, <3>1, ToggleAlters
    <2>5. CASE KeepEditing
      <3>1. /\ Drawn([ed EXCEPT !.editing = ed.editing, !.replacing = FALSE])
            /\ InEditor
        BY <2>2, <2>5 DEF KeepEditing
      <3>2. QED
        BY <1>3, <1>6, <3>1, ToggleAlters
    <2>6. QED
      BY <1>6, <2>3, <2>4, <2>5
  <1>7. CASE Open /\ EditMember
    BY <1>2, <1>7, TypeAlters DEF EditMember
  <1>8. CASE Open /\ (SaveMember \/ ConfirmReplacement)
    BY <1>1, <1>8, MemberSaveSends
  <1>9. CASE Open /\ AskToArchiveMember
    BY <1>9, AskAlters DEF AskToArchiveMember, Questions
  <1>10. CASE Open /\ ArchiveMember
    <2>1. ed.doc # Nothing
      BY <1>10 DEF ArchiveMember, IInv, EditorOK
    <2>2. QED
      BY <1>1, <1>2, <1>10, <2>1, SendSends DEF ArchiveMember
  <1>11. CASE Open /\ KeepMember
    BY <1>11, KeepAlters DEF KeepMember
  <1>12. CASE Open /\ ReloadMember
    BY <1>1, <1>2, <1>12, SendSends DEF ReloadMember
  <1>13. CASE Open /\ PickPhoto
    BY <1>13, PickPhotoAlters
  <1>14. CASE Open /\ ChangePhoto
    BY <1>1, <1>2, <1>14, SendSends DEF ChangePhoto
  <1>15. CASE Open /\ (RefreshMember \/ TakeRefreshed \/ UploadPicked)
    BY <1>1, <1>15, RefreshMemberGoesOn, TakeRefreshedTakes, UploadPickedGoesOn
  <1>16. CASE Open /\ (CloseOnSave \/ LosePicked \/ CloseOn("archive"))
    BY <1>1, <1>16, CloseOnLeaves, Bounds DEF CloseOnSave, LosePicked, Leaves, IInv, TypeOK
  <1>17. CASE Open /\ TakeReloaded({"save", "archive"}, {"archive"})
    BY <1>1, <1>17, TakeReloadedTakes
  <1>18. QED
    BY <1>4, <1>5, <1>6, <1>7, <1>8, <1>9, <1>10, <1>11, <1>12, <1>13, <1>14, <1>15, <1>16,
       <1>17 DEF MemberStep

(* A pair of the list is two members, without their scan codes.            *)
LEMMA RedactedIsKnown ==
    ASSUME IInv, screen # "members", NEW i \in Ids, listed[i] # Nothing
    PROVE  Redacted(listed[i]) \in Docs /\ Known(Redacted(listed[i])) /\ Redacted(listed[i]).id = i
  <1>1. listed[i] \in Docs /\ listed[i].id = i /\ Known(listed[i]) /\ "none" \in Values
    BY DEF IInv, TypeOK, ListOK, Values
  <1>2. QED
    BY <1>1 DEF Redacted, Known, Docs

(* A pair of duplicates is opened over two documents.                      *)
LEMMA OpenPairOpens == ASSUME IInv, screen = "duplicates", OpenPair PROVE Opens
  <1>1. PICK pair \in Candidates :
           ed' = [NewEditor(Redacted(listed[pair[1]]), "none", TRUE) EXCEPT
                     !.other = Redacted(listed[pair[2]])]
    BY DEF OpenPair
  <1>2. /\ pair[1] \in Ids /\ pair[2] \in Ids /\ pair[1] # pair[2]
        /\ listed[pair[1]] # Nothing /\ listed[pair[2]] # Nothing
    <2> DEFINE known == {i \in Ids : listed[i] # Nothing /\ listed[i].active}
    <2>1. pair \in known \X known /\ pair[1] < pair[2]
      BY DEF Candidates
    <2>2. pair[1] \in known /\ pair[2] \in known
      BY <2>1
    <2>3. pair[1] \in Nat /\ pair[2] \in Nat
      BY <2>2, IdsAreNumbers
    <2>4. QED
      BY <2>1, <2>2, <2>3
  <1> DEFINE k == Redacted(listed[pair[1]])
             l == Redacted(listed[pair[2]])
             n == NewEditor(k, "none", TRUE)
             e == [n EXCEPT !.other = l]
  <1>3. k \in Docs /\ Known(k) /\ l \in Docs /\ Known(l) /\ k.id # l.id
    BY <1>2, RedactedIsKnown
  <1> HIDE DEF k, l
  <1>4. k # Nothing /\ l # Nothing
    BY <1>3, NothingIsNoRecord
  <1>5. /\ n \in Editors /\ n.doc = k /\ n.other = Nothing /\ n.draft = drafts + 1
        /\ n.asked = {} /\ n.replacing = FALSE /\ n.picked = FALSE
        /\ \A op \in Ops : n.err[op] = "none"
        /\ n.basis = k.edits
    BY <1>3, <1>4, NewEditorFields
  <1> HIDE DEF n
  <1>6. /\ e \in Editors /\ e.doc = k /\ e.other = l /\ e.draft = n.draft
        /\ e.asked = n.asked /\ e.replacing = n.replacing /\ e.picked = n.picked
        /\ e.err = n.err /\ e.basis = n.basis
    BY <1>3, <1>5 DEF Editors
  <1>7. ed' = e
    BY <1>1 DEF k, l, n
  <1> HIDE DEF e
  <1>8. /\ ~Open /\ drafts < MaxDrafts[screen] /\ drafts' = drafts + 1
        /\ UNCHANGED <<screen, server, listed, wire, awaits, losses>>
    BY DEF OpenPair
  <1>9. QED
    BY <1>3, <1>4, <1>5, <1>6, <1>7, <1>8, NewEditorOpens

LEMMA ChooseKeeperAlters ==
    ASSUME IInv, screen = "duplicates", Open, ChooseKeeper
    PROVE  Alters
  <1>1. ed \in Editors /\ EditorOK(ed) /\ ed.doc # Nothing /\ ed.other # Nothing
    BY DEF IInv, EditorOK
  <1>2. PICK keeper \in {ed.doc, ed.other} :
           Drawn([ed EXCEPT !.doc = keeper,
                           !.other = IF keeper = ed.doc THEN ed.other ELSE ed.doc,
                           !.basis = keeper.edits, !.dirty = FALSE, !.asked = {},
                           !.err["merge"] = "none"])
    BY DEF ChooseKeeper
  <1> DEFINE loser == IF keeper = ed.doc THEN ed.other ELSE ed.doc
             e == [ed EXCEPT !.doc = keeper, !.other = loser, !.basis = keeper.edits,
                             !.dirty = FALSE, !.asked = {}, !.err["merge"] = "none"]
  <1>3. /\ keeper \in Docs /\ Known(keeper) /\ loser \in Docs /\ Known(loser)
        /\ keeper.id # loser.id /\ keeper.edits \in 0..MaxETag
        /\ keeper # Nothing /\ loser # Nothing
    BY <1>1, DocFields, Bounds, NothingIsNoRecord DEF EditorOK, Editors, Known
  <1>4. Drawn(e) /\ InEditor
    BY <1>2 DEF ChooseKeeper
  <1> HIDE DEF loser
  <1>5. /\ e \in Editors /\ e.doc = keeper /\ e.other = loser /\ e.basis = keeper.edits
        /\ e.asked = {} /\ e.draft = ed.draft /\ e.picked = ed.picked
        /\ e.replacing = ed.replacing /\ e.err["merge"] = "none"
        /\ \A op \in Ops \ {"merge"} : e.err[op] = ed.err[op]
    BY <1>1, <1>3 DEF Editors, Ops, Errors
  <1> HIDE DEF e
  <1>6. EditorOK(e)
    BY <1>1, <1>3, <1>5 DEF EditorOK, Ops
  <1>7. QED
    BY <1>1, <1>3, <1>4, <1>5, <1>6, Altered

LEMMA PickFieldAlters == ASSUME IInv, Open, PickField PROVE Alters
  <1> DEFINE e == [ed EXCEPT !.dirty = ~@]
  <1>1. ed \in Editors /\ EditorOK(ed)
    BY DEF IInv, EditorOK
  <1>2. /\ e \in Editors /\ e.asked = ed.asked /\ e.replacing = ed.replacing
        /\ e = [ed EXCEPT !.dirty = e.dirty, !.value = e.value, !.asked = e.asked,
                          !.editing = e.editing, !.replacing = e.replacing]
    BY <1>1 DEF Editors
  <1>3. Drawn(e) /\ InEditor
    BY DEF PickField
  <1> HIDE DEF e
  <1>4. QED
    BY <1>1, <1>2, <1>3, Reworded DEF EditorOK

(* A merge is sent over the two members as listed.                         *)
LEMMA MergeSends ==
    ASSUME IInv, screen = "duplicates", Open, Merge
    PROVE  \E r \in Requests : Sends("merge", r)
  <1> DEFINE q == Request("merge")
             r == [q EXCEPT !.agreed = ed.dirty, !.other = ed.other.id, !.otherTag = ed.other.etag]
  <1>1. /\ ed \in Editors /\ EditorOK(ed) /\ ed.doc # Nothing
        /\ ed.other \in Docs /\ Known(ed.other) /\ ed.doc.id # ed.other.id /\ ed.dirty \in BOOLEAN
    BY DEF IInv, EditorOK, Editors
  <1>2. /\ q \in Requests /\ q.op = "merge" /\ q.draft = drafts /\ q.refreshed = ed.refreshed
        /\ q.basis = ed.basis /\ q.id = ed.doc.id /\ q.id \in Ids /\ q.etag = ed.doc.etag
    BY <1>1, RequestOfEditor
  <1>3. ed.other.id \in Ids /\ ed.other.etag \in 0..MaxETag
    BY <1>1, DocFields, Bounds
  <1>4. Mutate("merge", r)
    BY DEF Merge
  <1> HIDE DEF q
  <1>5. /\ r \in Requests /\ r.op = "merge" /\ r.draft = drafts /\ r.refreshed = ed.refreshed
        /\ r.basis = ed.basis /\ r.id = ed.doc.id /\ r.id \in Ids /\ r.etag = ed.doc.etag
        /\ r.other = ed.other.id
    BY <1>1, <1>2, <1>3 DEF Requests
  <1> HIDE DEF r
  <1>6. SentOver(r)
    BY <1>1, <1>5, SentOverDoc
  <1>7. drafts \in Nat
    BY Bounds DEF IInv, TypeOK
  <1>8. RequestOK(r)
    BY <1>1, <1>3, <1>5, <1>6, <1>7 DEF RequestOK
  <1>9. "merge" \in Ops /\ r.op \in Verbs("merge") \ {"checkin"} /\ Drawn(ed)
    BY <1>5 DEF Ops, Verbs, Merge
  <1>10. QED
    BY <1>1, <1>4, <1>5, <1>8, <1>9, MutateSends

LEMMA DuplicateSteps == IInv /\ screen = "duplicates" /\ DuplicateStep => EditorStep
  <1> SUFFICES ASSUME IInv, screen = "duplicates", DuplicateStep
               PROVE  EditorStep
    OBVIOUS
  <1> USE DEF EditorStep
  <1>1. "merge" \in Ops
    BY DEF Ops
  <1>2. CASE OpenPair
    BY <1>2, OpenPairOpens
  <1>3. CASE CloseSheet(MergeBusy)
    BY <1>3, CloseSheetLeaves
  <1>4. CASE Open /\ (ChooseKeeper \/ PickField)
    BY <1>4, ChooseKeeperAlters, PickFieldAlters
  <1>5. CASE Open /\ (AskToMerge \/ BackFromMerge)
    BY <1>5, AskAlters, KeepAlters DEF AskToMerge, BackFromMerge, Questions
  <1>6. CASE Open /\ Merge
    BY <1>1, <1>6, MergeSends
  <1>7. CASE Open /\ CloseOn("merge")
    BY <1>1, <1>7, CloseOnLeaves
  <1>8. QED
    BY <1>2, <1>3, <1>4, <1>5, <1>6, <1>7 DEF DuplicateStep

LEMMA OpenRegistrationOpens == ASSUME IInv, screen = "register", OpenRegistration PROVE Opens
  <1>1. PICK session \in BOOLEAN :
           ed' = [NewEditor(Nothing, "none", TRUE) EXCEPT !.picked = session]
    BY DEF OpenRegistration
  <1> DEFINE n == NewEditor(Nothing, "none", TRUE)
             e == [n EXCEPT !.picked = session]
  <1>2. /\ n \in Editors /\ n.doc = Nothing /\ n.other = Nothing /\ n.draft = drafts + 1
        /\ n.asked = {} /\ n.replacing = FALSE
        /\ \A op \in Ops : n.err[op] = "none"
    BY NewEditorFields
  <1> HIDE DEF n
  <1>3. /\ e \in Editors /\ e.doc = n.doc /\ e.other = n.other /\ e.draft = n.draft
        /\ e.asked = n.asked /\ e.replacing = n.replacing /\ e.err = n.err
    BY <1>2 DEF Editors
  <1>4. ed' = e
    BY <1>1 DEF n
  <1> HIDE DEF e
  <1>5. /\ ~Open /\ drafts < MaxDrafts[screen] /\ drafts' = drafts + 1
        /\ UNCHANGED <<screen, server, listed, wire, awaits, losses>>
    BY DEF OpenRegistration
  <1>6. QED
    BY <1>2, <1>3, <1>4, <1>5, NewEditorOpens

LEMMA FillInAlters == ASSUME IInv, Open, FillIn PROVE Alters
  BY TypeAlters DEF FillIn, IInv, EditorOK, Editors

(* A registration goes on to the check-in.                                 *)
LEMMA CheckInRegisteredGoesOn ==
    ASSUME IInv, screen = "register", Open, CheckInRegistered
    PROVE  \E r \in Requests : GoesOn("save", r)
  <1> DEFINE d == Answer("save").doc
             q == Request("checkin")
             r == [q EXCEPT !.id = d.id]
  <1>1. /\ Succeeded("save") /\ ed.picked /\ GoOn("save", r) /\ "save" \in Ops
        /\ wire[awaits["save"]].request.op = "create"
    BY DEF CheckInRegistered, Ops
  <1>2. d \in Docs /\ d.id \in Ids
    BY <1>1, AnsweredDoc, DocFields DEF Documented
  <1>3. q \in Requests /\ q.op = "checkin" /\ q.draft = drafts
    BY RequestOfEditor
  <1>4. drafts \in Nat
    BY Bounds DEF IInv, TypeOK
  <1> HIDE DEF d, q
  <1>5. r \in Requests /\ r.op = "checkin" /\ r.draft = drafts /\ r.id = d.id
    BY <1>2, <1>3 DEF Requests
  <1> HIDE DEF r
  <1>6. RequestOK(r) /\ r.op \in Verbs("save") \ {"create", "put"}
    BY <1>2, <1>4, <1>5 DEF RequestOK, Verbs
  <1>7. QED
    BY <1>1, <1>5, <1>6 DEF GoesOn

LEMMA RegisterSteps == IInv /\ screen = "register" /\ RegisterStep => EditorStep
  <1> SUFFICES ASSUME IInv, screen = "register", RegisterStep
               PROVE  EditorStep
    OBVIOUS
  <1> USE DEF EditorStep
  <1>1. "save" \in Ops /\ "none" \in Values
    BY DEF Ops, Values
  <1>2. CASE OpenRegistration \/ CloseSheet(FALSE)
    BY <1>2, OpenRegistrationOpens, CloseSheetLeaves
  <1>3. CASE Open /\ FillIn
    BY <1>3, FillInAlters
  <1>4. CASE Open /\ Register
    BY <1>1, <1>4, SendSaveSends DEF Register
  <1>5. CASE Open /\ CheckInRegistered
    BY <1>1, <1>5, CheckInRegisteredGoesOn
  <1>6. CASE Open /\ ThankYou
    BY <1>1, <1>6, CloseOnLeaves DEF ThankYou
  <1>7. QED
    BY <1>2, <1>3, <1>4, <1>5, <1>6 DEF RegisterStep

LEMMA RefreshAlters == ASSUME IInv, screen = "update", Open, Refresh PROVE Alters
  <1> DEFINE d == docs[ed.doc.id]
             f == Refilled(d)
  <1>1. PICK dirty \in {FALSE, ed.dirty} : Drawn([f EXCEPT !.dirty = dirty])
    BY DEF Refresh
  <1> DEFINE e == [f EXCEPT !.dirty = dirty]
  <1>2. /\ ed \in Editors /\ EditorOK(ed) /\ ed.doc # Nothing /\ ed.doc.id \in Ids
        /\ ed.dirty \in BOOLEAN
    BY DocFields DEF IInv, EditorOK, Editors
  <1>3. d \in Docs /\ Known(d) /\ d # Nothing
    BY <1>2, StoredOpens, NothingIsNoRecord DEF Refresh
  <1>4. /\ f \in Editors /\ f.doc = d /\ f.basis = d.edits /\ f.other = ed.other
        /\ f.draft = ed.draft /\ f.picked = ed.picked /\ f.asked = ed.asked
        /\ f.replacing = ed.replacing /\ f.err = ed.err
    BY <1>3, RefilledFields
  <1> HIDE DEF f, d
  <1>5. /\ e \in Editors /\ e.doc = d /\ e.basis = d.edits /\ e.other = ed.other
        /\ e.draft = ed.draft /\ e.picked = ed.picked /\ e.asked = ed.asked
        /\ e.replacing = ed.replacing /\ e.err = ed.err
    BY <1>2, <1>4 DEF Editors
  <1>6. Drawn(e) /\ InEditor
    BY <1>1 DEF Refresh
  <1> HIDE DEF e
  <1>7. EditorOK(e)
    BY <1>2, <1>3, <1>5 DEF EditorOK
  <1>8. QED
    BY <1>2, <1>3, <1>5, <1>6, <1>7, Altered

LEMMA ReloadUpdateAlters == ASSUME IInv, screen = "update", Open, ReloadUpdate PROVE Alters
  <1> DEFINE e == [ed EXCEPT !.err["save"] = "none"]
  <1>1. ed \in Editors /\ EditorOK(ed) /\ ed.doc # Nothing
    BY DEF IInv, EditorOK
  <1>2. e = Began(ed, "save") /\ "save" \in Ops
    BY DEF Began, Ops
  <1> HIDE DEF e
  <1>3. /\ e \in Editors /\ EditorOK(e) /\ e.err["save"] = "none"
        /\ \A o \in Ops \ {"save"} : e.err[o] = ed.err[o]
        /\ e.doc = ed.doc /\ e.picked = ed.picked
    BY <1>2, BeganIsOK
  <1>4. Drawn(e) /\ InEditor /\ ed.err["save"] = "stale"
    BY DEF ReloadUpdate, e
  <1>5. awaits["save"] = 0
    BY <1>2, <1>4 DEF IInv, WaitsOK
  <1>6. QED
    BY <1>1, <1>3, <1>4, <1>5, Altered

LEMMA UpdateSteps == IInv /\ screen = "update" /\ UpdateStep => EditorStep
  <1> SUFFICES ASSUME IInv, screen = "update", UpdateStep
               PROVE  EditorStep
    OBVIOUS
  <1> USE DEF EditorStep
  <1>1. "save" \in Ops /\ "none" \in Values
    BY DEF Ops, Values
  <1>2. CASE OpenUpdate
    BY <1>2, StoredOpens, OpenEditorOpens, NothingIsNoRecord DEF OpenUpdate
  <1>3. CASE CloseSheet(FALSE)
    BY <1>3, CloseSheetLeaves
  <1>4. CASE Open /\ FillIn
    BY <1>4, FillInAlters
  <1>5. CASE Open /\ (Refresh \/ ReloadUpdate)
    BY <1>5, RefreshAlters, ReloadUpdateAlters
  <1>6. CASE Open /\ SaveUpdate
    BY <1>1, <1>6, SendSaveSends DEF SaveUpdate
  <1>7. CASE Open /\ CloseOn("save")
    BY <1>1, <1>7, CloseOnLeaves
  <1>8. QED
    BY <1>2, <1>3, <1>4, <1>5, <1>6, <1>7 DEF UpdateStep

(* Every step of every screen has one of the shapes.                       *)
LEMMA ScreenSteps == IInv /\ Screen => EditorStep
  BY GroupSteps, FieldSteps, UserSteps, ChurchSteps, EventSteps, SessionSteps, MemberSteps,
     DuplicateSteps, RegisterSteps, UpdateSteps DEF Screen
-----------------------------------------------------------------------------
(* The steps keep the invariant.                                           *)

(* Steps of the editor leave the documents, and what is known of them,     *)
(* alone.                                                                  *)
LEMMA DocsStay ==
    ASSUME IInv, UNCHANGED <<screen, server, listed>>, drafts' \in Nat, drafts <= drafts'
    PROVE  /\ DocsMove /\ DocsOK' /\ ListOK'
           /\ \A n \in Slots : wire'[n] = wire[n] => CallOK(n)'
           /\ \A r \in Requests : RequestOK(r) => RequestOK(r)'
  <1>1. DocsMove
    BY NothingMoves DEF IInv, server
  <1>2. drafts \in Nat /\ screen' = screen /\ docs' = docs /\ listed' = listed
    BY Bounds DEF IInv, TypeOK, server
  <1>3. ListOK'
    BY <1>2 DEF IInv, ListOK, Known, Stored
  <1>4. DocsOK'
    <2> SUFFICES ASSUME NEW i \in Ids, Stored(i)
                 PROVE  docs[i].id = i /\ Known(docs[i])' /\ docs[i].by <= drafts'
      BY <1>2 DEF DocsOK, Stored, Known
    <2>1. docs[i] \in Docs /\ docs[i].by \in Nat
      BY DocFields DEF IInv, TypeOK, Stored
    <2>2. QED
      BY <1>2, <2>1 DEF IInv, DocsOK, Known, Stored
  <1>5. QED
    BY <1>1, <1>2, <1>3, <1>4, CallStays, RequestStays DEF IInv, CallsOK

(* What is known of a call that is awaited.                                *)
LEMMA Waited ==
    ASSUME IInv, NEW op \in Ops, awaits[op] # 0
    PROVE  /\ awaits[op] \in Slots /\ Open
           /\ wire[awaits[op]] # Nothing /\ wire[awaits[op]] \in Calls
           /\ wire[awaits[op]].request \in Requests /\ RequestOK(wire[awaits[op]].request)
           /\ wire[awaits[op]].request.op \in Verbs(op)
           /\ \A o \in Ops : awaits[o] = awaits[op] => o = op
  BY Bounds DEF IInv, TypeOK, AwaitsOK, CallsOK, CallOK, Calls, Slots

LEMMA OpensKeeps == IInv /\ Opens => IInv'
  <1> SUFFICES ASSUME IInv, Opens
               PROVE  IInv'
    OBVIOUS
  <1>1. drafts \in Nat /\ drafts' = drafts + 1 /\ drafts' \in 0..MaxDrafts[screen]
    BY Bounds DEF IInv, TypeOK, Opens
  <1>2. DocsOK' /\ ListOK' /\ CallsOK'
    BY <1>1, DocsStay DEF Opens, CallsOK
  <1>3. \A op \in Ops : awaits'[op] = 0
    BY DEF Opens, IInv, AwaitsOK
  <1>4. TypeOK'
    BY <1>1 DEF Opens, IInv, TypeOK, EditorOK, server
  <1>5. AwaitsOK'
    BY <1>3 DEF AwaitsOK
  <1>6. WaitsOK'
    BY <1>3 DEF WaitsOK, Ops
  <1>7. ImagesOK'
    BY <1>3 DEF ImagesOK, Awaited, Slots
  <1>8. QED
    BY <1>2, <1>4, <1>5, <1>6, <1>7 DEF IInv, Opens

LEMMA AltersKeeps == IInv /\ Alters => IInv'
  <1> SUFFICES ASSUME IInv, Alters
               PROVE  IInv'
    OBVIOUS
  <1>1. /\ drafts \in Nat /\ drafts' = drafts /\ losses' = losses /\ screen' = screen
        /\ docs' = docs /\ images' = images /\ wire' = wire /\ awaits' = awaits
        /\ clock' = clock /\ listed' = listed
    BY Bounds DEF IInv, TypeOK, Alters, InEditor, counters, server
  <1>2. DocsOK' /\ ListOK' /\ CallsOK'
    BY <1>1, DocsStay DEF CallsOK, server
  <1>3. EditorOK(ed)' /\ ed' # Nothing /\ ed' \in Editors
    BY <1>1 DEF Alters, EditorOK, Known, Stored
  <1>4. TypeOK'
    BY <1>1, <1>3 DEF IInv, TypeOK
  <1>5. AwaitsOK'
    BY <1>1, <1>3 DEF IInv, AwaitsOK, Open
  <1>6. WaitsOK'
    BY <1>1, <1>3 DEF Alters, IInv, WaitsOK, EditorOK, Open, Ops
  <1>7. ImagesOK'
    BY <1>1 DEF IInv, ImagesOK, Awaited, UnderWay, ImageCall
  <1>8. QED
    BY <1>2, <1>3, <1>4, <1>5, <1>6, <1>7 DEF IInv

(* A call that is sent is not served yet.                                  *)
LEMMA CallIsSent ==
    ASSUME NEW r \in Requests
    PROVE  /\ Call(r) \in Calls /\ Call(r) # Nothing /\ Call(r).request = r
           /\ Call(r).phase = "sent"
  <1>1. Call(r) \in Calls
    BY Bounds DEF Call, Calls
  <1>2. QED
    BY <1>1, NothingIsNoRecord DEF Call

LEMMA Typed == IInv => TypeOK
  BY DEF IInv

(* A call that begins changes its slot only.                               *)
LEMMA NewCall ==
    ASSUME TypeOK, NEW m \in Slots, NEW r \in Requests, wire' = [wire EXCEPT ![m] = Call(r)]
    PROVE  /\ wire' \in [Slots -> Calls \cup {Nothing}]
           /\ wire'[m] # Nothing /\ wire'[m].request = r /\ wire'[m].phase = "sent"
           /\ \A n \in Slots \ {m} : wire'[n] = wire[n]
           /\ RequestOK(r)' => CallOK(m)'
           /\ UnderWay(m)' => r.op \in {"upload", "remove"}
           /\ ~ImageCall(m, {"stored", "retry"})'
  <1> DEFINE c == Call(r)
  <1>1. c \in Calls /\ c # Nothing /\ c.request = r /\ c.phase = "sent"
    BY CallIsSent
  <1>2. wire' = [wire EXCEPT ![m] = c] /\ wire \in [Slots -> Calls \cup {Nothing}]
    BY DEF TypeOK
  <1> HIDE DEF c
  <1>3. /\ wire' \in [Slots -> Calls \cup {Nothing}]
        /\ wire'[m] # Nothing /\ wire'[m].request = r /\ wire'[m].phase = "sent"
        /\ \A n \in Slots \ {m} : wire'[n] = wire[n]
    BY <1>1, <1>2
  <1>4. RequestOK(r)' => CallOK(m)'
    BY <1>3 DEF CallOK
  <1>5. /\ UnderWay(m)' => r.op \in {"upload", "remove"}
        /\ ~ImageCall(m, {"stored", "retry"})'
    BY <1>3 DEF UnderWay, ImageCall
  <1>6. QED
    BY <1>3, <1>4, <1>5

(* A call that stays as it is stays sound.                                 *)
LEMMA SameCall ==
    ASSUME NEW n \in Slots, wire'[n] = wire[n]
    PROVE  /\ UnderWay(n)' <=> UnderWay(n)
           /\ ImageCall(n, {"stored", "retry"})' <=> ImageCall(n, {"stored", "retry"})
  BY DEF UnderWay, ImageCall

(* One photo at a time: what is picked for a new member is uploaded before *)
(* there is an editor in which to change it.                               *)
LEMMA OneImageCall ==
    ASSUME IInv, NEW o \in Ops, NEW p \in Ops, o # p, awaits[o] # 0,
           wire[awaits[o]].request.op \in {"upload", "remove"}
    PROVE  /\ p = "photo" => ed.doc = Nothing
           /\ p = "save" => ~ed.picked
  <1>1. wire[awaits[o]].request.op \in Verbs(o) /\ RequestOK(wire[awaits[o]].request) /\ Open
    BY Waited
  <1>2. o \in {"save", "photo"}
    BY <1>1 DEF Verbs, Ops
  <1>3. screen = "members"
    BY <1>1 DEF RequestOK
  <1>4. EditorOK(ed) /\ WaitsOK
    BY <1>1 DEF IInv
  <1>5. CASE o = "save"
    <2>1. wire[awaits["save"]].request.op = "upload"
      BY <1>1, <1>5 DEF Verbs
    <2>2. QED
      BY <1>1, <1>3, <1>4, <1>5, <2>1 DEF EditorOK, WaitsOK
  <1>6. CASE o = "photo"
    BY <1>1, <1>3, <1>4, <1>6 DEF EditorOK, WaitsOK
  <1>7. QED
    BY <1>2, <1>5, <1>6

LEMMA SendsKeeps ==
    ASSUME IInv, NEW op \in Ops, NEW r \in Requests, Sends(op, r)
    PROVE  IInv'
  <1>1. PICK m \in Slots :
           /\ wire[m] = Nothing /\ awaits[op] = 0
           /\ wire' = [wire EXCEPT ![m] = Call(r)] /\ awaits' = [awaits EXCEPT ![op] = m]
    BY Freed DEF IInv, Sends, Mutate
  <1>2. /\ drafts \in Nat /\ drafts' = drafts /\ losses' = losses /\ screen' = screen
        /\ docs' = docs /\ images' = images /\ clock' = clock /\ listed' = listed
        /\ awaits \in [Ops -> 0..MaxCalls]
    BY Bounds DEF IInv, TypeOK, Sends, Mutate, counters, server
  <1>20. m \in 0..MaxCalls /\ m # 0
    BY <1>1, Bounds DEF Slots
  <1>3. /\ wire'[m] # Nothing /\ wire'[m].request = r
        /\ \A n \in Slots \ {m} : wire'[n] = wire[n]
        /\ wire' \in [Slots -> Calls \cup {Nothing}]
        /\ awaits'[op] = m /\ \A o \in Ops \ {op} : awaits'[o] = awaits[o]
        /\ awaits' \in [Ops -> 0..MaxCalls]
    BY <1>1, <1>2, <1>20, NewCall, Typed
  <1>4. /\ DocsOK' /\ ListOK' /\ RequestOK(r)'
        /\ \A n \in Slots : wire'[n] = wire[n] => CallOK(n)'
    BY <1>2, DocsStay DEF Sends, server
  <1>5. CallsOK'
    <2>1. CallOK(m)'
      BY <1>1, <1>4, NewCall, Typed
    <2>2. QED
      BY <1>3, <1>4, <2>1 DEF CallsOK
  <1>6. EditorOK(ed)' /\ ed' # Nothing /\ ed' \in Editors
    BY <1>2 DEF Sends, EditorOK, Known, Stored
  <1>7. TypeOK'
    BY <1>2, <1>3, <1>6 DEF IInv, TypeOK
  <1>8. \A o \in Ops : awaits[o] # 0 => awaits[o] \in Slots /\ awaits[o] # m /\ o # op
    BY <1>1, Waited
  <1>9. AwaitsOK'
    <2>1. \A o \in Ops : awaits'[o] # 0 =>
             wire'[awaits'[o]] # Nothing /\ wire'[awaits'[o]].request.op \in Verbs(o)
      <3> TAKE o \in Ops
      <3>1. CASE o = op
        BY <1>3, <3>1 DEF Sends
      <3>2. CASE o # op
        BY <1>3, <1>8, <3>2, Waited
      <3>3. QED
        BY <3>1, <3>2
    <2>2. \A o, p \in Ops : awaits'[o] # 0 /\ awaits'[o] = awaits'[p] => o = p
      BY <1>3, <1>8 DEF IInv, AwaitsOK
    <2>3. QED
      BY <1>6, <2>1, <2>2 DEF AwaitsOK, Open
  <1>10. WaitsOK'
    <2>1. \A o \in Ops \ {"merge"} : awaits'[o] # 0 => ed'.err[o] = "none"
      BY <1>3 DEF Sends, IInv, WaitsOK
    <2>2. awaits'["reload"] # 0 \/ awaits'["photo"] # 0 => ed'.doc # Nothing
      BY <1>3 DEF Sends, IInv, WaitsOK, Ops
    <2>3. awaits'["save"] # 0 =>
               LET q == wire'[awaits'["save"]].request IN
               /\ q.op \in {"upload", "checkin"} => ed'.picked
               /\ ed'.doc = Nothing => q.op # "put"
               /\ q.op = "create" => q.draft = ed'.draft
      <3>1. ed'.draft = ed.draft /\ "save" \in Ops
        BY <1>2, <1>6 DEF Sends, EditorOK, IInv, Ops
      <3>2. CASE op = "save"
        BY <1>3, <3>1, <3>2 DEF Sends
      <3>3. CASE op # "save"
        BY <1>3, <1>8, <3>1, <3>3 DEF Sends, IInv, WaitsOK
      <3>4. QED
        BY <3>2, <3>3
    <2>4. QED
      BY <2>1, <2>2, <2>3 DEF WaitsOK
  <1>11. ImagesOK'
    <2> SUFFICES ASSUME NEW n \in Slots, ImageCall(n, {"stored", "retry"})', wire'[n].alone,
                        Awaited(n)'
                 PROVE  /\ wire'[n].request.id \in images' <=> wire'[n].request.op = "upload"
                        /\ \A k \in Slots \ {n} : ~UnderWay(k)'
      BY DEF ImagesOK
    <2>1. n # m /\ wire'[n] = wire[n]
      BY <1>1, <1>3, NewCall, Typed
    <2>2. ImageCall(n, {"stored", "retry"}) /\ wire[n].alone
      BY <2>1 DEF ImageCall
    <2>3. PICK o \in Ops : awaits[o] = n
      BY <1>3, <2>1 DEF Awaited
    <2>4. /\ wire[n].request.id \in images <=> wire[n].request.op = "upload"
          /\ \A k \in Slots \ {n} : ~UnderWay(k)
      BY <2>2, <2>3 DEF IInv, ImagesOK, Awaited
    <2>5. ~UnderWay(m)'
      <3> SUFFICES ASSUME r.op \in {"upload", "remove"}
                   PROVE  FALSE
        BY <1>1, NewCall, Typed
      <3>1. op = "photo" /\ ed.doc # Nothing
        BY DEF Sends
      <3>2. o # op /\ wire[awaits[o]].request.op \in {"upload", "remove"} /\ awaits[o] # 0
        BY <1>8, <2>2, <2>3 DEF ImageCall, Slots
      <3>3. QED
        BY <3>1, <3>2, OneImageCall
    <2>6. QED
      BY <1>2, <1>3, <2>1, <2>4, <2>5, SameCall
  <1>12. QED
    BY <1>4, <1>5, <1>6, <1>7, <1>9, <1>10, <1>11 DEF IInv

LEMMA GoesOnKeeps ==
    ASSUME IInv, NEW op \in Ops, NEW r \in Requests, GoesOn(op, r)
    PROVE  IInv'
  <1>1. PICK m \in Slots :
           /\ m = awaits[op] /\ m # 0 /\ wire[m].phase = "served" /\ awaits' = awaits
           /\ wire' = [wire EXCEPT ![m] = Call(r)]
           /\ \A o \in Ops : awaits[o] = m => o = op
    BY Waited DEF GoesOn, GoOn, Succeeded, Answered
  <1>2. /\ drafts \in Nat /\ drafts' = drafts /\ losses' = losses /\ screen' = screen
        /\ docs' = docs /\ images' = images /\ clock' = clock /\ listed' = listed /\ ed' = ed
    BY Bounds DEF IInv, TypeOK, GoesOn, GoOn, counters, server
  <1>3. /\ wire'[m] # Nothing /\ wire'[m].request = r
        /\ \A n \in Slots \ {m} : wire'[n] = wire[n]
        /\ wire' \in [Slots -> Calls \cup {Nothing}]
    BY <1>1, NewCall, Typed
  <1>4. /\ DocsOK' /\ ListOK' /\ RequestOK(r)'
        /\ \A n \in Slots : wire'[n] = wire[n] => CallOK(n)'
    BY <1>2, DocsStay DEF GoesOn, server
  <1>5. CallsOK'
    <2>1. CallOK(m)'
      BY <1>1, <1>4, NewCall, Typed
    <2>2. QED
      BY <1>3, <1>4, <2>1 DEF CallsOK
  <1>6. Open' /\ EditorOK(ed)'
    BY <1>2 DEF GoesOn, IInv, EditorOK, Known, Stored, Open
  <1>7. TypeOK'
    BY <1>1, <1>2, <1>3 DEF IInv, TypeOK
  <1>8. \A o \in Ops : awaits[o] # 0 => awaits[o] \in Slots /\ (awaits[o] = m <=> o = op)
    BY <1>1, Waited
  <1>9. AwaitsOK'
    <2>1. \A o \in Ops : awaits[o] # 0 =>
             wire'[awaits[o]] # Nothing /\ wire'[awaits[o]].request.op \in Verbs(o)
      <3> TAKE o \in Ops
      <3>1. CASE o = op
        BY <1>3, <1>8, <3>1 DEF GoesOn
      <3>2. CASE o # op
        BY <1>3, <1>8, <3>2, Waited
      <3>3. QED
        BY <3>1, <3>2
    <2>2. QED
      BY <1>1, <1>6, <2>1 DEF IInv, AwaitsOK
  <1>10. WaitsOK'
    <2>1. awaits["save"] # 0 =>
               LET q == wire'[awaits["save"]].request IN
               /\ q.op \in {"upload", "checkin"} => ed.picked
               /\ ed.doc = Nothing => q.op # "put"
               /\ q.op = "create" => q.draft = ed.draft
      <3>1. "save" \in Ops
        BY DEF Ops
      <3>2. CASE op = "save"
        BY <1>3, <1>8, <3>1, <3>2 DEF GoesOn
      <3>3. CASE op # "save"
        BY <1>3, <1>8, <3>1, <3>3 DEF GoesOn, IInv, WaitsOK
      <3>4. QED
        BY <3>2, <3>3
    <2>2. QED
      BY <1>1, <1>2, <2>1 DEF IInv, WaitsOK, GoesOn
  <1>11. ImagesOK'
    <2> SUFFICES ASSUME NEW n \in Slots, ImageCall(n, {"stored", "retry"})', wire'[n].alone,
                        Awaited(n)'
                 PROVE  /\ wire'[n].request.id \in images' <=> wire'[n].request.op = "upload"
                        /\ \A k \in Slots \ {n} : ~UnderWay(k)'
      BY DEF ImagesOK
    <2>1. n # m /\ wire'[n] = wire[n]
      BY <1>1, <1>3, NewCall, Typed
    <2>2. ImageCall(n, {"stored", "retry"}) /\ wire[n].alone
      BY <2>1 DEF ImageCall
    <2>3. PICK o \in Ops : awaits[o] = n
      BY <1>1, <2>1 DEF Awaited
    <2>4. /\ wire[n].request.id \in images <=> wire[n].request.op = "upload"
          /\ \A k \in Slots \ {n} : ~UnderWay(k)
      BY <2>2, <2>3 DEF IInv, ImagesOK, Awaited
    <2>5. ~UnderWay(m)'
      <3> SUFFICES ASSUME r.op \in {"upload", "remove"}
                   PROVE  FALSE
        BY <1>1, NewCall, Typed
      <3>1. op = "save" /\ ed.picked
        BY DEF GoesOn
      <3>2. o # op /\ wire[awaits[o]].request.op \in {"upload", "remove"} /\ awaits[o] # 0
        BY <1>1, <2>1, <2>2, <2>3 DEF ImageCall, Slots
      <3>3. QED
        BY <3>1, <3>2, OneImageCall
    <2>6. QED
      BY <1>2, <1>3, <2>1, <2>4, <2>5, SameCall
  <1>12. QED
    BY <1>4, <1>5, <1>6, <1>7, <1>9, <1>10, <1>11 DEF IInv

(* The end of a mutation keeps the invariant.                              *)
LEMMA EndsKeeps ==
    ASSUME IInv, NEW op, Ends(op)
    PROVE  IInv'
  <1>1. PICK m \in Slots :
           /\ m = awaits[op] /\ m # 0 /\ op \in Ops
           /\ wire' = [wire EXCEPT ![m] = Nothing] \/ wire' = wire
           /\ \A o \in Ops : awaits[o] = m => o = op
    BY Waited DEF Ends
  <1>2. /\ drafts \in Nat /\ drafts' = drafts /\ screen' = screen
        /\ docs' = docs /\ images' = images /\ clock' = clock /\ listed' = listed
        /\ wire \in [Slots -> Calls \cup {Nothing}] /\ awaits \in [Ops -> 0..MaxCalls]
    BY Bounds DEF IInv, TypeOK, Ends, counters, server
  <1>3. /\ wire' \in [Slots -> Calls \cup {Nothing}]
        /\ \A n \in Slots : wire'[n] = wire[n] \/ (n = m /\ wire'[n] = Nothing)
    BY <1>1, <1>2
  <1>4. /\ awaits'[op] = 0 /\ \A o \in Ops \ {op} : awaits'[o] = awaits[o]
        /\ awaits' \in [Ops -> 0..MaxCalls]
    BY <1>1, <1>2, Bounds DEF Ends
  <1>5. /\ DocsOK' /\ ListOK'
        /\ \A n \in Slots : wire'[n] = wire[n] => CallOK(n)'
    BY <1>2, DocsStay DEF Ends, server
  <1>6. CallsOK'
    BY <1>3, <1>5 DEF CallsOK, CallOK
  <1>7. Open' /\ EditorOK(ed)' /\ ed' \in Editors /\ losses' \in 0..MaxLosses
    BY DEF Ends, EditorOK, Open
  <1>8. TypeOK'
    BY <1>2, <1>3, <1>4, <1>7 DEF IInv, TypeOK
  <1>9. \A o \in Ops : awaits'[o] # 0 =>
           /\ awaits'[o] = awaits[o] /\ o # op /\ awaits[o] \in Slots
           /\ wire'[awaits'[o]] = wire[awaits[o]]
    BY <1>1, <1>3, <1>4, Waited
  <1>10. AwaitsOK'
    BY <1>7, <1>9 DEF IInv, AwaitsOK
  <1>11. WaitsOK'
    <2>1. "save" \in Ops /\ "reload" \in Ops /\ "photo" \in Ops
      BY DEF Ops
    <2>2. ed'.draft = ed.draft /\ ed'.picked = ed.picked /\ (ed.doc # Nothing => ed'.doc # Nothing)
      BY <1>2, <1>7 DEF Ends, EditorOK, IInv
    <2>3. \A o \in Ops \ {"merge"} : awaits'[o] # 0 => ed'.err[o] = "none"
      BY <1>9 DEF Ends, IInv, WaitsOK
    <2>4. awaits'["reload"] # 0 \/ awaits'["photo"] # 0 => ed'.doc # Nothing
      BY <1>9, <2>1, <2>2 DEF Ends, IInv, WaitsOK
    <2>5. awaits'["save"] # 0 =>
               LET q == wire'[awaits'["save"]].request IN
               /\ q.op \in {"upload", "checkin"} => ed'.picked
               /\ ed'.doc = Nothing => q.op # "put"
               /\ q.op = "create" => q.draft = ed'.draft
      BY <1>9, <2>1, <2>2 DEF Ends, IInv, WaitsOK
    <2>6. QED
      BY <2>3, <2>4, <2>5 DEF WaitsOK
  <1>12. ImagesOK'
    <2> SUFFICES ASSUME NEW n \in Slots, ImageCall(n, {"stored", "retry"})', wire'[n].alone,
                        Awaited(n)'
                 PROVE  /\ wire'[n].request.id \in images' <=> wire'[n].request.op = "upload"
                        /\ \A k \in Slots \ {n} : ~UnderWay(k)'
      BY DEF ImagesOK
    <2>1. wire'[n] = wire[n]
      BY <1>3 DEF ImageCall
    <2>2. ImageCall(n, {"stored", "retry"}) /\ wire[n].alone
      BY <2>1, SameCall
    <2>3. Awaited(n)
      BY <1>9 DEF Awaited, Slots
    <2>4. /\ wire[n].request.id \in images <=> wire[n].request.op = "upload"
          /\ \A k \in Slots \ {n} : ~UnderWay(k)
      BY <2>2, <2>3 DEF IInv, ImagesOK
    <2>5. \A k \in Slots : UnderWay(k)' => wire'[k] = wire[k]
      BY <1>3 DEF UnderWay, ImageCall
    <2>6. QED
      BY <1>2, <2>1, <2>4, <2>5, SameCall
  <1>13. QED
    BY <1>5, <1>6, <1>7, <1>8, <1>10, <1>11, <1>12 DEF IInv

(* Taking an answer, failing and giving up end a mutation.                 *)
LEMMA TakesEnds ==
    ASSUME IInv, NEW op \in Ops, Takes(op)
    PROVE  Ends(op)
  <1>1. /\ drafts' = drafts /\ losses' = losses /\ screen' = screen /\ docs' = docs
        /\ images' = images /\ clock' = clock /\ listed' = listed /\ losses \in 0..MaxLosses
    BY DEF Takes, HangUp, counters, server, IInv, TypeOK
  <1>2. EditorOK(ed)'
    BY <1>1 DEF Takes, EditorOK, Known, Stored
  <1>3. QED
    BY <1>1, <1>2 DEF Takes, Ends, HangUp, Succeeded, Answered, counters, server

(* What a mutation that failed leaves of its editor.                       *)
LEMMA FailedFields ==
    ASSUME IInv, Open, NEW op \in Ops, NEW error \in Errors
    PROVE  LET e == Failed(op, error) IN
           /\ e \in Editors /\ e.doc = ed.doc /\ e.other = ed.other /\ e.basis = ed.basis
           /\ e.draft = ed.draft /\ e.picked = ed.picked /\ e.asked \subseteq ed.asked
           /\ e.replacing = ed.replacing /\ e.refreshed = ed.refreshed
           /\ e.err[op] = error /\ \A o \in Ops \ {op} : e.err[o] = ed.err[o]
  BY DEF Failed, IInv, EditorOK, Editors

LEMMA FailEnds ==
    ASSUME IInv, NEW op \in Ops, Fail(op)
    PROVE  Ends(op) /\ \A o \in Ops \ {op} : ed'.err[o] = ed.err[o]
  <1> DEFINE s == Answer(op).status
             e == Failed(op, s)
  <1>1. Open /\ awaits[op] # 0 /\ ed \in Editors /\ EditorOK(ed)
    BY Waited DEF Fail, Answered, IInv, EditorOK
  <1>2. s \in {"stale", "refused"} /\ (op = "generate" => s # "stale")
    <2>1. /\ wire[awaits[op]] \in Calls /\ CallOK(awaits[op]) /\ awaits[op] \in Slots
          /\ wire[awaits[op]].phase = "served" /\ wire[awaits[op]] # Nothing
          /\ wire[awaits[op]].request.op \in Verbs(op)
      BY <1>1, Waited DEF IInv, CallsOK, Fail, Answered
    <2>2. s \in {"ok", "stale", "refused"} /\ s # "ok"
      BY <2>1 DEF CallOK, Calls, Replies, Fail, Answer
    <2>3. QED
      BY <2>1, <2>2 DEF CallOK, Verbs, Answer
  <1>3. /\ e \in Editors /\ e.doc = ed.doc /\ e.other = ed.other /\ e.basis = ed.basis
        /\ e.draft = ed.draft /\ e.picked = ed.picked /\ e.asked \subseteq ed.asked
        /\ e.replacing = ed.replacing /\ e.refreshed = ed.refreshed
        /\ e.err[op] = s /\ \A o \in Ops \ {op} : e.err[o] = ed.err[o]
    BY <1>1, <1>2, FailedFields DEF Errors
  <1>4. Drawn(e) /\ HangUp(op)
    BY DEF Fail
  <1> HIDE DEF e, s
  <1>5. EditorOK(e)
    BY <1>1, <1>2, <1>3 DEF EditorOK, Ops
  <1>6. /\ EditorOK(ed') /\ ed' # Nothing /\ ed'.err = e.err /\ ed'.doc = e.doc
        /\ ed'.picked = e.picked
    BY <1>3, <1>4, <1>5, DrawnIsOK, DrawnFields, NothingIsNoRecord DEF IInv
  <1>7. /\ drafts' = drafts /\ losses' = losses /\ screen' = screen /\ docs' = docs
        /\ images' = images /\ clock' = clock /\ listed' = listed /\ losses \in 0..MaxLosses
    BY <1>4 DEF HangUp, counters, server, IInv, TypeOK
  <1>8. EditorOK(ed)'
    BY <1>6, <1>7 DEF EditorOK, Known, Stored
  <1>9. losses <= losses'
    BY <1>7, Bounds
  <1>10. QED
    BY <1>1, <1>2, <1>3, <1>4, <1>6, <1>7, <1>8, <1>9 DEF Ends, HangUp, server

LEMMA GiveUpEnds ==
    ASSUME IInv, NEW op \in Ops, GiveUp(op)
    PROVE  /\ Ends(op) /\ ed'.err[op] = "uncertain"
           /\ \A o \in Ops \ {op} : ed'.err[o] = ed.err[o]
  <1> DEFINE e == Failed(op, "uncertain")
  <1>1. Open /\ awaits[op] # 0 /\ ed \in Editors /\ EditorOK(ed)
    BY Waited DEF GiveUp, IInv, EditorOK
  <1>2. /\ e \in Editors /\ e.doc = ed.doc /\ e.other = ed.other /\ e.basis = ed.basis
        /\ e.draft = ed.draft /\ e.picked = ed.picked /\ e.asked \subseteq ed.asked
        /\ e.replacing = ed.replacing /\ e.refreshed = ed.refreshed
        /\ e.err[op] = "uncertain" /\ \A o \in Ops \ {op} : e.err[o] = ed.err[o]
    BY <1>1, FailedFields DEF Errors
  <1>3. Drawn(e)
    BY DEF GiveUp
  <1> HIDE DEF e
  <1>4. /\ drafts' = drafts /\ losses' = losses + 1 /\ screen' = screen /\ docs' = docs
        /\ images' = images /\ clock' = clock /\ listed' = listed
        /\ losses' \in 0..MaxLosses /\ losses' # 0 /\ losses <= losses'
    BY Bounds DEF GiveUp, server, IInv, TypeOK
  <1>5. /\ ed' \in Editors /\ ed'.doc = e.doc /\ ed'.other = e.other /\ ed'.basis = e.basis
        /\ ed'.draft = e.draft /\ ed'.err = e.err /\ ed'.picked = e.picked
        /\ ed'.asked = e.asked /\ ed'.replacing = e.replacing
        /\ ed'.refreshed = e.refreshed /\ ed' # Nothing
    BY <1>2, <1>3, DrawnFields, NothingIsNoRecord DEF IInv
  <1>6. EditorOK(ed)'
    BY <1>1, <1>2, <1>4, <1>5 DEF EditorOK, Known, Stored, Ops
  <1>7. QED
    BY <1>1, <1>2, <1>4, <1>5, <1>6 DEF Ends, GiveUp, server

LEMMA LeavesKeeps == IInv /\ Leaves => IInv'
  <1> SUFFICES ASSUME IInv, Leaves
               PROVE  IInv'
    OBVIOUS
  <1>1. /\ drafts \in Nat /\ drafts' = drafts /\ screen' = screen
        /\ docs' = docs /\ images' = images /\ clock' = clock /\ listed' = listed
        /\ wire \in [Slots -> Calls \cup {Nothing}] /\ losses' \in 0..MaxLosses
    BY Bounds DEF IInv, TypeOK, Leaves, Close, server
  <1>2. /\ wire' \in [Slots -> Calls \cup {Nothing}]
        /\ \A n \in Slots : wire'[n] = wire[n] \/ wire'[n] = Nothing
    BY <1>1 DEF Leaves, Close
  <1>3. /\ awaits' \in [Ops -> 0..MaxCalls] /\ \A op \in Ops : awaits'[op] = 0
        /\ ed' = Nothing /\ ~Open'
    BY Bounds DEF Leaves, Close, Open
  <1>4. /\ DocsOK' /\ ListOK'
        /\ \A n \in Slots : wire'[n] = wire[n] => CallOK(n)'
    BY <1>1, DocsStay DEF server
  <1>5. CallsOK'
    BY <1>2, <1>4 DEF CallsOK, CallOK
  <1>6. TypeOK'
    BY <1>1, <1>2, <1>3 DEF IInv, TypeOK
  <1>7. AwaitsOK' /\ WaitsOK'
    BY <1>3 DEF AwaitsOK, WaitsOK
  <1>8. ImagesOK'
    BY <1>3 DEF ImagesOK, Awaited, Slots
  <1>9. QED
    BY <1>3, <1>4, <1>5, <1>6, <1>7, <1>8 DEF IInv

LEMMA RefetchKeeps == IInv /\ Refetch => IInv'
  <1> SUFFICES ASSUME IInv, Refetch
               PROVE  IInv'
    OBVIOUS
  <1>1. /\ listed' = docs /\ ed' = ed /\ drafts' = drafts /\ losses' = losses
        /\ screen' = screen /\ docs' = docs /\ images' = images /\ clock' = clock
        /\ wire' = wire /\ awaits' = awaits
    BY DEF Refetch, counters, server
  <1>2. TypeOK' /\ DocsOK' /\ ListOK' /\ CallsOK' /\ AwaitsOK'
    <2>1. TypeOK'
      BY <1>1 DEF IInv, TypeOK
    <2>2. DocsOK' /\ ListOK'
      BY <1>1 DEF IInv, DocsOK, ListOK, Known, Stored
    <2>3. CallsOK'
      <3>1. DocsMove /\ drafts \in Nat /\ drafts' \in Nat /\ drafts <= drafts'
        BY <1>1, NothingMoves, Bounds DEF IInv, TypeOK
      <3>2. QED
        BY <1>1, <3>1, CallStays DEF IInv, CallsOK
    <2>4. AwaitsOK'
      BY <1>1 DEF IInv, AwaitsOK, Open
    <2>5. QED
      BY <2>1, <2>2, <2>3, <2>4
  <1>3. ~Open' /\ WaitsOK'
    BY <1>1 DEF Refetch, WaitsOK, Open
  <1>4. ImagesOK'
    BY <1>1 DEF IInv, ImagesOK, Awaited, UnderWay, ImageCall
  <1>5. QED
    BY <1>2, <1>3, <1>4 DEF IInv
-----------------------------------------------------------------------------
(* The server keeps the invariant.                                         *)

(* What may become of a document in one step.                              *)
Edited(i) ==
    /\ Stored(i) /\ docs'[i] \in Docs /\ docs'[i].id = i /\ docs'[i].by = docs[i].by
    /\ docs'[i].etag = docs[i].etag + 1
    /\ \/ docs'[i].edits = docs[i].edits + 1
       \/ screen = "members" /\ docs'[i].edits = docs[i].edits

CreatedNow(i) ==
    /\ ~Stored(i) /\ docs'[i] \in Docs /\ docs'[i].id = i
    /\ docs'[i].etag = 1 /\ docs'[i].edits = 1 /\ docs'[i].by <= drafts

PurgedNow(i) == screen # "members" /\ docs'[i] = Nothing

(* One document changes, to a newer version or to none.                    *)
LEMMA DocsChange ==
    ASSUME IInv, screen' = screen, drafts' = drafts, docs' \in [Ids -> Docs \cup {Nothing}],
           \A i \in Ids : docs'[i] = docs[i] \/ Edited(i) \/ CreatedNow(i) \/ PurgedNow(i)
    PROVE  DocsMove /\ DocsOK'
  <1>1. \A i \in Ids : Stored(i) =>
            /\ docs[i] \in Docs /\ docs[i].id = i /\ docs[i].by <= drafts
            /\ docs[i].etag \in Nat /\ docs[i].edits \in Nat
            /\ docs[i].edits <= docs[i].etag
            /\ screen # "members" => docs[i].edits = docs[i].etag
    BY DocFields DEF IInv, TypeOK, DocsOK, Known, Stored
  <1>2. ASSUME NEW i \in Ids, Stored(i)'
        PROVE  /\ docs'[i] \in Docs /\ docs'[i].id = i /\ docs'[i].edits <= docs'[i].etag
               /\ docs'[i].by <= drafts
               /\ screen # "members" => docs'[i].edits = docs'[i].etag
    <2>1. docs'[i] # Nothing
      BY <1>2 DEF Stored
    <2>2. CASE docs'[i] = docs[i]
      BY <1>1, <2>1, <2>2 DEF Stored
    <2>3. CASE Edited(i)
      BY <1>1, <2>3 DEF Edited
    <2>4. CASE CreatedNow(i)
      BY <2>4 DEF CreatedNow
    <2>5. QED
      BY <1>2, <2>1, <2>2, <2>3, <2>4 DEF PurgedNow
  <1>3. ASSUME screen = "members", NEW i \in Ids, Stored(i)
        PROVE  Stored(i)' /\ (docs'[i] = docs[i] \/ docs[i].etag < docs'[i].etag)
    <2>1. CASE Edited(i)
      BY <1>1, <1>3, <2>1, NothingIsNoRecord DEF Edited, Stored
    <2>2. QED
      BY <1>3, <2>1 DEF CreatedNow, PurgedNow, Stored
  <1>4. DocsMove
    BY <1>2, <1>3 DEF DocsMove
  <1>5. DocsOK'
    <2> SUFFICES ASSUME NEW i \in Ids, Stored(i)'
                 PROVE  docs'[i].id = i /\ Known(docs[i])' /\ docs'[i].by <= drafts'
      BY DEF DocsOK
    <2>1. docs'[i].id \in Ids /\ docs'[i].etag \in Nat
      BY <1>2, DocFields
    <2>2. QED
      BY <1>2, <2>1 DEF Known, Stored
  <1>6. QED
    BY <1>4, <1>5

(* A step of the server, or of others, under an editor.                    *)
LEMMA ServedKeeps ==
    ASSUME IInv, DocsMove, DocsOK', UNCHANGED <<screen, listed, ed, awaits, counters>>,
           clock' \in Clocks, images' \subseteq Ids,
           wire' \in [Slots -> Calls \cup {Nothing}], CallsOK', ImagesOK',
           \A n \in Slots : wire[n] # Nothing /\ Awaited(n) =>
               wire'[n] # Nothing /\ wire'[n].request = wire[n].request
    PROVE  IInv'
  <1>1. /\ screen' = screen /\ listed' = listed /\ ed' = ed /\ awaits' = awaits
        /\ drafts' = drafts /\ losses' = losses
    BY DEF counters
  <1>2. TypeOK'
    BY <1>1 DEF IInv, TypeOK, DocsMove
  <1>3. ListOK'
    <2>1. \A i \in Ids : listed[i] # Nothing => listed[i] \in Docs /\ Known(listed[i])'
      BY KnownStays DEF IInv, TypeOK, ListOK
    <2>2. QED
      BY <1>1, <2>1 DEF IInv, ListOK, Known
  <1>4. Open' => EditorOK(ed)'
    <2> SUFFICES ASSUME Open
                 PROVE  EditorOK(ed)'
      BY <1>1 DEF Open
    <2>1. \A e \in Editors : EditorOK(e) => EditorOK(e)'
      BY <1>1, EditorStays DEF IInv
    <2>2. ed \in Editors /\ EditorOK(ed)
      BY DEF IInv, EditorOK
    <2>3. QED
      BY <1>1, <2>1, <2>2 DEF EditorOK, Known
  <1>5. \A op \in Ops : awaits[op] # 0 =>
           /\ awaits[op] \in Slots /\ wire[awaits[op]] # Nothing /\ wire'[awaits[op]] # Nothing
           /\ wire'[awaits[op]].request = wire[awaits[op]].request
    BY Waited DEF Awaited
  <1>6. AwaitsOK'
    BY <1>1, <1>5 DEF IInv, AwaitsOK, Open
  <1>7. WaitsOK'
    BY <1>1, <1>5 DEF IInv, WaitsOK, Open, Ops
  <1>8. QED
    BY <1>2, <1>3, <1>4, <1>6, <1>7 DEF IInv

(* An answered call is awaited no longer by the server.                    *)
LEMMA ReplyKeeps ==
    ASSUME IInv, DocsMove, DocsOK', UNCHANGED <<screen, clock, listed, ed, awaits, counters>>,
           NEW n \in Slots, wire[n] # Nothing,
           images' \subseteq Ids, images' = images \/ UnderWay(n),
           NEW s \in {"ok", "stale", "refused"}, NEW d \in Docs \cup {Nothing}, Reply(n, s, d),
           d # Nothing => Known(d)',
           s = "ok" /\ Documented(wire[n].request) => d # Nothing,
           wire[n].request.op \in {"create", "get", "generate"} => s # "stale"
    PROVE  IInv'
  <1>1. /\ wire \in [Slots -> Calls \cup {Nothing}] /\ wire[n] \in Calls /\ clock \in Clocks
        /\ wire[n].request \in Requests /\ RequestOK(wire[n].request)
    BY DEF IInv, TypeOK, CallsOK, CallOK, Calls
  <1>2. /\ drafts \in Nat /\ drafts' = drafts /\ screen' = screen /\ awaits' = awaits
        /\ clock' = clock
    BY Bounds DEF IInv, TypeOK, counters
  <1>4. PICK a \in Replies : a = [status |-> s, doc |-> d]
    BY DEF Replies
  <1>40. a # Nothing /\ a.status = s /\ a.doc = d
    BY <1>4, NothingIsNoRecord
  <1>5. PICK c \in Calls : c = [wire[n] EXCEPT !.phase = "served", !.reply = a]
    BY <1>1 DEF Calls
  <1>50. /\ c # Nothing /\ c.request = wire[n].request /\ c.phase = "served" /\ c.reply = a
    BY <1>1, <1>5, NothingIsNoRecord DEF Calls
  <1>51. wire' = [wire EXCEPT ![n] = IF Awaited(n) THEN c ELSE Nothing]
    BY <1>4, <1>5 DEF Reply, Awaited
  <1>6. /\ wire' \in [Slots -> Calls \cup {Nothing}]
        /\ wire'[n] = c \/ wire'[n] = Nothing
        /\ Awaited(n) => wire'[n] = c
        /\ \A k \in Slots \ {n} : wire'[k] = wire[k]
    BY <1>1, <1>51
  <1>7. CallOK(n)'
    <2>1. RequestOK(c.request)'
      <3>1. \A r \in Requests : RequestOK(r) => RequestOK(r)'
        BY <1>2, RequestStays DEF IInv
      <3>2. PICK r \in Requests : r = wire[n].request /\ RequestOK(r)'
        BY <1>1, <3>1
      <3>3. QED
        BY <1>50, <3>2
    <2>2. QED
      BY <1>40, <1>50, <1>6, <2>1 DEF CallOK, Documented
  <1>8. CallsOK'
    BY <1>2, <1>6, <1>7, CallStays DEF IInv, CallsOK
  <1>9. ~UnderWay(n)' /\ \A k \in Slots \ {n} : UnderWay(k)' <=> UnderWay(k)
    BY <1>50, <1>6, SameCall DEF UnderWay, ImageCall
  <1>10. ImagesOK'
    <2> SUFFICES ASSUME NEW k \in Slots, ImageCall(k, {"stored", "retry"})', wire'[k].alone,
                        Awaited(k)'
                 PROVE  /\ wire'[k].request.id \in images' <=> wire'[k].request.op = "upload"
                        /\ \A m \in Slots \ {k} : ~UnderWay(m)'
      BY DEF ImagesOK
    <2>1. k # n /\ wire'[k] = wire[k]
      BY <1>50, <1>6 DEF ImageCall
    <2>2. ImageCall(k, {"stored", "retry"}) /\ wire[k].alone /\ Awaited(k)
      BY <1>2, <2>1, SameCall DEF Awaited
    <2>3. /\ wire[k].request.id \in images <=> wire[k].request.op = "upload"
          /\ \A m \in Slots \ {k} : ~UnderWay(m)
      BY <2>2 DEF IInv, ImagesOK
    <2>4. images' = images
      BY <2>1, <2>3
    <2>5. QED
      BY <1>9, <2>1, <2>3, <2>4
  <1>11. \A k \in Slots : wire[k] # Nothing /\ Awaited(k) =>
            wire'[k] # Nothing /\ wire'[k].request = wire[k].request
    BY <1>50, <1>6
  <1>12. QED
    BY <1>1, <1>2, <1>6, <1>8, <1>10, <1>11, ServedKeeps

(* What is known of a call that is served.                                 *)
LEMMA Served ==
    ASSUME IInv, NEW n \in Slots, wire[n] # Nothing
    PROVE  /\ wire[n] \in Calls /\ wire[n].request \in Requests /\ RequestOK(wire[n].request)
           /\ wire[n].request.op # "create" => wire[n].request.id \in Ids
           /\ docs \in [Ids -> Docs \cup {Nothing}]
  BY DEF IInv, TypeOK, CallsOK, CallOK, Calls, RequestOK

(* No document is new.                                                     *)
NoBirth == \A i \in Ids : Stored(i)' => Stored(i) /\ docs'[i].by = docs[i].by

(* What is known of a stored document.                                     *)
LEMMA StoredDoc ==
    ASSUME IInv, NEW i \in Ids, Stored(i)
    PROVE  /\ docs[i] \in Docs /\ docs[i].id = i /\ docs[i].by <= drafts /\ Known(docs[i])
           /\ docs[i].etag \in Nat /\ docs[i].edits \in Nat /\ docs[i].edits <= docs[i].etag
           /\ docs[i].value \in Values /\ docs[i].active \in BOOLEAN
  BY DocFields DEF IInv, TypeOK, DocsOK, Known, Stored

Revision(d, v, a) == [Revised(d) EXCEPT !.value = v, !.active = a]

(* A revision is the next version and the next edit.                       *)
LEMMA RevisedFields ==
    ASSUME NEW d \in Docs, d.etag < MaxETag, d.edits <= d.etag,
           NEW v \in Values, NEW a \in BOOLEAN
    PROVE  LET e == Revision(d, v, a) IN
           /\ e \in Docs /\ e # Nothing /\ e.id = d.id /\ e.by = d.by /\ e.value = v
           /\ e.etag = d.etag + 1 /\ e.edits = d.edits + 1 /\ e.active = a /\ e.photo = d.photo
  <1>1. d.etag + 1 \in 1..MaxETag /\ d.edits + 1 \in 1..MaxETag
    BY DocFields, Bounds
  <1> DEFINE e == Revision(d, v, a)
  <1>2. /\ e \in Docs /\ e.id = d.id /\ e.by = d.by /\ e.value = v
        /\ e.etag = d.etag + 1 /\ e.edits = d.edits + 1 /\ e.active = a /\ e.photo = d.photo
    BY <1>1 DEF Revision, Revised, Docs
  <1>3. QED
    BY <1>2, NothingIsNoRecord

(* To archive is to revise the flag.                                       *)
LEMMA Archived ==
    ASSUME NEW d \in Docs
    PROVE  [Revised(d) EXCEPT !.active = FALSE] = Revision(d, d.value, FALSE)
  BY DEF Revision, Revised, Docs

(* A document is saved or archived; the others stay.                       *)
LEMMA RevisionMoves ==
    ASSUME IInv, screen' = screen, drafts' = drafts,
           NEW i \in Ids, Stored(i), Room(i), NEW v \in Values, NEW a \in BOOLEAN,
           docs' = [docs EXCEPT ![i] = Revision(docs[i], v, a)]
    PROVE  DocsMove /\ DocsOK' /\ NoBirth /\ Stored(i)' /\ docs'[i] \in Docs
  <1> DEFINE e == Revision(docs[i], v, a)
  <1>1. /\ docs[i] \in Docs /\ docs[i].id = i /\ docs[i].etag \in Nat /\ docs[i].edits \in Nat
        /\ docs[i].edits <= docs[i].etag /\ docs \in [Ids -> Docs \cup {Nothing}]
    BY StoredDoc DEF IInv, TypeOK
  <1>2. /\ e \in Docs /\ e # Nothing /\ e.id = i /\ e.by = docs[i].by
        /\ e.etag = docs[i].etag + 1 /\ e.edits = docs[i].edits + 1
    BY <1>1, RevisedFields DEF Room
  <1>3. docs' = [docs EXCEPT ![i] = e]
    OBVIOUS
  <1> HIDE DEF e
  <1>4. /\ docs' \in [Ids -> Docs \cup {Nothing}] /\ docs'[i] = e
        /\ \A j \in Ids \ {i} : docs'[j] = docs[j]
    BY <1>1, <1>2, <1>3
  <1>5. Edited(i) /\ \A j \in Ids \ {i} : docs'[j] = docs[j]
    BY <1>2, <1>4 DEF Edited
  <1>6. DocsMove /\ DocsOK'
    BY <1>4, <1>5, DocsChange
  <1>7. NoBirth
    BY <1>2, <1>4 DEF NoBirth, Stored
  <1>8. QED
    BY <1>2, <1>4, <1>6, <1>7 DEF Stored

(* A stored document is known after the step.                              *)
LEMMA StoredIsKnown ==
    ASSUME DocsMove, DocsOK', NEW i \in Ids, docs'[i] # Nothing
    PROVE  docs'[i] \in Docs /\ \A d \in Docs : d = docs'[i] => Known(d)'
  BY DEF DocsMove, DocsOK, Stored, Known

(* Carrying out a create keeps the invariant and makes one document, of    *)
(* its draft.                                                              *)
LEMMA CreateKeeps ==
    ASSUME IInv, NEW n \in Slots, ServeCreate(n)
    PROVE  IInv' /\ \E i \in Ids :
                       /\ ~Stored(i) /\ docs'[i] # Nothing
                       /\ docs'[i].by = wire[n].request.draft
                       /\ \A j \in Ids \ {i} : docs'[j] = docs[j]
  <1> DEFINE free == {i \in Ids : ~Stored(i)}
  <1>1. /\ wire[n] # Nothing /\ wire[n].request.op = "create" /\ wire[n].request \in Requests
        /\ RequestOK(wire[n].request) /\ docs \in [Ids -> Docs \cup {Nothing}]
    BY Served DEF ServeCreate, Sent
  <1>2. PICK i \in Ids : i = Min(free) /\ ~Stored(i)
    <2>1. free # {} /\ free \subseteq Nat
      BY IdsAreNumbers DEF ServeCreate
    <2>2. QED
      BY <2>1, MinIsLeast
  <1>3. PICK new \in Docs :
           new = [id |-> i, etag |-> 1, edits |-> 1, active |-> TRUE,
                  value |-> wire[n].request.value, photo |-> FALSE,
                  by |-> wire[n].request.draft]
    <2>1. wire[n].request.value \in Values /\ wire[n].request.draft \in Nat /\ 1 \in 1..MaxETag
      BY <1>1, RequestFields, Bounds
    <2>2. QED
      BY <1>2, <2>1 DEF Docs
  <1>4. /\ docs' = [docs EXCEPT ![i] = new] /\ Reply(n, "ok", new) /\ OnlyDocs
    BY <1>2, <1>3 DEF ServeCreate
  <1>5. /\ new # Nothing /\ new.id = i /\ new.etag = 1 /\ new.edits = 1
        /\ new.by = wire[n].request.draft /\ new.by <= drafts
    BY <1>1, <1>3, NothingIsNoRecord DEF RequestOK
  <1>6. /\ docs' \in [Ids -> Docs \cup {Nothing}] /\ docs'[i] = new
        /\ \A j \in Ids \ {i} : docs'[j] = docs[j]
    BY <1>1, <1>4
  <1>7. CreatedNow(i)
    BY <1>2, <1>5, <1>6 DEF CreatedNow
  <1>8. /\ screen' = screen /\ drafts' = drafts /\ images' = images /\ images \subseteq Ids
        /\ UNCHANGED <<screen, clock, listed, ed, awaits, counters>>
    BY <1>4 DEF OnlyDocs, counters, IInv, TypeOK
  <1>9. DocsMove /\ DocsOK'
    BY <1>6, <1>7, <1>8, DocsChange
  <1>10. Known(new)'
    BY <1>5, <1>6, <1>9, StoredIsKnown
  <1>11. IInv'
    BY <1>1, <1>4, <1>5, <1>8, <1>9, <1>10, ReplyKeeps
  <1>12. QED
    BY <1>2, <1>5, <1>6, <1>11

(* Carrying out a save revises its document.                               *)
LEMMA PutKeeps ==
    ASSUME IInv, NEW n \in Slots, ServePut(n)
    PROVE  IInv' /\ NoBirth
  <1>1. /\ wire[n] # Nothing /\ wire[n].request.op = "put" /\ wire[n].request \in Requests
        /\ RequestOK(wire[n].request)
    BY Served DEF ServePut, Sent
  <1>2. PICK i \in Ids : i = wire[n].request.id
    BY <1>1, Served
  <1>3. /\ wire[n].request.value \in Values /\ wire[n].request.active \in BOOLEAN
    BY <1>1, RequestFields
  <1>4. Stored(i) /\ Room(i) /\ OnlyDocs
    BY <1>2 DEF ServePut, Accepts
  <1>5. docs' = [docs EXCEPT ![i] =
                    Revision(docs[i], wire[n].request.value, wire[n].request.active)]
    BY <1>2 DEF ServePut, Revision
  <1>6. /\ screen' = screen /\ drafts' = drafts /\ images' = images /\ images \subseteq Ids
        /\ UNCHANGED <<screen, clock, listed, ed, awaits, counters>>
    BY <1>4 DEF OnlyDocs, counters, IInv, TypeOK
  <1>7. DocsMove /\ DocsOK' /\ NoBirth /\ Stored(i)' /\ docs'[i] \in Docs
    BY <1>3, <1>4, <1>5, <1>6, RevisionMoves
  <1>8. PICK new \in Docs : new = docs'[i]
    BY <1>7
  <1>9. Known(new)' /\ new # Nothing
    BY <1>7, <1>8, StoredIsKnown, NothingIsNoRecord
  <1>10. new = Revision(docs[i], wire[n].request.value, wire[n].request.active)
    BY <1>5, <1>8 DEF IInv, TypeOK
  <1>11. Reply(n, "ok", new)
    BY <1>2, <1>10 DEF ServePut, Revision
  <1>12. QED
    BY <1>1, <1>6, <1>7, <1>9, <1>11, ReplyKeeps

(* Carrying out an archive revises its document.                           *)
LEMMA ArchiveKeeps ==
    ASSUME IInv, NEW n \in Slots, ServeArchive(n)
    PROVE  IInv' /\ NoBirth
  <1>1. /\ wire[n] # Nothing /\ wire[n].request.op = "archive" /\ wire[n].request \in Requests
    BY Served DEF ServeArchive, Sent
  <1>2. PICK i \in Ids : i = wire[n].request.id
    BY <1>1, Served
  <1>3. Stored(i) /\ Room(i) /\ OnlyDocs /\ Reply(n, "ok", Nothing)
    BY <1>2 DEF ServeArchive, Accepts
  <1>4. docs[i] \in Docs /\ docs[i].value \in Values
    BY <1>3, StoredDoc
  <1>5. docs' = [docs EXCEPT ![i] = Revision(docs[i], docs[i].value, FALSE)]
    BY <1>2, <1>4, Archived DEF ServeArchive
  <1>6. /\ screen' = screen /\ drafts' = drafts /\ images' = images /\ images \subseteq Ids
        /\ UNCHANGED <<screen, clock, listed, ed, awaits, counters>>
    BY <1>3 DEF OnlyDocs, counters, IInv, TypeOK
  <1>7. DocsMove /\ DocsOK' /\ NoBirth
    BY <1>3, <1>4, <1>5, <1>6, RevisionMoves
  <1>8. QED
    BY <1>1, <1>3, <1>6, <1>7, ReplyKeeps DEF Documented

(* Only churches are deleted.                                              *)
LEMMA PurgeKeeps ==
    ASSUME IInv, NEW n \in Slots, ServePurge(n)
    PROVE  IInv' /\ NoBirth
  <1>1. /\ wire[n] # Nothing /\ wire[n].request.op = "purge" /\ wire[n].request \in Requests
        /\ screen = "churches" /\ docs \in [Ids -> Docs \cup {Nothing}]
    BY Served DEF ServePurge, Sent, RequestOK
  <1>2. PICK i \in Ids : i = wire[n].request.id
    BY <1>1, Served
  <1>3. OnlyDocs /\ Reply(n, "ok", Nothing) /\ docs' = [docs EXCEPT ![i] = Nothing]
    BY <1>2 DEF ServePurge
  <1>4. /\ screen' = screen /\ drafts' = drafts /\ images' = images /\ images \subseteq Ids
        /\ UNCHANGED <<screen, clock, listed, ed, awaits, counters>>
    BY <1>3 DEF OnlyDocs, counters, IInv, TypeOK
  <1>5. /\ docs' \in [Ids -> Docs \cup {Nothing}] /\ PurgedNow(i)
        /\ \A j \in Ids \ {i} : docs'[j] = docs[j]
    BY <1>1, <1>3 DEF PurgedNow
  <1>6. DocsMove /\ DocsOK'
    BY <1>4, <1>5, DocsChange
  <1>7. QED
    BY <1>1, <1>3, <1>4, <1>5, <1>6, ReplyKeeps DEF Documented, NoBirth, PurgedNow, Stored

(* Answers that change no document.                                        *)
LEMMA AnswersKeep ==
    ASSUME IInv, NEW n \in Slots, ServeGet(n) \/ ServeWork(n) \/ FindStale(n) \/ Refuse(n)
    PROVE  IInv' /\ NoBirth
  <1>1. OnlyReply /\ wire[n] # Nothing
    BY DEF ServeGet, ServeWork, FindStale, Refuse, Sent, Conditional
  <1>2. /\ images' = images /\ images \subseteq Ids /\ docs' = docs /\ screen' = screen
        /\ UNCHANGED <<screen, clock, listed, ed, awaits, counters>>
        /\ UNCHANGED <<screen, server, listed>> /\ drafts' = drafts /\ drafts \in Nat
    BY <1>1, Bounds DEF OnlyReply, counters, server, IInv, TypeOK
  <1>3. DocsMove /\ DocsOK' /\ NoBirth
    BY <1>2, DocsStay DEF NoBirth, Stored
  <1>4. CASE ServeGet(n)
    <2>1. wire[n].request.op = "get" /\ wire[n].request.id \in Ids
      BY <1>1, <1>4, Served DEF ServeGet, Sent
    <2>2. PICK d \in Docs : d = docs[wire[n].request.id] /\ d # Nothing /\ d.id = wire[n].request.id
      BY <1>4, <2>1, StoredDoc DEF ServeGet, Stored
    <2>3. Known(d)'
      BY <1>2, <1>3, <2>1, <2>2, StoredIsKnown
    <2>4. Reply(n, "ok", d)
      BY <1>4, <2>2 DEF ServeGet
    <2>5. QED
      BY <1>1, <1>2, <1>3, <2>2, <2>3, <2>4, ReplyKeeps
  <1>5. CASE ServeWork(n)
    <2>1. ~Documented(wire[n].request) /\ Reply(n, "ok", Nothing)
      BY <1>5 DEF ServeWork, Sent, Documented
    <2>2. QED
      BY <1>1, <1>2, <1>3, <2>1, ReplyKeeps
  <1>6. CASE FindStale(n)
    <2>1. wire[n].request.op \notin {"create", "get", "generate"} /\ Reply(n, "stale", Nothing)
      BY <1>6 DEF FindStale, Sent, Conditional
    <2>2. QED
      BY <1>1, <1>2, <1>3, <2>1, ReplyKeeps
  <1>7. CASE Refuse(n)
    <2>1. Reply(n, "refused", Nothing)
      BY <1>7 DEF Refuse
    <2>2. QED
      BY <1>1, <1>2, <1>3, <2>1, ReplyKeeps
  <1>8. QED
    BY <1>4, <1>5, <1>6, <1>7

(* A revision of the value alone.                                          *)
LEMMA RevisedValue ==
    ASSUME NEW d \in Docs, NEW v \in Values
    PROVE  [Revised(d) EXCEPT !.value = v] = Revision(d, v, d.active)
  BY DEF Revision, Revised, Docs

(* A merge revises the keeper, the other member, or both.                  *)
LEMMA MergeKeeps ==
    ASSUME IInv, NEW n \in Slots, ServeMerge(n)
    PROVE  IInv' /\ NoBirth
  <1>1. /\ wire[n] # Nothing /\ wire[n].request.op = "merge" /\ wire[n].request \in Requests
        /\ screen = "duplicates" /\ docs \in [Ids -> Docs \cup {Nothing}]
        /\ wire[n].request.other \in Ids \ {wire[n].request.id}
    BY Served DEF ServeMerge, Sent, RequestOK
  <1>2. PICK r \in Requests : r = wire[n].request
    BY <1>1
  <1>3. PICK i \in Ids, j \in Ids : i = r.id /\ j = r.other /\ i # j
    BY <1>1, <1>2, Served
  <1>4. /\ Stored(i) /\ Stored(j) /\ OnlyDocs
        /\ r.agreed => Room(i)
        /\ docs[j].etag = r.otherTag => Room(j)
    BY <1>2, <1>3 DEF ServeMerge, MayMerge
  <1>5. /\ docs[i] \in Docs /\ docs[j] \in Docs /\ docs[i].id = i /\ docs[j].id = j
        /\ docs[i].edits <= docs[i].etag /\ docs[j].edits <= docs[j].etag
        /\ docs[j].value \in Values /\ docs[i].active \in BOOLEAN /\ r.value \in Values
    BY <1>4, StoredDoc, RequestFields
  <1> DEFINE k == Revision(docs[i], r.value, docs[i].active)
             l == Revision(docs[j], docs[j].value, FALSE)
             keeps == IF r.agreed THEN [docs EXCEPT ![i] = k] ELSE docs
  <1>6. r.agreed =>
            /\ k \in Docs /\ k.id = i /\ k.by = docs[i].by
            /\ k.etag = docs[i].etag + 1 /\ k.edits = docs[i].edits + 1
    BY <1>4, <1>5, RevisedFields DEF Room
  <1>7. docs[j].etag = r.otherTag =>
            /\ l \in Docs /\ l.id = j /\ l.by = docs[j].by
            /\ l.etag = docs[j].etag + 1 /\ l.edits = docs[j].edits + 1
    BY <1>4, <1>5, RevisedFields DEF Room
  <1>8. Kept(r) = keeps
    BY <1>3, <1>5, RevisedValue DEF Kept
  <1> HIDE DEF k
  <1>9. keeps[j] = docs[j] /\ keeps[i] = IF r.agreed THEN k ELSE docs[i]
    BY <1>1, <1>3
  <1>10. docs' = IF docs[j].etag = r.otherTag THEN [keeps EXCEPT ![j] = l] ELSE keeps
    <2>1. docs' = IF docs[j].etag = r.otherTag
                  THEN [keeps EXCEPT ![j] = [Revised(@) EXCEPT !.active = FALSE]] ELSE keeps
      BY <1>2, <1>3, <1>8 DEF ServeMerge
    <2> HIDE DEF keeps
    <2>2. [keeps EXCEPT ![j] = [Revised(@) EXCEPT !.active = FALSE]]
              = [keeps EXCEPT ![j] = [Revised(docs[j]) EXCEPT !.active = FALSE]]
      BY <1>9
    <2>3. QED
      BY <1>5, <2>1, <2>2, Archived
  <1> HIDE DEF l
  <1>11. /\ docs' \in [Ids -> Docs \cup {Nothing}]
         /\ docs'[i] = IF r.agreed THEN k ELSE docs[i]
         /\ docs'[j] = IF docs[j].etag = r.otherTag THEN l ELSE docs[j]
         /\ \A h \in Ids \ {i, j} : docs'[h] = docs[h]
    BY <1>1, <1>3, <1>6, <1>7, <1>10
  <1>12. /\ docs'[i] = docs[i] \/ Edited(i)
         /\ docs'[j] = docs[j] \/ Edited(j)
    BY <1>4, <1>6, <1>7, <1>11 DEF Edited
  <1>13. /\ screen' = screen /\ drafts' = drafts /\ images' = images /\ images \subseteq Ids
         /\ UNCHANGED <<screen, clock, listed, ed, awaits, counters>>
    BY <1>4 DEF OnlyDocs, counters, IInv, TypeOK
  <1>14. DocsMove /\ DocsOK'
    BY <1>11, <1>12, <1>13, DocsChange
  <1>15. PICK s \in {"ok", "stale", "refused"} : Reply(n, s, Nothing)
    BY DEF ServeMerge
  <1>16. NoBirth
    BY <1>11, <1>12 DEF NoBirth, Edited, Stored
  <1>17. QED
    BY <1>1, <1>13, <1>14, <1>15, <1>16, ReplyKeeps DEF Documented

(* What is known of an image call that is served.                          *)
LEMMA ImageServed ==
    ASSUME IInv, NEW n \in Slots, ImageCall(n, {"sent", "stored", "retry"})
    PROVE  /\ wire[n] # Nothing /\ UnderWay(n) /\ screen = "members"
           /\ wire[n].request.op \in {"upload", "remove"} /\ ~Documented(wire[n].request)
           /\ wire[n].request.id \in Ids /\ Stored(wire[n].request.id)
           /\ wire \in [Slots -> Calls \cup {Nothing}] /\ wire[n] \in Calls
           /\ docs \in [Ids -> Docs \cup {Nothing}] /\ images \subseteq Ids
  BY Served DEF ImageCall, UnderWay, RequestOK, Documented, IInv, TypeOK

(* An image call that goes on; the others stay.                            *)
LEMMA ImageGoesOn ==
    ASSUME IInv, NEW n \in Slots, UnderWay(n),
           UNCHANGED <<screen, clock, docs, listed, ed, awaits, counters>>,
           images' \subseteq Ids, NEW c \in Calls, wire' = [wire EXCEPT ![n] = c],
           c.request = wire[n].request, c.phase \in {"stored", "retry"},
           c.alone /\ Awaited(n) =>
               /\ \A m \in Slots \ {n} : ~UnderWay(m)
               /\ c.request.id \in images' <=> c.request.op = "upload"
    PROVE  IInv'
  <1>1. /\ wire[n] # Nothing /\ wire \in [Slots -> Calls \cup {Nothing}] /\ c # Nothing
        /\ wire[n].request.op \in {"upload", "remove"} /\ clock \in Clocks
        /\ wire[n].request \in Requests /\ RequestOK(wire[n].request)
    BY Served, NothingIsNoRecord DEF UnderWay, ImageCall, IInv, TypeOK
  <1>2. /\ wire'[n] = c /\ \A m \in Slots \ {n} : wire'[m] = wire[m]
        /\ wire' \in [Slots -> Calls \cup {Nothing}]
    BY <1>1
  <1>3. /\ drafts \in Nat /\ drafts' = drafts /\ screen' = screen /\ awaits' = awaits
        /\ docs' = docs /\ clock' \in Clocks /\ UNCHANGED <<screen, docs>>
        /\ UNCHANGED <<screen, listed, ed, awaits, counters>>
    BY <1>1, Bounds DEF IInv, TypeOK, counters
  <1>4. DocsMove
    BY <1>3, NothingMoves DEF IInv
  <1>5. DocsOK'
    BY <1>3 DEF IInv, DocsOK, Known, Stored
  <1>6. CallsOK'
    <2>1. PICK r \in Requests : r = wire[n].request /\ RequestOK(r)'
      BY <1>1, <1>3, <1>4, RequestStays DEF IInv
    <2>2. CallOK(n)'
      BY <1>1, <1>2, <2>1 DEF CallOK
    <2>3. QED
      BY <1>2, <1>3, <1>4, <2>2, CallStays DEF IInv, CallsOK
  <1>7. ImagesOK'
    <2> SUFFICES ASSUME NEW k \in Slots, ImageCall(k, {"stored", "retry"})', wire'[k].alone,
                        Awaited(k)'
                 PROVE  /\ wire'[k].request.id \in images' <=> wire'[k].request.op = "upload"
                        /\ \A m \in Slots \ {k} : ~UnderWay(m)'
      BY DEF ImagesOK
    <2>1. Awaited(k)
      BY <1>3 DEF Awaited
    <2>2. k = n
      <3> SUFFICES ASSUME k # n
                   PROVE  FALSE
        OBVIOUS
      <3>1. wire'[k] = wire[k]
        BY <1>2
      <3>2. ImageCall(k, {"stored", "retry"}) /\ wire[k].alone
        BY <3>1, SameCall
      <3>3. QED
        BY <2>1, <3>2 DEF IInv, ImagesOK
    <2>3. QED
      BY <1>2, <2>1, <2>2, SameCall
  <1>8. QED
    BY <1>1, <1>2, <1>3, <1>4, <1>5, <1>6, <1>7, ServedKeeps

(* Storing an image finds out whether it is alone.                         *)
LEMMA StoreImageKeeps ==
    ASSUME IInv, NEW n \in Slots, StoreImage(n)
    PROVE  IInv' /\ NoBirth
  <1>1. ImageCall(n, {"sent"}) /\ UNCHANGED <<screen, clock, docs, listed, ed, awaits, counters>>
    BY DEF StoreImage
  <1>2. ImageCall(n, {"sent", "stored", "retry"})
    BY <1>1 DEF ImageCall
  <1> DEFINE r == wire[n].request
             known == Stored(r.id) /\ (r.op = "upload" => docs[r.id].active)
             marks == known /\ (r.op = "upload" \/ docs[r.id].photo)
  <1>3. /\ images' = IF ~known THEN images
                     ELSE IF r.op = "upload" THEN images \cup {r.id} ELSE images \ {r.id}
        /\ IF marks THEN wire' = Storing(n)
           ELSE Reply(n, IF known THEN "ok" ELSE "refused", Nothing)
    BY DEF StoreImage
  <1>4. images' \subseteq Ids /\ NoBirth
    BY <1>1, <1>2, <1>3, ImageServed DEF NoBirth, Stored
  <1>5. CASE marks
    <2>1. PICK c \in Calls :
             c = [wire[n] EXCEPT
                     !.phase = "stored", !.seen = docs[r.id].etag,
                     !.alone = \A m \in Slots \ {n} : ~UnderWay(m)]
      <3>1. docs[r.id].etag \in 0..MaxETag
        BY <1>2, ImageServed, StoredDoc, DocFields, Bounds
      <3>2. wire[n] \in Calls /\ (\A m \in Slots \ {n} : ~UnderWay(m)) \in BOOLEAN
        BY <1>2, ImageServed
      <3>3. QED
        BY <3>1, <3>2 DEF Calls
    <2>2. /\ c.request = r /\ c.phase = "stored" /\ c.alone = \A m \in Slots \ {n} : ~UnderWay(m)
      BY <1>2, <2>1, ImageServed DEF Calls
    <2>3. wire' = [wire EXCEPT ![n] = c]
      BY <1>2, <1>3, <1>5, <2>1, ImageServed DEF Storing, UnderWay
    <2>4. r.id \in images' <=> r.op = "upload"
      BY <1>2, <1>3, <1>5, ImageServed
    <2>5. QED
      BY <1>1, <1>2, <1>4, <2>2, <2>3, <2>4, ImageServed, ImageGoesOn
  <1>6. CASE ~marks
    <2>1. PICK s \in {"ok", "stale", "refused"} : Reply(n, s, Nothing)
      BY <1>3, <1>6
    <2>2. /\ UNCHANGED <<screen, docs>> /\ screen' = screen /\ docs' = docs /\ drafts' = drafts
      BY <1>1 DEF counters
    <2>3. DocsMove /\ DocsOK'
      BY <2>2, NothingMoves DEF IInv, DocsOK, Known, Stored
    <2>4. UNCHANGED <<screen, clock, listed, ed, awaits, counters>>
      BY <1>1
    <2>5. wire[n].request.op \notin {"create", "get", "generate"} /\ ~Documented(wire[n].request)
      BY <1>2, ImageServed
    <2>6. QED
      BY <1>2, <1>4, <2>1, <2>3, <2>4, <2>5, ImageServed, ReplyKeeps
  <1>7. QED
    BY <1>5, <1>6

(* Marking a member leaves what was edited alone.                          *)
LEMMA MarkImageKeeps ==
    ASSUME IInv, NEW n \in Slots, MarkImage(n)
    PROVE  /\ IInv' /\ NoBirth
           /\ wire'[n] # Nothing => Awaited(n)
           /\ docs'[wire[n].request.id].photo = (wire[n].request.op = "upload")
           /\ images' = images
  <1>1. ImageCall(n, {"stored", "retry"}) /\ OnlyDocs /\ Reply(n, "ok", Nothing)
    BY DEF MarkImage
  <1>2. ImageCall(n, {"sent", "stored", "retry"})
    BY <1>1 DEF ImageCall
  <1>3. PICK i \in Ids : i = wire[n].request.id /\ Stored(i)
    BY <1>2, ImageServed
  <1>4. /\ docs[i].etag < MaxETag /\ docs[i] \in Docs /\ docs[i].id = i /\ docs[i].etag \in Nat
        /\ screen = "members" /\ docs \in [Ids -> Docs \cup {Nothing}]
    BY <1>2, <1>3, ImageServed, StoredDoc DEF MarkImage, Room
  <1>5. PICK b \in BOOLEAN : b = (wire[n].request.op = "upload")
    OBVIOUS
  <1>6. docs' = [docs EXCEPT ![i].etag = docs[i].etag + 1, ![i].photo = b]
    BY <1>3, <1>4, <1>5 DEF MarkImage
  <1>7. PICK d : d = [docs[i] EXCEPT !.etag = docs[i].etag + 1, !.photo = b]
    OBVIOUS
  <1>8. docs' = [docs EXCEPT ![i] = d]
    BY <1>4, <1>6, <1>7
  <1>9. /\ d \in Docs /\ d.id = i /\ d.by = docs[i].by /\ d.etag = docs[i].etag + 1
        /\ d.edits = docs[i].edits /\ d.photo = b
    <2>1. docs[i].etag + 1 \in 1..MaxETag
      BY <1>4, Bounds
    <2>2. QED
      BY <1>4, <1>7, <2>1 DEF Docs
  <1>10. /\ docs' \in [Ids -> Docs \cup {Nothing}] /\ docs'[i] = d
         /\ \A j \in Ids \ {i} : docs'[j] = docs[j]
    BY <1>4, <1>8, <1>9
  <1>11. Edited(i)
    BY <1>3, <1>4, <1>9, <1>10 DEF Edited
  <1>12. /\ screen' = screen /\ drafts' = drafts /\ images' = images /\ images \subseteq Ids
         /\ UNCHANGED <<screen, clock, listed, ed, awaits, counters>>
    BY <1>1 DEF OnlyDocs, counters, IInv, TypeOK
  <1>13. DocsMove /\ DocsOK'
    BY <1>10, <1>11, <1>12, DocsChange
  <1>14. wire[n].request.op \notin {"create", "get", "generate"} /\ ~Documented(wire[n].request)
    BY <1>2, ImageServed
  <1>15. IInv'
    BY <1>1, <1>2, <1>12, <1>13, <1>14, ImageServed, ReplyKeeps
  <1>16. wire'[n] # Nothing => Awaited(n)
    BY <1>1, <1>2, ImageServed DEF Reply, Awaited
  <1>17. QED
    BY <1>3, <1>5, <1>9, <1>10, <1>11, <1>12, <1>15, <1>16 DEF NoBirth, Edited, Stored

(* A mark that is refused changes its call only.                           *)
LEMMA MarkRefusedKeeps ==
    ASSUME IInv, NEW n \in Slots, MarkRefused(n)
    PROVE  IInv' /\ NoBirth
  <1>1. ImageCall(n, {"stored", "retry"}) /\ OnlyReply
    BY DEF MarkRefused
  <1>2. ImageCall(n, {"sent", "stored", "retry"})
    BY <1>1 DEF ImageCall
  <1>3. /\ UNCHANGED <<screen, docs>> /\ screen' = screen /\ docs' = docs /\ drafts' = drafts
        /\ UNCHANGED <<screen, clock, listed, ed, awaits, counters>>
        /\ UNCHANGED <<screen, clock, docs, listed, ed, awaits, counters>>
        /\ images' = images /\ images \subseteq Ids /\ NoBirth
    BY <1>1 DEF OnlyReply, server, counters, IInv, TypeOK, NoBirth, Stored
  <1>4. CASE \E s \in {"stale", "refused"} : Reply(n, s, Nothing)
    <2>1. DocsMove /\ DocsOK'
      BY <1>3, NothingMoves DEF IInv, DocsOK, Known, Stored
    <2>2. wire[n].request.op \notin {"create", "get", "generate"} /\ ~Documented(wire[n].request)
      BY <1>2, ImageServed
    <2>3. QED
      BY <1>2, <1>3, <1>4, <2>1, <2>2, ImageServed, ReplyKeeps
  <1>5. CASE wire' = [wire EXCEPT ![n].phase = "retry", ![n].seen = docs[wire[n].request.id].etag]
    <2>1. docs[wire[n].request.id].etag \in 0..MaxETag
      BY <1>2, ImageServed, StoredDoc, DocFields, Bounds
    <2>2. PICK c \in Calls :
             c = [wire[n] EXCEPT !.phase = "retry", !.seen = docs[wire[n].request.id].etag]
      BY <1>2, <2>1, ImageServed DEF Calls
    <2>3. /\ c.request = wire[n].request /\ c.phase = "retry" /\ c.alone = wire[n].alone
      BY <1>2, <2>2, ImageServed DEF Calls
    <2>4. wire' = [wire EXCEPT ![n] = c]
      BY <1>2, <1>5, <2>2, ImageServed
    <2>5. c.alone /\ Awaited(n) =>
             /\ \A m \in Slots \ {n} : ~UnderWay(m)
             /\ c.request.id \in images' <=> c.request.op = "upload"
      BY <1>1, <1>3, <2>3 DEF IInv, ImagesOK
    <2>6. QED
      BY <1>2, <1>3, <2>3, <2>4, <2>5, ImageServed, ImageGoesOn
  <1>6. QED
    BY <1>4, <1>5 DEF MarkRefused

(* The server keeps the invariant.                                         *)
LEMMA ServeKeeps ==
    ASSUME IInv, NEW n \in Slots, Serve(n)
    PROVE  IInv' /\ (~ServeCreate(n) => NoBirth)
  BY CreateKeeps, PutKeeps, ArchiveKeeps, PurgeKeeps, AnswersKeep, MergeKeeps, StoreImageKeeps,
     MarkImageKeeps, MarkRefusedKeeps DEF Serve

(* The other editors, and time, keep the invariant.                        *)
LEMMA UnservedKeeps ==
    ASSUME IInv, DocsMove, DocsOK',
           UNCHANGED <<screen, images, listed, ed, wire, awaits, counters>>,
           clock' \in Clocks
    PROVE  IInv'
  <1>1. /\ drafts \in Nat /\ drafts' = drafts /\ wire' = wire /\ awaits' = awaits
        /\ images' = images /\ screen' = screen
        /\ UNCHANGED <<screen, listed, ed, awaits, counters>>
    BY Bounds DEF counters, IInv, TypeOK
  <1>2. CallsOK'
    BY <1>1, CallStays DEF IInv, CallsOK
  <1>3. ImagesOK'
    BY <1>1 DEF IInv, ImagesOK, Awaited, UnderWay, ImageCall
  <1>4. /\ wire' \in [Slots -> Calls \cup {Nothing}] /\ images' \subseteq Ids
        /\ \A n \in Slots : wire[n] # Nothing /\ Awaited(n) =>
               wire'[n] # Nothing /\ wire'[n].request = wire[n].request
    BY <1>1 DEF IInv, TypeOK
  <1>5. QED
    BY <1>1, <1>2, <1>3, <1>4, ServedKeeps

LEMMA OthersKeep ==
    ASSUME IInv, NEW i \in Ids, OthersSave(i) \/ OthersArchive(i)
    PROVE  IInv' /\ NoBirth
  <1>1. /\ Stored(i) /\ Room(i)
        /\ UNCHANGED <<screen, clock, images, listed, ed, wire, awaits, counters>>
    BY DEF OthersSave, OthersArchive
  <1>2. docs[i] \in Docs /\ docs[i].value \in Values /\ docs[i].active \in BOOLEAN
    BY <1>1, StoredDoc
  <1>3. \E v \in Values, a \in BOOLEAN : docs' = [docs EXCEPT ![i] = Revision(docs[i], v, a)]
    <2>1. CASE OthersArchive(i)
      <3>1. docs' = [docs EXCEPT ![i] = [Revised(docs[i]) EXCEPT !.active = FALSE]]
        BY <2>1 DEF OthersArchive
      <3>2. QED
        BY <1>2, <3>1, Archived
    <2>2. CASE OthersSave(i)
      <3>1. PICK v \in Values :
               docs' = [docs EXCEPT ![i] = [Revised(docs[i]) EXCEPT !.value = v]]
        BY <1>2, <2>2 DEF OthersSave, Values
      <3>2. QED
        BY <1>2, <3>1, RevisedValue
    <2>3. QED
      BY <2>1, <2>2
  <1>4. /\ screen' = screen /\ drafts' = drafts /\ clock' \in Clocks
        /\ UNCHANGED <<screen, images, listed, ed, wire, awaits, counters>>
    BY <1>1 DEF counters, IInv, TypeOK
  <1>5. DocsMove /\ DocsOK' /\ NoBirth
    BY <1>1, <1>3, <1>4, RevisionMoves
  <1>6. QED
    BY <1>4, <1>5, UnservedKeeps

LEMMA TimePassesKeeps == IInv /\ TimePasses => IInv'
  <1> SUFFICES ASSUME IInv, TimePasses
               PROVE  IInv'
    OBVIOUS
  <1>1. /\ UNCHANGED <<screen, docs>> /\ clock' \in Clocks /\ screen' = screen /\ docs' = docs
        /\ UNCHANGED <<screen, images, listed, ed, wire, awaits, counters>> /\ drafts' = drafts
    BY DEF TimePasses, Clocks, counters
  <1>2. DocsMove /\ DocsOK'
    BY <1>1, NothingMoves DEF IInv, DocsOK, Known, Stored
  <1>3. QED
    BY <1>1, <1>2, UnservedKeeps
-----------------------------------------------------------------------------
(* The steps of the screens keep the invariant.                            *)
LEMMA EditorKeeps == IInv /\ EditorStep => IInv'
  BY OpensKeeps, AltersKeeps, LeavesKeeps, SendsKeeps, GoesOnKeeps, TakesEnds, EndsKeeps
     DEF EditorStep

(* It holds at first.                                                      *)
LEMMA InitIsOK == Init => IInv
  <1> SUFFICES ASSUME Init
               PROVE  IInv
    OBVIOUS
  <1>1. PICK value \in Values :
           docs = [i \in Ids |->
              IF i = Old THEN First(i, value)
              ELSE IF screen = "duplicates" /\ i # Max(Ids) THEN First(i, "none") ELSE Nothing]
    BY DEF Init, Values
  <1>2. \A i \in Ids, v \in Values :
           LET d == First(i, v) IN
           d \in Docs /\ d.id = i /\ d.etag = 1 /\ d.edits = 1 /\ d.by = 0
    BY Bounds DEF First, Docs
  <1>3. "none" \in Values
    BY DEF Values
  <1>4. \A i \in Ids : docs[i] # Nothing =>
           /\ docs[i] \in Docs /\ docs[i].id = i /\ docs[i].etag = 1 /\ docs[i].edits = 1
           /\ docs[i].by = 0
    BY <1>1, <1>2, <1>3
  <1>5. docs \in [Ids -> Docs \cup {Nothing}]
    BY <1>1, <1>2, <1>3
  <1>6. /\ screen \in Screens /\ clock \in Clocks /\ images = {} /\ listed = docs
        /\ ed = Nothing /\ ~Open /\ wire = [n \in Slots |-> Nothing]
        /\ awaits = [op \in Ops |-> 0] /\ drafts = 0 /\ losses = 0
    BY DEF Init, Clocks, Open
  <1>7. TypeOK
    BY <1>5, <1>6, Bounds DEF TypeOK
  <1>8. DocsOK /\ ListOK
    BY <1>4, <1>6 DEF DocsOK, ListOK, Known, Stored
  <1>9. CallsOK /\ AwaitsOK /\ WaitsOK /\ ImagesOK
    BY <1>6 DEF CallsOK, CallOK, AwaitsOK, WaitsOK, ImagesOK, ImageCall
  <1>10. QED
    BY <1>6, <1>7, <1>8, <1>9 DEF IInv

(* Every step keeps it.                                                    *)
LEMMA NextKeeps == IInv /\ [Next]_vars => IInv'
  <1> SUFFICES ASSUME IInv, [Next]_vars
               PROVE  IInv'
    OBVIOUS
  <1>1. CASE Screen \/ Redraw
    BY <1>1, ScreenSteps, EditorKeeps, RedrawAlters DEF EditorStep
  <1>2. CASE \E op \in Ops : Fail(op) \/ GiveUp(op)
    BY <1>2, FailEnds, GiveUpEnds, EndsKeeps
  <1>3. CASE Refetch
    BY <1>3, RefetchKeeps
  <1>4. CASE \E n \in Slots : Serve(n)
    BY <1>4, ServeKeeps
  <1>5. CASE \E i \in Ids : OthersSave(i) \/ OthersArchive(i)
    BY <1>5, OthersKeep
  <1>6. CASE TimePasses
    BY <1>6, TimePassesKeeps
  <1>7. CASE UNCHANGED vars
    <2>1. /\ UNCHANGED <<screen, docs>> /\ clock' = clock /\ docs' = docs /\ screen' = screen
          /\ UNCHANGED <<screen, images, listed, ed, wire, awaits, counters>> /\ drafts' = drafts
      BY <1>7 DEF vars, server, counters
    <2>2. DocsMove /\ DocsOK' /\ clock' \in Clocks
      BY <2>1, NothingMoves DEF IInv, TypeOK, DocsOK, Known, Stored
    <2>3. QED
      BY <2>1, <2>2, UnservedKeeps
  <1>8. QED
    BY <1>1, <1>2, <1>3, <1>4, <1>5, <1>6, <1>7 DEF Next

(* The invariant holds throughout.                                         *)
LEMMA InvariantHolds == Spec => []IInv
  BY InitIsOK, NextKeeps, PTL DEF Spec
-----------------------------------------------------------------------------
(* Every variable keeps its type: documents, calls and editors are what    *)
(* the screens and the server take them for.                               *)
THEOREM TypeCorrect == Spec => []TypeOK
  <1>1. IInv => TypeOK
    BY DEF IInv
  <1>2. QED
    BY <1>1, InvariantHolds, PTL

(* No save and no merge that updates its keeper is carried out over an     *)
(* edit its draft was not drawn from, but for drafts that went on after a  *)
(* photo: the version sent is the one the form was filled from.            *)
THEOREM EditsAreSeen == Spec => NoLostUpdate
  <1>1. ASSUME IInv, NEW n \in Slots, Saves(n)
        PROVE  SavesOver(n) \/ wire[n].request.refreshed
    <2> DEFINE r == wire[n].request
    <2>1. /\ wire[n] # Nothing /\ r.op \in {"put", "merge"}
          /\ r.op = "merge" => screen = "duplicates"
          /\ Stored(r.id) /\ docs[r.id].etag = r.etag
      <3>1. CASE ServePut(n)
        BY <3>1 DEF ServePut, Sent, Accepts
      <3>2. CASE ServeMerge(n) /\ r.agreed
        <4>1. wire[n] # Nothing /\ r.op = "merge"
          BY <3>2 DEF ServeMerge, Sent
        <4>2. screen = "duplicates"
          BY <1>1, <4>1, Served DEF RequestOK
        <4>3. QED
          BY <3>2, <4>1, <4>2 DEF ServeMerge, MayMerge
      <3>3. QED
        BY <1>1, <3>1, <3>2 DEF Saves
    <2>2. r \in Requests /\ r.id \in Ids /\ SentOver(r)
      BY <1>1, <2>1, Served DEF RequestOK
    <2>3. screen # "members" => docs[r.id].edits = docs[r.id].etag
      BY <1>1, <2>1, <2>2, StoredDoc DEF Known
    <2>4. QED
      BY <2>1, <2>2, <2>3 DEF SentOver, SavesOver
  <1>2. IInv => [\A n \in Slots : Saves(n) => SavesOver(n) \/ wire[n].request.refreshed]_vars
    BY <1>1
  <1>3. QED
    BY <1>2, InvariantHolds, PTL DEF NoLostUpdate

(* A member's scan code is replaced or taken away only by a save that the  *)
(* user was asked about: a save with the stored version was drawn from the *)
(* stored code.                                                            *)
THEOREM CodesReplacedOnPurpose == Spec => CodeReplacedOnPurpose
  <1>1. ASSUME IInv, NEW n \in Slots, ServePut(n), screen = "members"
        PROVE  LET r == wire[n].request
               IN  docs[r.id].value \in {"none", r.value} \/ r.agreed
    <2> DEFINE r == wire[n].request
    <2>1. wire[n] # Nothing /\ r.op = "put" /\ docs[r.id].etag = r.etag
      BY <1>1 DEF ServePut, Sent
    <2>2. SentOver(r)
      BY <1>1, <2>1, Served DEF RequestOK
    <2>3. QED
      BY <1>1, <2>1, <2>2 DEF SentOver
  <1>2. IInv =>
          [\A n \in Slots :
              ServePut(n) /\ screen = "members" =>
                  LET r == wire[n].request
                  IN  docs[r.id].value \in {"none", r.value} \/ r.agreed]_vars
    BY <1>1
  <1>3. QED
    BY <1>2, InvariantHolds, PTL DEF CodeReplacedOnPurpose
-----------------------------------------------------------------------------
(* What each step does to the calls.                                       *)

(* An answer changes its call only.                                        *)
LEMMA ReplyFields ==
    ASSUME IInv, NEW n \in Slots, wire[n] # Nothing, NEW s, NEW d, Reply(n, s, d)
    PROVE  /\ \A m \in Slots \ {n} : wire'[m] = wire[m]
           /\ wire'[n] # Nothing =>
                  /\ Awaited(n) /\ wire'[n].phase = "served" /\ wire'[n].reply.status = s
                  /\ wire'[n].request = wire[n].request
  <1>1. wire \in [Slots -> Calls \cup {Nothing}] /\ wire[n] \in Calls
    BY Served DEF IInv, TypeOK
  <1>2. PICK a : a = [status |-> s, doc |-> d]
    OBVIOUS
  <1>3. PICK c : c = [wire[n] EXCEPT !.phase = "served", !.reply = a]
    OBVIOUS
  <1>4. c.phase = "served" /\ c.reply.status = s /\ c.request = wire[n].request
    BY <1>1, <1>2, <1>3 DEF Calls
  <1>5. wire' = [wire EXCEPT ![n] = IF Awaited(n) THEN c ELSE Nothing]
    BY <1>2, <1>3 DEF Reply, Awaited
  <1>6. QED
    BY <1>1, <1>4, <1>5

(* The server answers one call, or lets one image call go on.              *)
LEMMA ServesOne ==
    ASSUME IInv, NEW n \in Slots, Serve(n)
    PROVE  /\ wire[n] # Nothing
           /\ \A m \in Slots \ {n} : wire'[m] = wire[m]
           /\ wire'[n] # Nothing =>
                  /\ wire'[n].request = wire[n].request
                  /\ wire'[n].phase \in {"served", "stored", "retry"}
           /\ ed' = ed /\ awaits' = awaits /\ losses' = losses /\ drafts' = drafts
           /\ screen' = screen
  <1>1. wire[n] # Nothing
    BY DEF Serve, ServeCreate, ServePut, ServeArchive, ServePurge, ServeGet, ServeWork,
           ServeMerge, FindStale, Refuse, StoreImage, MarkImage, MarkRefused, Sent, ImageCall,
           Conditional
  <1>2. /\ ed' = ed /\ awaits' = awaits /\ losses' = losses /\ drafts' = drafts
        /\ screen' = screen
    BY DEF Serve, ServeCreate, ServePut, ServeArchive, ServePurge, ServeGet, ServeWork,
           ServeMerge, FindStale, Refuse, StoreImage, MarkImage, MarkRefused, OnlyDocs,
           OnlyReply, counters
  <1>3. \/ \E s, d : Reply(n, s, d)
        \/ wire' = Storing(n)
        \/ wire' = [wire EXCEPT ![n].phase = "retry", ![n].seen = docs[wire[n].request.id].etag]
    BY DEF Serve, ServeCreate, ServePut, ServeArchive, ServePurge, ServeGet, ServeWork,
           ServeMerge, FindStale, Refuse, StoreImage, MarkImage, MarkRefused
  <1>4. wire \in [Slots -> Calls \cup {Nothing}] /\ wire[n] \in Calls
    BY <1>1, Served DEF IInv, TypeOK
  <1>5. CASE \E s, d : Reply(n, s, d)
    BY <1>1, <1>2, <1>5, ReplyFields
  <1>6. CASE wire' = Storing(n)
    <2>1. PICK c : c = [wire[n] EXCEPT
                          !.phase = "stored", !.seen = docs[wire[n].request.id].etag,
                          !.alone = \A m \in Slots \ {n} : ~ImageCall(m, {"sent", "stored", "retry"})]
      OBVIOUS
    <2>2. c.request = wire[n].request /\ c.phase = "stored"
      BY <1>4, <2>1 DEF Calls
    <2>3. wire' = [wire EXCEPT ![n] = c]
      BY <1>4, <1>6, <2>1 DEF Storing
    <2>4. QED
      BY <1>1, <1>2, <1>4, <2>2, <2>3
  <1>7. CASE wire' = [wire EXCEPT ![n].phase = "retry",
                                  ![n].seen = docs[wire[n].request.id].etag]
    <2>1. PICK c : c = [wire[n] EXCEPT !.phase = "retry", !.seen = docs[wire[n].request.id].etag]
      OBVIOUS
    <2>2. c.request = wire[n].request /\ c.phase = "retry"
      BY <1>4, <2>1 DEF Calls
    <2>3. wire' = [wire EXCEPT ![n] = c]
      BY <1>4, <1>7, <2>1
    <2>4. QED
      BY <1>1, <1>2, <1>4, <2>2, <2>3
  <1>8. QED
    BY <1>3, <1>5, <1>6, <1>7

(* An editor sends calls and drops them; it answers none.                  *)
EditorCalls ==
    \A n \in Slots :
        \/ wire'[n] = wire[n] \/ wire'[n] = Nothing
        \/ wire'[n] # Nothing /\ wire'[n].phase = "sent"

(* Calls that an editor's step leaves alone stay as they are.              *)
LEMMA EditorsSend ==
    ASSUME IInv, EditorStep \/ \E op \in Ops : Ends(op)
    PROVE  EditorCalls
  <1>1. wire \in [Slots -> Calls \cup {Nothing}]
    BY DEF IInv, TypeOK
  <1>2. CASE Opens \/ Alters
    BY <1>2 DEF Opens, Alters, InEditor, EditorCalls
  <1>3. CASE Leaves
    BY <1>3 DEF Leaves, Close, EditorCalls
  <1>4. ASSUME NEW op \in Ops, NEW r \in Requests, Sends(op, r)
        PROVE  EditorCalls
    <2>1. PICK m \in Slots : wire' = [wire EXCEPT ![m] = Call(r)]
      BY <1>4, Freed DEF IInv, Sends, Mutate
    <2>2. QED
      BY <2>1, NewCall, Typed DEF EditorCalls
  <1>5. ASSUME NEW op \in Ops, NEW r \in Requests, GoesOn(op, r)
        PROVE  EditorCalls
    <2>1. PICK m \in Slots : wire' = [wire EXCEPT ![m] = Call(r)]
      BY <1>5, Waited DEF GoesOn, GoOn, Succeeded, Answered
    <2>2. QED
      BY <2>1, NewCall, Typed DEF EditorCalls
  <1>6. ASSUME NEW op \in Ops, Ends(op)
        PROVE  EditorCalls
    BY <1>1, <1>6 DEF Ends, EditorCalls
  <1>7. QED
    BY <1>2, <1>3, <1>4, <1>5, <1>6, TakesEnds DEF EditorStep

(* An image call is answered as done when it was marked, or had nothing to *)
(* mark.                                                                   *)
LEMMA ImageAnswered ==
    ASSUME IInv, [Next]_vars, NEW n \in Slots, UnderWay(n),
           wire'[n] # Nothing, wire'[n].phase = "served"
    PROVE  StoreImage(n) \/ MarkImage(n) \/ MarkRefused(n)
  <1>1. wire[n] # Nothing /\ wire[n].phase # "served" /\ wire[n].request.op \in {"upload", "remove"}
    BY DEF UnderWay, ImageCall
  <1>2. ~EditorCalls /\ wire' # wire
    BY <1>1 DEF EditorCalls
  <1>3. PICK m \in Slots : Serve(m)
    BY <1>2, EditorsSend, ScreenSteps, RedrawAlters, FailEnds, GiveUpEnds
       DEF Next, EditorStep, Refetch, OthersSave, OthersArchive, TimePasses, vars
  <1>4. m = n
    BY <1>1, <1>3, ServesOne
  <1>5. QED
    BY <1>1, <1>3, <1>4
       DEF Serve, ServeCreate, ServePut, ServeArchive, ServePurge, ServeGet, ServeWork,
           ServeMerge, FindStale, Refuse, Sent, Conditional

(* An image call that met no other as it stored its image leaves the       *)
(* member marked as having a photo exactly when there is one: whatever     *)
(* else is saved or given up, no other image call gets between the image   *)
(* and the mark.                                                           *)
THEOREM PhotosAreMarked == Spec => MarkedAsStored
  <1> DEFINE Marked(n) ==
                 /\ ImageCall(n, {"sent", "stored", "retry"}) /\ wire[n].alone
                 /\ wire'[n] # Nothing /\ wire'[n].phase = "served" /\ wire'[n].reply.status = "ok"
                 => LET i == wire[n].request.id IN docs'[i].photo = (i \in images')
  <1>1. ASSUME IInv, [Next]_vars, NEW n \in Slots,
               ImageCall(n, {"sent", "stored", "retry"}), wire[n].alone,
               wire'[n] # Nothing, wire'[n].phase = "served", wire'[n].reply.status = "ok"
        PROVE  LET i == wire[n].request.id IN docs'[i].photo = (i \in images')
    <2> DEFINE r == wire[n].request
    <2>1. StoreImage(n) \/ MarkImage(n) \/ MarkRefused(n)
      BY <1>1, ImageAnswered DEF UnderWay
    <2>2. /\ wire[n] # Nothing /\ wire[n] \in Calls /\ r.id \in Ids /\ Stored(r.id)
          /\ r.op \in {"upload", "remove"} /\ wire \in [Slots -> Calls \cup {Nothing}]
      BY <1>1, ImageServed
    <2>3. docs[r.id].photo \in BOOLEAN
      BY <1>1, <2>2, StoredDoc, DocFields
    <2>4. CASE StoreImage(n)
      <3>1. wire' # Storing(n)
        <4> SUFFICES ASSUME wire' = Storing(n)
                     PROVE  FALSE
          OBVIOUS
        <4>1. wire'[n].phase = "stored"
          BY <2>2 DEF Storing, Calls
        <4>2. QED
          BY <1>1, <4>1
      <3>2. PICK s : /\ Reply(n, s, Nothing)
                     /\ s = IF Stored(r.id) /\ (r.op = "upload" => docs[r.id].active)
                            THEN "ok" ELSE "refused"
        BY <2>4, <3>1 DEF StoreImage
      <3>3. s = "ok"
        BY <1>1, <2>2, <3>2, ReplyFields
      <3>4. r.op = "remove" /\ ~docs[r.id].photo /\ images' = images \ {r.id} /\ docs' = docs
        BY <2>2, <2>3, <2>4, <3>1, <3>2, <3>3 DEF StoreImage
      <3>5. docs'[r.id].photo = FALSE
        BY <2>3, <3>4
      <3>6. (r.id \in images') = FALSE
        BY <3>4
      <3>7. QED
        BY <3>5, <3>6, Zenon
    <2>5. CASE MarkImage(n)
      <3>1. /\ Awaited(n) /\ images' = images
            /\ docs'[r.id].photo = (r.op = "upload")
        BY <1>1, <2>5, MarkImageKeeps
      <3>2. r.id \in images <=> r.op = "upload"
        BY <1>1, <2>5, <3>1 DEF MarkImage, IInv, ImagesOK
      <3>3. QED
        BY <3>1, <3>2
    <2>6. CASE MarkRefused(n)
      <3>1. CASE \E s \in {"stale", "refused"} : Reply(n, s, Nothing)
        BY <1>1, <2>2, <3>1, ReplyFields
      <3>2. CASE wire' = [wire EXCEPT ![n].phase = "retry", ![n].seen = docs[r.id].etag]
        <4>1. wire'[n].phase = "retry"
          BY <2>2, <3>2 DEF Calls
        <4>2. QED
          BY <1>1, <4>1
      <3>3. QED
        BY <2>6, <3>1, <3>2 DEF MarkRefused
    <2>7. QED
      BY <2>1, <2>4, <2>5, <2>6
  <1>2. IInv /\ [Next]_vars => [\A n \in Slots : Marked(n)]_vars
    BY <1>1
  <1>3. QED
    BY <1>2, InvariantHolds, PTL DEF Spec, MarkedAsStored

LEMMA ErrorNext ==
    ASSUME NEW order, DOMAIN order \subseteq Nat, ErrorOf(order)' # "none"
    PROVE  \E i \in DOMAIN order : ErrorOf(order)' = ed'.err[order[i]]
  <1> DEFINE failed == {i \in DOMAIN order : ed'.err[order[i]] # "none"}
  <1>1. ErrorOf(order)' = IF failed = {} THEN "none" ELSE ed'.err[order[Min(failed)]]
    BY DEF ErrorOf
  <1>2. failed # {} => Min(failed) \in failed
    BY MinIsLeast
  <1>3. QED
    BY <1>1, <1>2

(* Only the reload's own answer ends it, unless it is given up or the      *)
(* editor is closed.                                                       *)
LEMMA ReloadTakes == ASSUME IInv, [Next]_vars, Reloads PROVE Takes("reload")
  <1>1. /\ Open /\ Succeeded("reload") /\ awaits["reload"] # 0 /\ awaits'["reload"] = 0
        /\ ed' # Nothing /\ losses' = losses /\ "reload" \in Ops
        /\ awaits \in [Ops -> 0..MaxCalls] /\ losses \in Nat
    BY Bounds DEF Reloads, Succeeded, Answered, Ops, IInv, TypeOK
  <1>2. CASE Screen \/ Redraw
    <2>1. EditorStep
      BY <1>2, ScreenSteps, RedrawAlters DEF EditorStep
    <2>2. ~Opens /\ ~Alters /\ ~Leaves
      BY <1>1 DEF Opens, Alters, InEditor, Leaves, Close
    <2>3. ASSUME NEW op \in Ops, NEW r \in Requests
          PROVE  ~Sends(op, r) /\ ~GoesOn(op, r)
      <3>1. ~GoesOn(op, r)
        BY <1>1 DEF GoesOn, GoOn
      <3>2. ASSUME Sends(op, r)
            PROVE  FALSE
        <4>1. PICK m \in Slots : awaits' = [awaits EXCEPT ![op] = m] /\ awaits[op] = 0
          BY <3>2, Freed DEF IInv, Sends, Mutate
        <4>2. QED
          BY <1>1, <4>1 DEF Slots
      <3>3. QED
        BY <3>1, <3>2
    <2>4. PICK op \in Ops : Takes(op)
      BY <2>1, <2>2, <2>3 DEF EditorStep
    <2>5. op = "reload"
      BY <1>1, <2>4 DEF Takes, HangUp
    <2>6. QED
      BY <2>4, <2>5
  <1>3. ASSUME NEW op \in Ops, Fail(op) \/ GiveUp(op)
        PROVE  FALSE
    <2>1. op = "reload"
      BY <1>1, <1>3 DEF Fail, GiveUp, HangUp
    <2>2. QED
      BY <1>1, <1>3, <2>1 DEF Fail, GiveUp, Succeeded
  <1>4. ~(\E n \in Slots : Serve(n))
    BY <1>1, ServesOne
  <1>5. QED
    BY <1>1, <1>2, <1>3, <1>4 DEF Next, Refetch, OthersSave, OthersArchive, TimePasses, vars

(* After a reload the editor no longer takes itself for stale, on every    *)
(* screen but those of churches and sessions: all errors of its list were  *)
(* forgotten, or are of mutations that cannot find it stale.               *)
THEOREM ReloadsFree == Spec => ReloadFrees
  <1>1. ASSUME IInv, [Next]_vars, screen \notin {"churches", "sessions"}, Reloads
        PROVE  ~StaleEditor'
    <2>1. Takes("reload") /\ screen' = screen /\ ed' # Nothing
      BY <1>1, ReloadTakes DEF Reloads, Takes, HangUp
    <2>2. EditorOK(ed') /\ ed'.err["save"] = "none" /\ ed'.err["archive"] = "none"
      BY <1>1, <2>1 DEF Takes
    <2>3. ed.err["reload"] = "none" /\ "reload" \in Ops
      BY <1>1 DEF IInv, WaitsOK, Reloads, Succeeded, Answered, Ops
    <2>4. ed'.err["reload"] = "none" /\ ed'.err["generate"] # "stale"
      BY <2>1, <2>2, <2>3 DEF Takes, EditorOK
    <2>5. ErrorOf(<<"save", "archive", "reload">>)' # "stale"
      BY <2>2, <2>4, ErrorNext
    <2>6. ErrorOf(<<"save", "archive", "reload", "generate">>)' # "stale"
      BY <2>2, <2>4, ErrorNext
    <2>7. /\ GroupError' # "stale" /\ FieldError' # "stale" /\ MemberError' # "stale"
          /\ EventError' # "stale"
      BY <2>5, <2>6 DEF GroupError, FieldError, MemberError, EventError
    <2>8. QED
      BY <1>1, <2>1, <2>7 DEF StaleEditor
  <1>2. IInv /\ [Next]_vars =>
          [screen \notin {"churches", "sessions"} /\ Reloads => ~StaleEditor']_vars
    BY <1>1
  <1>3. QED
    BY <1>2, InvariantHolds, PTL DEF Spec, ReloadFrees
-----------------------------------------------------------------------------
(* Drafts become one document.                                             *)

(* Nothing was made of a draft that is still to come.                      *)
LEMMA BarrenAhead ==
    ASSUME IInv, NEW k \in Nat, drafts < k
    PROVE  Barren(k)
  <1>1. drafts \in Nat
    BY Bounds DEF IInv, TypeOK
  <1>2. \A i \in Ids : Stored(i) => docs[i].by # k
    BY <1>1, StoredDoc, DocFields
  <1>3. \A n \in Slots : wire[n] # Nothing => wire[n].request.draft # k
    BY <1>1, Served, RequestFields DEF RequestOK
  <1>4. QED
    BY <1>2, <1>3 DEF Barren, Creating, Born, Sent

(* A draft that nothing new is made of stays created once, if its editor   *)
(* may send it again only where it might before, or where it is barren.    *)
LEMMA OnceStays ==
    ASSUME NEW k, OnceOK(k), Creating(k)' \subseteq Creating(k), Born(k)' \subseteq Born(k),
           Open' /\ ed'.draft = k /\ ed'.doc = Nothing =>
               /\ Open /\ ed.draft = k /\ ed.doc = Nothing
               /\ awaits'["save"] = 0 /\ ed'.err["save"] # "uncertain" =>
                      Barren(k)' \/ (awaits["save"] = 0 /\ ed.err["save"] # "uncertain")
               /\ (Answered("save") /\ Answer("save").status # "ok" /\ ~Uploading)' =>
                      \/ Barren(k)'
                      \/ Answered("save") /\ Answer("save").status # "ok" /\ ~Uploading
    PROVE  OnceOK(k)'
  <1>1. Barren(k) => Barren(k)'
    BY DEF Barren
  <1>2. QED
    BY <1>1 DEF OnceOK

(* Where no document is made, no draft becomes one.                        *)
LEMMA BornStays ==
    ASSUME NoBirth, NEW k
    PROVE  Born(k)' \subseteq Born(k)
  BY DEF NoBirth, Born

(* Calls that stay as they are, end, or are of another kind.               *)
LEMMA CreatingStays ==
    ASSUME NEW k,
           \A n \in Slots :
               wire'[n] = wire[n] \/ ~(Sent(n, "create") /\ wire[n].request.draft = k)'
    PROVE  Creating(k)' \subseteq Creating(k)
  BY DEF Creating, Sent

(* The save of an editor, where its call stays.                            *)
LEMMA SameSave ==
    ASSUME awaits'["save"] = awaits["save"],
           awaits["save"] # 0 => wire'[awaits["save"]] = wire[awaits["save"]]
    PROVE  (Answered("save") /\ Answer("save").status # "ok" /\ ~Uploading)' =>
               Answered("save") /\ Answer("save").status # "ok" /\ ~Uploading
  BY DEF Answered, Answer, Uploading

(* An editor's steps make no document.                                     *)
LEMMA EditorNoBirth ==
    ASSUME UNCHANGED docs
    PROVE  NoBirth
  BY DEF NoBirth, Stored

(* The shapes of the screens' steps, one by one.                           *)
LEMMA OnceAlters ==
    ASSUME IInv, NEW k, OnceOK(k), Alters
    PROVE  OnceOK(k)'
  <1>1. /\ docs' = docs /\ wire' = wire /\ awaits' = awaits /\ drafts' = drafts
        /\ Open /\ ed' # Nothing /\ EditorOK(ed) /\ EditorOK(ed')
    BY DEF Alters, InEditor, server, counters, IInv
  <1>2. Creating(k)' \subseteq Creating(k) /\ Born(k)' \subseteq Born(k)
    BY <1>1, CreatingStays, BornStays, EditorNoBirth
  <1>3. ed'.draft = ed.draft
    BY <1>1 DEF EditorOK
  <1>4. QED
    BY <1>1, <1>2, <1>3, SameSave, OnceStays DEF Alters

LEMMA OnceOpens ==
    ASSUME IInv, NEW k \in Nat, OnceOK(k) \/ k = drafts + 1, Opens
    PROVE  OnceOK(k)'
  <1>1. /\ docs' = docs /\ wire' = wire /\ awaits' = awaits /\ drafts' = drafts + 1
        /\ ~Open /\ ed'.draft = drafts + 1 /\ drafts \in Nat
    BY Bounds DEF Opens, server, EditorOK, IInv, TypeOK
  <1>2. Creating(k)' \subseteq Creating(k) /\ Born(k)' \subseteq Born(k)
    BY <1>1, CreatingStays, BornStays, EditorNoBirth
  <1>3. CASE k = drafts + 1
    <2>1. Barren(k)
      BY <1>1, <1>3, BarrenAhead
    <2>2. Barren(k)'
      BY <1>2, <2>1 DEF Barren
    <2>3. QED
      BY <2>2 DEF OnceOK, Barren
  <1>4. CASE k # drafts + 1
    BY <1>1, <1>2, <1>4, OnceStays
  <1>5. QED
    BY <1>3, <1>4

LEMMA OnceLeaves ==
    ASSUME IInv, NEW k, OnceOK(k), Leaves
    PROVE  OnceOK(k)'
  <1>1. /\ docs' = docs /\ ~Open'
        /\ \A n \in Slots : wire'[n] = wire[n] \/ wire'[n] = Nothing
    BY DEF Leaves, Close, server, Open
  <1>2. Creating(k)' \subseteq Creating(k)
    BY <1>1, CreatingStays DEF Sent
  <1>3. QED
    BY <1>1, <1>2, BornStays, EditorNoBirth, OnceStays

(* Where no answer is lost, or an uncertain one locks the editor, a draft  *)
(* is sent only while it is barren.                                        *)
LEMMA OnceSends ==
    ASSUME IInv, NEW k, OnceOK(k), NEW op \in Ops, NEW r \in Requests, Sends(op, r),
           losses = 0 \/ screen \in {"groups", "members"}
    PROVE  OnceOK(k)'
  <1>1. PICK m \in Slots :
           /\ wire[m] = Nothing /\ awaits[op] = 0
           /\ wire' = [wire EXCEPT ![m] = Call(r)] /\ awaits' = [awaits EXCEPT ![op] = m]
    BY Freed DEF IInv, Sends, Mutate
  <1>2. /\ wire'[m] # Nothing /\ wire'[m].request = r /\ wire'[m].phase = "sent"
        /\ \A n \in Slots \ {m} : wire'[n] = wire[n]
    BY <1>1, NewCall, Typed
  <1>3. /\ docs' = docs /\ drafts' = drafts /\ Open /\ ed' # Nothing
        /\ EditorOK(ed) /\ EditorOK(ed') /\ ed'.draft = ed.draft /\ "save" \in Ops
        /\ awaits \in [Ops -> 0..MaxCalls]
    BY DEF Sends, Mutate, server, counters, IInv, EditorOK, Ops, TypeOK
  <1>4. Born(k)' \subseteq Born(k)
    BY <1>3, BornStays, EditorNoBirth
  <1>5. CASE r.op = "create" /\ r.draft = k
    <2>1. /\ op = "save" /\ ed.doc = Nothing /\ ed.draft = k
          /\ ed.err["save"] # "uncertain"
      BY <1>3, <1>5 DEF Sends, EditorOK
    <2>2. Barren(k)
      BY <1>1, <1>3, <2>1 DEF OnceOK
    <2>3. \A n \in Slots : (Sent(n, "create") /\ wire[n].request.draft = k)' => n = m
      BY <1>2, <2>2 DEF Barren, Creating, Sent
    <2>4. /\ Born(k)' = {} /\ \A a, b \in Creating(k)' : a = b
      BY <1>4, <2>2, <2>3 DEF Barren, Creating
    <2>5. awaits'["save"] = m /\ m # 0
      BY <1>1, <1>3, <2>1 DEF Slots
    <2>6. ~Answered("save")'
      BY <1>2, <2>5 DEF Answered
    <2>7. QED
      BY <2>4, <2>5, <2>6 DEF OnceOK
  <1>6. CASE ~(r.op = "create" /\ r.draft = k)
    <2>1. Creating(k)' \subseteq Creating(k)
      BY <1>2, <1>6, CreatingStays DEF Sent
    <2>2. CASE op = "save"
      <3>1. ed.doc = Nothing => ed'.draft # k
        BY <1>3, <1>6, <2>2 DEF Sends
      <3>2. QED
        BY <1>3, <1>4, <2>1, <3>1, OnceStays DEF Sends
    <2>3. CASE op # "save"
      <3>1. awaits'["save"] = awaits["save"]
        BY <1>1, <1>3, <2>3
      <3>2. awaits["save"] # 0 => wire'[awaits["save"]] = wire[awaits["save"]]
        BY <1>1, <1>2, <1>3, Waited
      <3>3. QED
        BY <1>3, <1>4, <2>1, <2>3, <3>1, <3>2, SameSave, OnceStays DEF Sends
    <2>4. QED
      BY <2>2, <2>3
  <1>7. QED
    BY <1>5, <1>6

LEMMA OnceGoesOn ==
    ASSUME IInv, NEW k, OnceOK(k), NEW op \in Ops, NEW r \in Requests, GoesOn(op, r)
    PROVE  OnceOK(k)'
  <1>1. PICK m \in Slots : /\ m = awaits[op] /\ m # 0 /\ wire' = [wire EXCEPT ![m] = Call(r)]
                           /\ \A o \in Ops : awaits[o] = m => o = op
    BY Waited DEF GoesOn, GoOn, Succeeded, Answered
  <1>2. /\ wire'[m] # Nothing /\ wire'[m].request = r /\ wire'[m].phase = "sent"
        /\ \A n \in Slots \ {m} : wire'[n] = wire[n]
    <2>1. TypeOK /\ wire' = [wire EXCEPT ![m] = Call(r)]
      BY <1>1, Typed
    <2>2. QED
      BY <2>1, NewCall
  <1>3. /\ docs' = docs /\ ed' = ed /\ awaits' = awaits /\ r.op # "create" /\ "save" \in Ops
    BY DEF GoesOn, GoOn, server, Ops
  <1>4. Creating(k)' \subseteq Creating(k) /\ Born(k)' \subseteq Born(k)
    <2>1. Creating(k)' \subseteq Creating(k)
      BY <1>2, <1>3, CreatingStays DEF Sent
    <2>2. QED
      BY <1>3, <2>1, BornStays, EditorNoBirth
  <1>5. (Answered("save") /\ Answer("save").status # "ok" /\ ~Uploading)' =>
            Answered("save") /\ Answer("save").status # "ok" /\ ~Uploading
    <2>1. CASE op = "save"
      <3>1. ~Answered("save")'
        BY <1>1, <1>2, <1>3, <2>1 DEF Answered
      <3>2. QED
        BY <3>1
    <2>2. CASE op # "save"
      <3>1. awaits["save"] # 0 => wire'[awaits["save"]] = wire[awaits["save"]]
        BY <1>1, <1>2, <1>3, <2>2, Waited
      <3>2. QED
        BY <1>3, <3>1, SameSave
    <2>3. QED
      BY <2>1, <2>2
  <1>6. QED
    BY <1>3, <1>4, <1>5, OnceStays DEF Open

(* A mutation that ends: a save that failed has made nothing of its draft. *)
LEMMA OnceEnds ==
    ASSUME IInv, NEW k, OnceOK(k), NEW op, Ends(op),
           op = "save" /\ ed'.doc = Nothing /\ ed'.err["save"] # "uncertain" =>
               Answered("save") /\ Answer("save").status # "ok" /\ ~Uploading,
           op # "save" => ed'.err["save"] = ed.err["save"] \/ ed'.doc # Nothing
    PROVE  OnceOK(k)'
  <1>1. PICK m \in Slots :
           /\ m = awaits[op] /\ m # 0 /\ op \in Ops
           /\ wire' = [wire EXCEPT ![m] = Nothing] \/ wire' = wire
           /\ \A o \in Ops : awaits[o] = m => o = op
    BY Waited DEF Ends
  <1>2. /\ docs' = docs /\ drafts' = drafts /\ Open /\ ed' # Nothing /\ "save" \in Ops
        /\ EditorOK(ed) /\ EditorOK(ed)' /\ ed'.draft = ed.draft
        /\ ed'.doc = Nothing => ed.doc = Nothing
        /\ awaits' = [awaits EXCEPT ![op] = 0]
        /\ wire \in [Slots -> Calls \cup {Nothing}] /\ awaits \in [Ops -> 0..MaxCalls]
    BY DEF Ends, server, IInv, EditorOK, Ops, TypeOK
  <1>3. \A n \in Slots : wire'[n] = wire[n] \/ (n = m /\ wire'[n] = Nothing)
    BY <1>1, <1>2
  <1>4. Creating(k)' \subseteq Creating(k) /\ Born(k)' \subseteq Born(k)
    <2>1. Creating(k)' \subseteq Creating(k)
      BY <1>3, CreatingStays DEF Sent
    <2>2. QED
      BY <1>2, <2>1, BornStays, EditorNoBirth
  <1>5. CASE op = "save"
    <2>1. awaits'["save"] = 0
      BY <1>2, <1>5
    <2>2. ~Answered("save")'
      BY <2>1 DEF Answered
    <2>3. ed'.draft = k /\ ed'.doc = Nothing /\ ed'.err["save"] # "uncertain" => Barren(k)
      BY <1>2, <1>5 DEF OnceOK
    <2>4. Barren(k) => Barren(k)'
      BY <1>4 DEF Barren
    <2>5. QED
      BY <1>2, <1>4, <2>2, <2>3, <2>4, OnceStays
  <1>6. CASE op # "save"
    <2>1. awaits'["save"] = awaits["save"]
      BY <1>1, <1>2, <1>6
    <2>2. awaits["save"] # 0 => wire'[awaits["save"]] = wire[awaits["save"]]
      BY <1>1, <1>2, <1>3, <1>6, Waited
    <2>3. QED
      BY <1>2, <1>4, <1>6, <2>1, <2>2, SameSave, OnceStays
  <1>7. QED
    BY <1>5, <1>6

(* What is created was being created, and no longer is.                    *)
LEMMA OnceCreated ==
    ASSUME IInv, NEW k, OnceOK(k), NEW n \in Slots, ServeCreate(n)
    PROVE  OnceOK(k)'
  <1>1. PICK i \in Ids :
           /\ ~Stored(i) /\ docs'[i] # Nothing
           /\ docs'[i].by = wire[n].request.draft
           /\ \A j \in Ids \ {i} : docs'[j] = docs[j]
    BY CreateKeeps
  <1>2. /\ wire[n] # Nothing /\ wire[n].phase = "sent" /\ wire[n].request.op = "create"
        /\ \E d : Reply(n, "ok", d)
    BY DEF ServeCreate, Sent
  <1>3. /\ \A m \in Slots \ {n} : wire'[m] = wire[m]
        /\ wire'[n] # Nothing => wire'[n].phase = "served" /\ wire'[n].reply.status = "ok"
        /\ ed' = ed /\ awaits' = awaits
    BY <1>2, ReplyFields DEF ServeCreate, OnlyDocs
  <1>4. Creating(k)' \subseteq Creating(k) \ {n}
    BY <1>3 DEF Creating, Sent
  <1>5. CASE wire[n].request.draft = k
    <2>1. n \in Creating(k)
      BY <1>2, <1>5 DEF Creating, Sent
    <2>2. Creating(k)' = {} /\ Born(k) = {}
      BY <1>4, <2>1 DEF OnceOK
    <2>3. \A a, b \in Born(k)' : a = b
      BY <1>1, <2>2 DEF Born, Stored
    <2>4. ~Barren(k)
      BY <2>1 DEF Barren
    <2>5. Open /\ ed.draft = k /\ ed.doc = Nothing =>
              /\ ~(awaits'["save"] = 0 /\ ed'.err["save"] # "uncertain")
              /\ ~(Answered("save") /\ Answer("save").status # "ok" /\ ~Uploading)'
      <3> SUFFICES ASSUME Open, ed.draft = k, ed.doc = Nothing
                   PROVE  /\ ~(awaits'["save"] = 0 /\ ed'.err["save"] # "uncertain")
                          /\ ~(Answered("save") /\ Answer("save").status # "ok" /\ ~Uploading)'
        OBVIOUS
      <3>1. ~(awaits'["save"] = 0 /\ ed'.err["save"] # "uncertain")
        BY <1>3, <2>4 DEF OnceOK
      <3>2. CASE awaits["save"] = n
        <4>1. n # 0 /\ "save" \in Ops /\ AwaitsOK'
          BY CreateKeeps DEF Slots, Ops, IInv
        <4>2. wire'[n] # Nothing
          BY <1>3, <3>2, <4>1 DEF AwaitsOK
        <4>3. QED
          BY <1>3, <3>1, <3>2, <4>2 DEF Answered, Answer
      <3>3. CASE awaits["save"] # n
        <4>1. awaits["save"] # 0 => wire'[awaits["save"]] = wire[awaits["save"]]
          BY <1>3, <3>3, Waited DEF Ops
        <4>2. ~(Answered("save") /\ Answer("save").status # "ok" /\ ~Uploading)
          BY <2>4 DEF OnceOK
        <4>3. QED
          BY <1>3, <3>1, <4>1, <4>2, SameSave
      <3>4. QED
        BY <3>2, <3>3
    <2>6. QED
      BY <1>3, <2>2, <2>3, <2>5 DEF OnceOK, Open
  <1>6. CASE wire[n].request.draft # k
    <2>1. Born(k)' \subseteq Born(k)
      BY <1>1, <1>6 DEF Born, Stored
    <2>2. Open /\ ed.draft = k /\ ed.doc = Nothing => awaits["save"] # n
      BY <1>2, <1>6 DEF IInv, WaitsOK, Slots
    <2>3. awaits["save"] \notin {0, n} => wire'[awaits["save"]] = wire[awaits["save"]]
      BY <1>3, Waited DEF Ops
    <2>4. QED
      BY <1>3, <1>4, <2>1, <2>2, <2>3, SameSave, OnceStays DEF Open
  <1>7. QED
    BY <1>5, <1>6

(* A save that is refused, or that another editor's save overtook, has     *)
(* made nothing of its draft.                                              *)
LEMMA OnceServed ==
    ASSUME IInv, NEW k, OnceOK(k), NEW n \in Slots, Serve(n), ~ServeCreate(n),
           screen = "register" => ~(Open /\ ed.draft = k /\ ed.picked)
    PROVE  OnceOK(k)'
  <1>1. /\ wire[n] # Nothing
        /\ \A m \in Slots \ {n} : wire'[m] = wire[m]
        /\ wire'[n] # Nothing =>
               /\ wire'[n].request = wire[n].request
               /\ wire'[n].phase \in {"served", "stored", "retry"}
        /\ ed' = ed /\ awaits' = awaits
    BY ServesOne
  <1>2. Creating(k)' \subseteq Creating(k) \ {n}
    BY <1>1 DEF Creating, Sent
  <1>3. Born(k)' \subseteq Born(k)
    BY ServeKeeps, BornStays
  <1>4. ASSUME Open, ed.draft = k, ed.doc = Nothing,
               (Answered("save") /\ Answer("save").status # "ok" /\ ~Uploading)'
        PROVE  \/ Barren(k)'
               \/ Answered("save") /\ Answer("save").status # "ok" /\ ~Uploading
    <2>1. CASE awaits["save"] # n
      <3>1. awaits["save"] # 0 => wire'[awaits["save"]] = wire[awaits["save"]]
        BY <1>1, <2>1, Waited DEF Ops
      <3>2. QED
        BY <1>1, <1>4, <3>1, SameSave
    <2>2. CASE awaits["save"] = n
      <3>1. wire'[n] # Nothing /\ wire'[n].request.op # "upload" /\ n # 0
        <4>1. n # 0
          BY DEF Slots
        <4>2. awaits'["save"] = n
          BY <1>1, <2>2
        <4>3. wire'[n].request.op # "upload" /\ wire'[n].phase = "served"
          BY <1>4, <4>1, <4>2 DEF Answered, Uploading
        <4>4. wire'[n] # Nothing
          <5>1. wire' \in [Slots -> Calls \cup {Nothing}]
            BY ServeKeeps DEF IInv, TypeOK
          <5>2. Awaited(n) /\ "save" \in Ops
            BY <2>2 DEF Awaited, Ops
          <5>3. QED
            BY <4>1, <4>2, <5>2, ServeKeeps DEF IInv, AwaitsOK
        <4>5. QED
          BY <4>1, <4>3, <4>4
      <3>2. wire[n].request.op \in {"create", "checkin"} /\ wire[n].request.op \in Verbs("save")
        <4>1. /\ wire[n].request.op \in Verbs("save") /\ wire[n].request.op # "upload"
              /\ wire[n].request.op # "put"
          BY <1>1, <1>4, <2>2, <3>1, Waited DEF IInv, WaitsOK, Ops
        <4>2. QED
          BY <4>1 DEF Verbs
      <3>3. wire[n].request.op # "checkin"
        BY <1>1, <1>4, <2>2, <3>1, Served DEF IInv, WaitsOK, RequestOK
      <3>4. wire[n].request.op = "create" /\ wire[n].request.draft = k
        BY <1>4, <2>2, <3>1, <3>2, <3>3 DEF IInv, WaitsOK
      <3>5. wire[n].phase = "sent"
        BY <3>4
           DEF Serve, ServeCreate, ServePut, ServeArchive, ServePurge, ServeGet, ServeWork,
               ServeMerge, FindStale, Refuse, StoreImage, MarkImage, MarkRefused, Sent,
               ImageCall, Conditional
      <3>6. n \in Creating(k)
        BY <1>1, <3>4, <3>5 DEF Creating, Sent
      <3>7. QED
        BY <1>2, <1>3, <3>6 DEF OnceOK, Barren
    <2>3. QED
      BY <2>1, <2>2
  <1>5. QED
    BY <1>1, <1>2, <1>3, <1>4, OnceStays DEF Open

(* A step that leaves the editor and its calls alone.                      *)
LEMMA OnceUnserved ==
    ASSUME IInv, NEW k, OnceOK(k), NoBirth, UNCHANGED <<ed, wire, awaits>>
    PROVE  OnceOK(k)'
  <1>1. ed' = ed /\ wire' = wire /\ awaits' = awaits
    OBVIOUS
  <1>2. Creating(k)' \subseteq Creating(k) /\ Born(k)' \subseteq Born(k)
    BY <1>1, CreatingStays, BornStays
  <1>3. QED
    BY <1>1, <1>2, SameSave, OnceStays DEF Open
-----------------------------------------------------------------------------
(* At first no draft was made.                                             *)
LEMMA OnceAtFirst == Init => OnceInv
  <1> SUFFICES ASSUME Init
               PROVE  OnceInv
    OBVIOUS
  <1>1. \A i \in Ids : docs[i] # Nothing => docs[i].by = 0
    BY DEF Init, First
  <1>2. ~Open /\ \A n \in Slots : wire[n] = Nothing
    BY DEF Init, Open
  <1>3. \A k \in Nat \ {0} : Creating(k) = {} /\ Born(k) = {}
    BY <1>1, <1>2 DEF Creating, Born, Sent, Stored
  <1>4. QED
    BY <1>1, <1>2, <1>3 DEF OnceInv, OnceOK, Stored

(* What no editor step changes of it: whether a draft is seen to.          *)
LEMMA StillSeenTo ==
    ASSUME IInv, EditorStep \/ \E op \in Ops : Ends(op), NEW k \in Nat \ {0}, SeesToIt(k)'
    PROVE  SeesToIt(k) \/ (Opens /\ k = drafts + 1)
  <1>1. CASE Opens
    <2>1. screen' = screen /\ losses' = losses /\ ed'.draft = drafts + 1 /\ ed' # Nothing
      BY <1>1 DEF Opens, EditorOK
    <2>2. QED
      BY <1>1, <2>1 DEF SeesToIt
  <1>2. CASE (EditorStep /\ ~Opens) \/ (\E op \in Ops : Ends(op))
    <2>1. /\ screen' = screen /\ losses \in Nat /\ losses' \in Nat /\ losses <= losses'
          /\ Open /\ drafts' = drafts /\ EditorOK(ed)
          /\ ed' # Nothing => EditorOK(ed') \/ EditorOK(ed)'
      BY <1>2, TakesEnds, Bounds
         DEF EditorStep, Ends, Leaves, Close, Alters, Sends, GoesOn, InEditor, Mutate, GoOn,
             counters, IInv, TypeOK
    <2>2. ed' # Nothing => ed'.draft = ed.draft
      BY <2>1 DEF EditorOK
    <2>3. screen = "register" /\ ed' # Nothing => ed'.picked = ed.picked
      BY <1>2, TakesEnds DEF EditorStep, Ends, Leaves, Close, Alters, Sends, GoesOn, GoOn
    <2>4. QED
      BY <2>1, <2>2, <2>3 DEF SeesToIt, Open
  <1>3. QED
    BY <1>1, <1>2

(* The steps of an editor keep each draft created once.                    *)
LEMMA EditorKeepsOnce ==
    ASSUME IInv, OnceInv, EditorStep, screen # "users", NEW k \in Nat \ {0}, SeesToIt(k)'
    PROVE  OnceOK(k)'
  <1>1. OnceOK(k) \/ (Opens /\ k = drafts + 1)
    BY StillSeenTo DEF OnceInv
  <1>2. CASE Opens
    BY <1>1, <1>2, OnceOpens
  <1>3. CASE ~Opens
    <2>1. OnceOK(k)
      BY <1>1, <1>3
    <2>2. CASE Alters
      BY <2>1, <2>2, OnceAlters
    <2>3. CASE Leaves
      BY <2>1, <2>3, OnceLeaves
    <2>4. ASSUME NEW op \in Ops, NEW r \in Requests, Sends(op, r)
          PROVE  OnceOK(k)'
      <3>1. losses' = losses /\ screen' = screen
        BY <2>4 DEF Sends, Mutate, counters
      <3>2. losses = 0 \/ screen \in {"groups", "members"}
        BY <3>1 DEF SeesToIt
      <3>3. QED
        BY <2>1, <2>4, <3>2, OnceSends
    <2>5. ASSUME NEW op \in Ops, NEW r \in Requests, GoesOn(op, r)
          PROVE  OnceOK(k)'
      BY <2>1, <2>5, OnceGoesOn
    <2>6. ASSUME NEW op \in Ops, Takes(op)
          PROVE  OnceOK(k)'
      <3>1. Ends(op) /\ (ed'.doc = Nothing => op # "save" /\ ed'.err = ed.err)
        BY <2>6, TakesEnds DEF Takes
      <3>2. QED
        BY <2>1, <3>1, OnceEnds
    <2>7. QED
      BY <1>3, <2>2, <2>3, <2>4, <2>5, <2>6 DEF EditorStep
  <1>4. QED
    BY <1>2, <1>3

(* Nor does the failing or giving up of a call undo it.                    *)
LEMMA EndsKeepOnce ==
    ASSUME IInv, OnceInv, NEW op \in Ops, Fail(op) \/ GiveUp(op), screen # "users",
           NEW k \in Nat \ {0}, SeesToIt(k)'
    PROVE  OnceOK(k)'
  <1>1. Ends(op) /\ \A o \in Ops \ {op} : ed'.err[o] = ed.err[o]
    BY FailEnds, GiveUpEnds
  <1>2. OnceOK(k)
    <2>1. SeesToIt(k) \/ (Opens /\ k = drafts + 1)
      BY <1>1, StillSeenTo
    <2>2. ~Opens
      BY <1>1 DEF Ends, Opens
    <2>3. QED
      BY <2>1, <2>2 DEF OnceInv
  <1>3. "save" \in Ops
    BY DEF Ops
  <1>4. CASE Fail(op)
    BY <1>1, <1>2, <1>3, <1>4, OnceEnds DEF Fail
  <1>5. CASE GiveUp(op)
    BY <1>1, <1>2, <1>3, <1>5, GiveUpEnds, OnceEnds
  <1>6. QED
    BY <1>4, <1>5

(* Neither does what the server does,                                      *)
LEMMA ServeKeepsOnce ==
    ASSUME IInv, OnceInv, NEW n \in Slots, Serve(n), screen # "users",
           NEW k \in Nat \ {0}, SeesToIt(k)'
    PROVE  OnceOK(k)'
  <1>1. ed' = ed /\ losses' = losses /\ screen' = screen
    BY ServesOne
  <1>2. SeesToIt(k)
    BY <1>1 DEF SeesToIt, Open
  <1>3. OnceOK(k)
    BY <1>2 DEF OnceInv
  <1>4. screen = "register" => ~(Open /\ ed.draft = k /\ ed.picked)
    BY <1>2 DEF SeesToIt
  <1>5. QED
    BY <1>3, <1>4, OnceCreated, OnceServed

(* nor the other editors, the list or time.                                *)
LEMMA UnservedKeepsOnce ==
    ASSUME IInv, OnceInv, NoBirth, UNCHANGED <<screen, ed, wire, awaits, losses>>, screen # "users",
           NEW k \in Nat \ {0}, SeesToIt(k)'
    PROVE  OnceOK(k)'
  <1>1. ed' = ed /\ losses' = losses /\ screen' = screen
    OBVIOUS
  <1>2. SeesToIt(k)
    BY <1>1 DEF SeesToIt, Open
  <1>3. QED
    BY <1>2, OnceUnserved DEF OnceInv

(* Only the server makes documents, and of a user's email one.             *)
LEMMA UsersKeepOnce ==
    ASSUME IInv, OnceInv, screen = "users", NEW n \in Slots, ServeCreate(n)
    PROVE  \A i, j \in Ids :
               Stored(i)' /\ Stored(j)' /\ docs'[i].by = docs'[j].by /\ docs'[i].by # 0
                   => i = j
  <1>1. PICK a \in Ids :
           /\ ~Stored(a) /\ docs'[a] # Nothing
           /\ docs'[a].by = wire[n].request.draft
           /\ \A j \in Ids \ {a} : docs'[j] = docs[j]
    BY CreateKeeps
  <1>2. \A i \in Ids : Stored(i) => docs[i].by # wire[n].request.draft
    BY DEF ServeCreate, Taken
  <1>3. \A i \in Ids : Stored(i)' => i = a \/ (Stored(i) /\ docs'[i] = docs[i])
    BY <1>1 DEF Stored
  <1>4. \A i \in Ids \ {a} : Stored(i)' => docs'[i].by # docs'[a].by
    BY <1>1, <1>2, <1>3
  <1>5. QED
    BY <1>3, <1>4 DEF OnceInv

(* Nothing but the carrying out of a create makes a document.             *)
LEMMA StepsGiveNoBirth ==
    ASSUME IInv, [Next]_vars, ~\E n \in Slots : ServeCreate(n)
    PROVE  NoBirth
  <1>1. CASE Screen \/ Redraw
    <2>1. EditorStep
      BY <1>1, ScreenSteps, RedrawAlters DEF EditorStep
    <2>2. docs' = docs
      BY <2>1 DEF EditorStep, Opens, Alters, Leaves, Close, Sends, GoesOn, Takes, InEditor, Mutate,
                  GoOn, HangUp, server
    <2>3. QED
      BY <2>2, EditorNoBirth
  <1>2. CASE \E op \in Ops : Fail(op) \/ GiveUp(op)
    BY <1>2, EditorNoBirth DEF Fail, GiveUp, HangUp, server
  <1>3. CASE Refetch \/ TimePasses \/ UNCHANGED vars
    BY <1>3, EditorNoBirth DEF Refetch, TimePasses, vars, server
  <1>4. CASE \E n \in Slots : Serve(n)
    BY <1>4, ServeKeeps
  <1>5. CASE \E i \in Ids : OthersSave(i) \/ OthersArchive(i)
    BY <1>5, OthersKeep
  <1>6. QED
    BY <1>1, <1>2, <1>3, <1>4, <1>5 DEF Next

(* A behaviour is about one screen.                                        *)
LEMMA ScreenStays ==
    ASSUME IInv, [Next]_vars
    PROVE  screen' = screen
  <1>1. CASE Screen \/ Redraw
    <2>1. EditorStep
      BY <1>1, ScreenSteps, RedrawAlters DEF EditorStep
    <2>2. QED
      BY <2>1 DEF EditorStep, Opens, Alters, Leaves, Close, Sends, GoesOn, Takes, InEditor, Mutate,
                  GoOn, HangUp
  <1>2. CASE \E op \in Ops : Fail(op) \/ GiveUp(op)
    BY <1>2 DEF Fail, GiveUp, HangUp
  <1>3. CASE Refetch \/ TimePasses \/ UNCHANGED vars
    BY <1>3 DEF Refetch, TimePasses, vars
  <1>4. CASE \E n \in Slots : Serve(n)
    BY <1>4, ServesOne
  <1>5. CASE \E i \in Ids : OthersSave(i) \/ OthersArchive(i)
    BY <1>5 DEF OthersSave, OthersArchive
  <1>6. QED
    BY <1>1, <1>2, <1>3, <1>4, <1>5 DEF Next

(* Every step keeps drafts created once.                                   *)
LEMMA NextKeepsOnce == IInv /\ OnceInv /\ [Next]_vars => OnceInv'
  <1> SUFFICES ASSUME IInv, OnceInv, [Next]_vars
               PROVE  OnceInv'
    OBVIOUS
  <1>1. screen' = screen
    BY ScreenStays
  <1>2. CASE screen = "users"
    <2>1. CASE \E n \in Slots : ServeCreate(n)
      BY <1>1, <1>2, <2>1, UsersKeepOnce DEF OnceInv
    <2>2. CASE ~\E n \in Slots : ServeCreate(n)
      <3>1. NoBirth
        BY <2>2, StepsGiveNoBirth
      <3>2. QED
        BY <1>1, <1>2, <3>1 DEF NoBirth, OnceInv
    <2>3. QED
      BY <2>1, <2>2
  <1>3. CASE screen # "users"
    <2> SUFFICES ASSUME NEW k \in Nat \ {0}, SeesToIt(k)'
                 PROVE  OnceOK(k)'
      BY <1>1, <1>3 DEF OnceInv
    <2>1. CASE Screen \/ Redraw
      BY <1>3, <2>1, ScreenSteps, RedrawAlters, EditorKeepsOnce DEF EditorStep
    <2>2. CASE \E op \in Ops : Fail(op) \/ GiveUp(op)
      BY <1>3, <2>2, EndsKeepOnce
    <2>3. CASE \E n \in Slots : Serve(n)
      BY <1>3, <2>3, ServeKeepsOnce
    <2>4. CASE Refetch \/ TimePasses \/ UNCHANGED vars
      <3>1. NoBirth /\ UNCHANGED <<screen, ed, wire, awaits, losses>>
        BY <2>4, EditorNoBirth DEF Refetch, TimePasses, vars, server, counters
      <3>2. QED
        BY <1>3, <3>1, UnservedKeepsOnce
    <2>5. CASE \E i \in Ids : OthersSave(i) \/ OthersArchive(i)
      <3>1. NoBirth /\ UNCHANGED <<screen, ed, wire, awaits, losses>>
        BY <2>5, OthersKeep DEF OthersSave, OthersArchive, counters
      <3>2. QED
        BY <1>3, <3>1, UnservedKeepsOnce
    <2>6. QED
      BY <2>1, <2>2, <2>3, <2>4, <2>5 DEF Next
  <1>4. QED
    BY <1>2, <1>3

(* A draft becomes one document: of a group, a member or a user whatever   *)
(* answers are lost, of any other where none is, and of a registration     *)
(* until its check-in has failed.  A create in flight, a created document  *)
(* and an editor that may still send the create exclude each other.        *)
THEOREM DraftsAreCreatedOnce == Spec => []CreatedOnce
  <1>1. IInv /\ OnceInv => CreatedOnce
    <2> SUFFICES ASSUME IInv, OnceInv, NEW i \in Ids, NEW j \in Ids, Stored(i), Stored(j),
                        docs[i].by = docs[j].by, docs[i].by # 0, SeesToIt(docs[i].by)
                 PROVE  i = j
      BY DEF CreatedOnce
    <2>1. docs[i].by \in Nat \ {0}
      BY StoredDoc, DocFields
    <2>2. CASE screen = "users"
      BY <2>2 DEF OnceInv
    <2>3. CASE screen # "users"
      <3>1. OnceOK(docs[i].by)
        BY <2>1, <2>3 DEF OnceInv
      <3>2. QED
        BY <3>1 DEF OnceOK, Born
    <2>4. QED
      BY <2>2, <2>3
  <1>2. QED
    BY <1>1, InvariantHolds, OnceAtFirst, NextKeepsOnce, PTL DEF Spec
===============================================================================

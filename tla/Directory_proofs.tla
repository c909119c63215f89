--------------------------- MODULE Directory_proofs ---------------------------
(***************************************************************************)
(* Every safety property of Directory for any number of requests, groups,  *)
(* members and receipts: what is archived stays so, late requests change   *)
(* nothing, groups have two levels, an archive leaves no active subgroup   *)
(* behind, and a purge that succeeds leaves nothing.                       *)
(***************************************************************************)
EXTENDS Directory, TLAPS

(* What a handler asks for and holds at each of its steps.                 *)
StepsHold ==
    \A r \in Requests :
        /\ pc[r] \in {"groups", "children", "write"} =>
               (seen[r] = NoDocument <=> call[r].op = "create")
        /\ pc[r] = "existing" => call[r].op \in {"update", "archive"}
        /\ pc[r] = "groups" => call[r].op \in {"create", "update"}
        /\ pc[r] = "children" => call[r].op = "archive"
        /\ pc[r] = "write" => call[r].op # "purge"
        /\ pc[r] \in {"list", "delete"} => call[r].op = "purge"

TypeInv == TypeOK /\ StepsHold
-----------------------------------------------------------------------------
(* Types.                                                                  *)

DocsOK == doc \in [Ids -> Docs \cup {NoDocument}] /\ minted \in SUBSET Ids

CallsOK ==
    /\ call \in [Requests -> Calls]
    /\ arrival \in [Requests -> [shut : BOOLEAN, there : SUBSET Ids, children : SUBSET Groups]]

HandlersOK ==
    /\ pc \in [Requests -> Steps]
    /\ seen \in [Requests -> Docs \cup {NoDocument}]
    /\ todo \in [Requests -> SUBSET Ids]
    /\ pass \in [Requests -> 0 .. Passes]
    /\ answer \in [Requests -> Granted \cup Refusals \cup {"none"}]
    /\ \A r \in Requests : pc[r] = "groups" => todo[r] \subseteq Groups

LEMMA TypeParts == TypeInv <=> DocsOK /\ CallsOK /\ HandlersOK /\ StepsHold
  BY DEF TypeInv, TypeOK, DocsOK, CallsOK, HandlersOK, StepsHold

LEMMA TypePartsNext == (DocsOK /\ CallsOK /\ HandlersOK /\ StepsHold)' => TypeInv'
  BY DEF TypeInv, TypeOK, DocsOK, CallsOK, HandlersOK, StepsHold

LEMMA AnswerKeepsType ==
    ASSUME HandlersOK, StepsHold, NEW r \in Requests, Answer(r, answer'[r]),
           answer'[r] \in Granted \cup Refusals, UNCHANGED call
    PROVE  HandlersOK' /\ StepsHold'
  <1>1. HandlersOK'
    BY PassesType DEF HandlersOK, Answer, Steps
  <1>2. StepsHold'
    BY DEF HandlersOK, StepsHold, Answer
  <1>3. QED
    BY <1>1, <1>2

(* A handler goes on to another step with what it holds from then on.      *)
LEMMA AwaitKeepsType ==
    ASSUME HandlersOK, StepsHold, UNCHANGED call, NEW r \in Requests,
           NEW step \in Steps, Await(r, step),
           NEW held \in Docs \cup {NoDocument}, seen' = [seen EXCEPT ![r] = held],
           NEW ids \in SUBSET Ids, todo' = [todo EXCEPT ![r] = ids],
           step = "groups" => ids \subseteq Groups,
           step \in {"groups", "children", "write"} =>
               (held = NoDocument <=> call[r].op = "create"),
           step = "existing" => call[r].op \in {"update", "archive"},
           step = "groups" => call[r].op \in {"create", "update"},
           step = "children" => call[r].op = "archive",
           step = "write" => call[r].op # "purge",
           step \in {"list", "delete"} => call[r].op = "purge"
    PROVE  HandlersOK' /\ StepsHold'
  <1>1. HandlersOK'
    BY DEF HandlersOK, Await
  <1>2. StepsHold'
    BY DEF HandlersOK, StepsHold, Await
  <1>3. QED
    BY <1>1, <1>2

LEMMA SameHeld ==
    ASSUME HandlersOK, NEW r \in Requests, UNCHANGED <<seen, todo>>
    PROVE  /\ seen[r] \in Docs \cup {NoDocument} /\ seen' = [seen EXCEPT ![r] = seen[r]]
           /\ todo[r] \in SUBSET Ids /\ todo' = [todo EXCEPT ![r] = todo[r]]
  BY DEF HandlersOK

LEMMA NeededGroups ==
    ASSUME CallsOK, NEW r \in Requests
    PROVE  Needed(r) \subseteq Groups /\ Needed(r) \subseteq Ids
  BY DEF CallsOK, Calls, Needed, Ids, Directory

LEMMA LookUpKeepsType ==
    ASSUME CallsOK, HandlersOK, StepsHold, UNCHANGED call, NEW r \in Requests,
           NEW held \in Docs \cup {NoDocument}, LookUp(r, held),
           held = NoDocument <=> call[r].op = "create",
           call[r].op \in {"create", "update"}
    PROVE  HandlersOK' /\ StepsHold'
  <1>1. PICK step \in {"groups", "write"} : Await(r, step)
    BY DEF LookUp
  <1>2. QED
    BY <1>1, NeededGroups, AwaitKeepsType DEF LookUp, Holding, Steps

(* Documents that a handler may write.                                     *)
LEMMA WrittenDocs ==
    ASSUME TypeInv, NEW r \in Requests
    PROVE  /\ Saved(r) \in Docs
           /\ seen[r] # NoDocument /\ Stored(call[r].id) => Closed(r) \in Docs
  <1>1. /\ call[r] \in Calls /\ call[r].id \in Ids /\ doc[call[r].id] \in Docs \cup {NoDocument}
        /\ seen[r] \in Docs \cup {NoDocument}
    BY TypeParts DEF CallsOK, DocsOK, HandlersOK, Calls, Ids
  <1>2. Saved(r) \in Docs
    <2>1. CASE Stored(call[r].id)
      BY <1>1, <2>1 DEF Saved, Stored, Docs, Calls
    <2>2. CASE ~Stored(call[r].id)
      BY <1>1, <2>2 DEF Saved, Docs, Calls
    <2>3. QED
      BY <2>1, <2>2
  <1>3. ASSUME seen[r] # NoDocument, Stored(call[r].id)
        PROVE  Closed(r) \in Docs
    <2>1. seen[r] \in Docs /\ doc[call[r].id] \in Docs
      BY <1>1, <1>3 DEF Stored
    <2>2. doc[call[r].id].etag + 1 \in Nat
      BY <2>1 DEF Docs
    <2>3. QED
      BY <2>1, <2>2 DEF Closed, Docs
  <1>4. QED
    BY <1>2, <1>3

LEMMA WriteKeepsType ==
    ASSUME TypeInv, UNCHANGED <<minted, call, arrival>>, NEW r \in Requests,
           NEW document \in Docs \cup {NoDocument}, NEW outcome \in Granted,
           Write(r, document, outcome)
    PROVE  TypeInv'
  <1>1. DocsOK'
    BY TypeParts DEF DocsOK, Write
  <1>2. HandlersOK' /\ StepsHold'
    <2>1. Answer(r, answer'[r]) /\ answer'[r] = outcome
      BY TypeParts DEF Write, Answer, HandlersOK
    <2>2. QED
      BY <2>1, TypeParts, AnswerKeepsType
  <1>3. QED
    BY <1>1, <1>2, TypeParts, TypePartsNext DEF CallsOK

LEMMA RefusalKeepsType ==
    ASSUME TypeInv, UNCHANGED <<doc, minted, call, arrival>>, NEW r \in Requests,
           NEW outcome \in Granted \cup Refusals, Answer(r, outcome)
    PROVE  TypeInv'
  <1>1. Answer(r, answer'[r]) /\ answer'[r] = outcome
    BY TypeParts DEF Answer, HandlersOK
  <1>2. HandlersOK' /\ StepsHold'
    BY <1>1, TypeParts, AnswerKeepsType
  <1>3. QED
    BY <1>2, TypeParts, TypePartsNext DEF CallsOK, DocsOK, Stored

LEMMA TypeInit == Init => TypeInv
  <1> SUFFICES ASSUME Init PROVE TypeInv
    OBVIOUS
  <1>1. DocsOK
    BY DEF Init, DocsOK, Docs, Ids, Directory
  <1>2. CallsOK
    BY DEF Init, CallsOK, Calls, NoCall, Directory
  <1>3. HandlersOK /\ StepsHold
    BY PassesType DEF Init, HandlersOK, StepsHold, Steps
  <1>4. QED
    BY <1>1, <1>2, <1>3, TypeParts

LEMMA AskedTypes ==
    ASSUME DocsOK, NEW asked \in Asked
    PROVE  /\ asked \in Calls
           /\ asked.op = "create" =>
                  asked.id \in Groups \cup Members /\ asked.id \notin minted
           /\ asked.op # "create" => Stored(asked.id) /\ asked.etag = doc[asked.id].etag
           /\ asked.parent \in minted \cup {None}
           /\ asked.groups \subseteq minted
  <1>1. \A d \in Ids : Stored(d) => doc[d] \in Docs
    BY DEF DocsOK, Stored
  <1>2. QED
    BY <1>1 DEF Asked, Calls, Docs, Directory, Ids

LEMMA ReadKeepsType ==
    ASSUME TypeInv, OnlyReads, (HandlersOK /\ StepsHold)'
    PROVE  TypeInv'
  BY TypeParts, TypePartsNext DEF OnlyReads, DocsOK, CallsOK, Stored

LEMMA RefusedUnlessRefuses == \A d : RefusedUnless(d) \in Refusals
  BY DEF RefusedUnless, Refusals

LEMMA ArriveKeepsType ==
    ASSUME TypeInv, NEW r \in Requests, Arrive(r)
    PROVE  TypeInv'
  <1>1. PICK asked \in Asked :
            /\ call' = [call EXCEPT ![r] = asked]
            /\ minted' = minted \cup {asked.id}
            /\ arrival' = [arrival EXCEPT ![r] =
                  [shut |-> Archived(Church),
                   there |-> {d \in Ids : Stored(d)},
                   children |-> {h \in Groups : Active(h) /\ doc[h].parent = asked.id}]]
            /\ Go(r, IF asked.op = "update" /\ asked.id = Church THEN "existing" ELSE "church")
    BY DEF Arrive
  <1>2. asked \in Calls /\ asked.id \in Ids
    BY TypeParts, AskedTypes DEF Calls, Ids
  <1>3. Archived(Church) \in BOOLEAN
    BY TypeParts DEF Archived, Stored, DocsOK, Docs, Ids, Directory
  <1>4. DocsOK'
    BY <1>1, <1>2, TypeParts DEF DocsOK, Arrive
  <1>5. CallsOK'
    BY <1>1, <1>2, <1>3, TypeParts DEF CallsOK
  <1>6. /\ pc' = [pc EXCEPT ![r] =
               IF asked.op = "update" /\ asked.id = Church THEN "existing" ELSE "church"]
        /\ UNCHANGED <<seen, todo, pass, answer>>
    BY <1>1 DEF Go, Await
  <1>7. HandlersOK'
    BY <1>6, TypeParts DEF HandlersOK, Steps
  <1>8. StepsHold'
    BY <1>1, <1>6, TypeParts DEF StepsHold, HandlersOK, CallsOK
  <1>9. QED
    BY <1>4, <1>5, <1>7, <1>8, TypePartsNext

LEMMA ReadChurchKeepsType ==
    ASSUME TypeInv, NEW r \in Requests, ReadChurch(r)
    PROVE  TypeInv'
  <1> USE TypeParts
  <1>1. UNCHANGED call /\ OnlyReads
    BY DEF ReadChurch, OnlyReads
  <1>2. CASE ~Active(Church)
    BY <1>1, <1>2, RefusalKeepsType, RefusedUnlessRefuses DEF ReadChurch, OnlyReads
  <1>3. CASE Active(Church) /\ call[r].op = "create"
    BY <1>1, <1>3, LookUpKeepsType, ReadKeepsType DEF ReadChurch
  <1>4. CASE Active(Church) /\ call[r].op # "create"
    <2>1. Go(r, "existing") /\ call[r].op \in {"update", "archive"}
      BY <1>4 DEF ReadChurch, CallsOK, Calls
    <2>2. HandlersOK' /\ StepsHold'
      BY <1>1, <2>1, SameHeld, AwaitKeepsType DEF Go, Steps
    <2>3. QED
      BY <1>1, <2>2, ReadKeepsType
  <1>5. QED
    BY <1>2, <1>3, <1>4

LEMMA ReadExistingKeepsType ==
    ASSUME TypeInv, NEW r \in Requests, ReadToUpdate(r) \/ ReadToArchive(r)
    PROVE  TypeInv'
  <1> USE TypeParts
  <1> DEFINE d == call[r].id
  <1>1. UNCHANGED call /\ OnlyReads /\ doc[d] \in Docs \cup {NoDocument}
    BY DEF ReadToUpdate, ReadToArchive, OnlyReads, DocsOK, CallsOK, Calls, Ids
  <1>2. CASE \E outcome \in Refusals : Answer(r, outcome)
    BY <1>1, <1>2, RefusalKeepsType DEF OnlyReads
  <1>3. CASE call[r].op = "update" /\ Stored(d) /\ LookUp(r, doc[d])
    BY <1>1, <1>3, LookUpKeepsType, ReadKeepsType DEF Stored
  <1>4. CASE /\ call[r].op = "archive" /\ Stored(d) /\ Holding(r, doc[d], {})
             /\ \E step \in {"children", "write"} : Await(r, step)
    <2>1. PICK step \in {"children", "write"} : Await(r, step)
      BY <1>4
    <2>2. /\ seen' = [seen EXCEPT ![r] = doc[d]] /\ todo' = [todo EXCEPT ![r] = {}]
          /\ doc[d] # NoDocument /\ {} \in SUBSET Ids /\ step \in Steps
      BY <1>4 DEF Holding, Stored, Steps
    <2>3. HandlersOK' /\ StepsHold'
      BY <1>1, <1>4, <2>1, <2>2, AwaitKeepsType
    <2>4. QED
      BY <1>1, <2>3, ReadKeepsType
  <1>5. QED
    BY <1>2, <1>3, <1>4, RefusedUnlessRefuses
       DEF ReadToUpdate, ReadToArchive, Active, Refusals

LEMMA ReadGroupKeepsType ==
    ASSUME TypeInv, NEW r \in Requests, NEW g \in Groups, ReadGroup(r, g)
    PROVE  TypeInv'
  <1> USE TypeParts
  <1>1. UNCHANGED call /\ OnlyReads
    BY DEF ReadGroup, OnlyReads
  <1>2. CASE \E outcome \in Refusals : Answer(r, outcome)
    BY <1>1, <1>2, RefusalKeepsType DEF OnlyReads
  <1>3. CASE /\ Holding(r, seen[r], todo[r] \ {g})
             /\ \E step \in {"groups", "write"} : Await(r, step)
    <2>1. /\ seen[r] \in Docs \cup {NoDocument}
          /\ todo[r] \ {g} \in SUBSET Ids /\ todo[r] \ {g} \subseteq Groups
          /\ seen[r] = NoDocument <=> call[r].op = "create"
          /\ call[r].op \in {"create", "update"}
      BY DEF HandlersOK, StepsHold, ReadGroup
    <2>2. HandlersOK' /\ StepsHold'
      BY <1>1, <1>3, <2>1, AwaitKeepsType DEF Holding, Steps
    <2>3. QED
      BY <1>1, <2>2, ReadKeepsType
  <1>4. QED
    BY <1>2, <1>3, RefusedUnlessRefuses DEF ReadGroup, Refusals

LEMMA ReadChildrenKeepsType ==
    ASSUME TypeInv, NEW r \in Requests, ReadChildren(r)
    PROVE  TypeInv'
  <1> USE TypeParts
  <1>1. UNCHANGED call /\ OnlyReads
    BY DEF ReadChildren, OnlyReads
  <1>2. CASE Answer(r, "has_subgroups")
    BY <1>1, <1>2, RefusalKeepsType DEF OnlyReads, Refusals
  <1>3. CASE Go(r, "write")
    <2>1. seen[r] # NoDocument /\ call[r].op = "archive"
      BY DEF StepsHold, ReadChildren
    <2>2. HandlersOK' /\ StepsHold'
      BY <1>1, <1>3, <2>1, SameHeld, AwaitKeepsType DEF Go, Steps
    <2>3. QED
      BY <1>1, <2>2, ReadKeepsType
  <1>4. QED
    BY <1>2, <1>3 DEF ReadChildren

LEMMA WritesKeepType ==
    ASSUME TypeInv, NEW r \in Requests, Create(r) \/ Replace(r)
    PROVE  TypeInv'
  <1> USE TypeParts
  <1>1. UNCHANGED <<minted, call, arrival>>
    BY DEF Create, Replace
  <1>2. CASE \E outcome \in Refusals : Answer(r, outcome) /\ UNCHANGED doc
    BY <1>1, <1>2, RefusalKeepsType
  <1>3. CASE \E outcome \in Granted : Write(r, Saved(r), outcome)
    BY <1>1, <1>3, WrittenDocs, WriteKeepsType
  <1>4. CASE /\ call[r].op = "archive" /\ pc[r] = "write" /\ Stored(call[r].id)
             /\ Write(r, Closed(r), "archived")
    <2>1. seen[r] # NoDocument
      BY <1>4 DEF StepsHold
    <2>2. QED
      BY <1>1, <1>4, <2>1, WrittenDocs, WriteKeepsType DEF Granted
  <1>5. QED
    BY <1>2, <1>3, <1>4
       DEF Create, Replace, Granted, Refusals, Stored, Store!MayReplace, Store!ReplaceRefusal

LEMMA PurgeKeepsType ==
    ASSUME TypeInv, NEW r \in Requests,
           \/ ReadPurged(r) \/ ListDocuments(r) \/ EndPass(r) \/ FailPurge(r)
           \/ \E d \in Ids : DeleteDocument(r, d)
    PROVE  TypeInv'
  <1> USE TypeParts
  <1>1. CASE \E outcome \in Granted \cup Refusals : Answer(r, outcome) /\ OnlyReads
    BY <1>1, RefusalKeepsType DEF OnlyReads
  <1>2. CASE ReadPurged(r) /\ Go(r, "list")
    <2>1. UNCHANGED call /\ OnlyReads /\ call[r].op = "purge"
      BY <1>2 DEF ReadPurged, OnlyReads
    <2>2. HandlersOK' /\ StepsHold'
      BY <1>2, <2>1, SameHeld, AwaitKeepsType DEF Go, Steps
    <2>3. QED
      BY <2>1, <2>2, ReadKeepsType
  <1>3. CASE ListDocuments(r)
    <2>1. UNCHANGED call /\ OnlyReads /\ call[r].op = "purge"
      BY <1>3 DEF ListDocuments, OnlyReads, StepsHold
    <2>2. Listed(pass[r]) \in SUBSET Ids
      BY DEF Listed, Container, Ids, Directory
    <2>3. HandlersOK' /\ StepsHold'
      BY <1>3, <2>1, <2>2, AwaitKeepsType DEF ListDocuments, Holding, Steps
    <2>4. QED
      BY <2>1, <2>3, ReadKeepsType
  <1>4. CASE EndPass(r) /\ pass[r] # Passes
    <2>1. pass[r] + 1 \in 0 .. Passes
      BY <1>4, PassesType DEF HandlersOK
    <2>2. /\ pc' = [pc EXCEPT ![r] = "list"] /\ pass' = [pass EXCEPT ![r] = @ + 1]
          /\ UNCHANGED <<seen, todo, answer, call>> /\ OnlyReads
      BY <1>4 DEF EndPass, OnlyReads
    <2>3. HandlersOK'
      BY <2>1, <2>2 DEF HandlersOK, Steps
    <2>4. StepsHold'
      BY <1>4, <2>2 DEF StepsHold, HandlersOK, EndPass
    <2>5. QED
      BY <2>2, <2>3, <2>4, ReadKeepsType
  <1>5. ASSUME NEW d \in Ids, DeleteDocument(r, d)
        PROVE  TypeInv'
    <2>1. DocsOK'
      BY <1>5 DEF DocsOK, DeleteDocument
    <2>2. HandlersOK' /\ StepsHold' /\ CallsOK'
      BY <1>5 DEF HandlersOK, StepsHold, CallsOK, DeleteDocument
    <2>3. QED
      BY <2>1, <2>2, TypePartsNext
  <1>6. QED
    BY <1>1, <1>2, <1>3, <1>4, <1>5
       DEF ReadPurged, EndPass, FailPurge, Granted, Refusals

LEMMA TypeStep ==
    ASSUME TypeInv, [Next]_vars
    PROVE  TypeInv'
  <1>1. CASE UNCHANGED vars
    BY <1>1 DEF TypeInv, TypeOK, StepsHold, vars, handler
  <1>2. CASE Next
    BY <1>2, ArriveKeepsType, ReadChurchKeepsType, ReadExistingKeepsType, ReadGroupKeepsType,
       ReadChildrenKeepsType, WritesKeepType, PurgeKeepsType
       DEF Next, Handle
  <1>3. QED
    BY <1>1, <1>2

(* Every variable keeps its type, and what a handler writes is complete.   *)
THEOREM TypeCorrect == Spec => []TypeOK
  <1>1. TypeInv => TypeOK
    BY DEF TypeInv
  <1>2. TypeInv /\ [Next]_vars => TypeInv'
    BY TypeStep
  <1>3. QED
    BY TypeInit, <1>1, <1>2, PTL DEF Spec
-----------------------------------------------------------------------------
(* New ids are fresh, and what a handler has seen of its document stays    *)
(* true as long as nobody writes.                                          *)

Pending(r) == call[r].op = "create" /\ pc[r] \notin {"waiting", "done"}

FreshIds ==
    /\ \A d \in Ids : Stored(d) => d \in minted
    /\ \A r \in Requests : call[r].id \in minted
    /\ \A r \in Requests : Pending(r) => ~Stored(call[r].id) /\ call[r].id # Church
    /\ \A r, s \in Requests : Pending(r) /\ s # r => call[s].id # call[r].id

(* An update that may still write by its caller's version found it active; *)
(* parents never change.                                                   *)
SeenAsStored ==
    \A r \in Requests :
        LET d == doc[call[r].id]
        IN  Stored(call[r].id) =>
                /\ call[r].op = "update" /\ pc[r] \in {"groups", "write"} =>
                       /\ call[r].etag <= d.etag /\ call[r].parent = d.parent
                       /\ call[r].etag = d.etag => d.active
                /\ call[r].op = "archive" /\ pc[r] \in {"children", "write"} =>
                       seen[r].parent = d.parent

DocInv == TypeInv /\ FreshIds /\ SeenAsStored

(* What may become of a document in a step.                                *)
Revised(d) ==
    /\ Stored(d) /\ doc'[d] \in Docs
    /\ doc'[d].etag = doc[d].etag + 1 /\ doc'[d].parent = doc[d].parent
    /\ doc'[d].active => doc[d].active

Born(d, r) ==
    /\ call[r].op = "create" /\ call[r].id = d
    /\ pc[r] = "write" /\ pc'[r] = "done"
    /\ ~Stored(d) /\ doc'[d] \in Docs /\ doc'[d].parent = call[r].parent

DocStep(r) ==
    \A d \in Ids :
        doc'[d] = doc[d] \/ doc'[d] = NoDocument \/ Revised(d) \/ Born(d, r)

OthersStay(r) ==
    \A s \in Requests \ {r} :
        /\ pc'[s] = pc[s] /\ seen'[s] = seen[s] /\ todo'[s] = todo[s] /\ pass'[s] = pass[s]
        /\ call'[s] = call[s] /\ answer'[s] = answer[s] /\ arrival'[s] = arrival[s]

Moves(r) == pc[r] \notin {"waiting", "done"} /\ UNCHANGED <<minted, call, arrival>>

LEMMA AnswerStays ==
    ASSUME TypeInv, NEW r \in Requests, NEW outcome, Answer(r, outcome), UNCHANGED <<call, arrival>>
    PROVE  OthersStay(r) /\ pc'[r] = "done" /\ answer'[r] = outcome
  BY TypeParts DEF HandlersOK, Answer, OthersStay

LEMMA AwaitStays ==
    ASSUME TypeInv, NEW r \in Requests, NEW step, Await(r, step), UNCHANGED <<call, arrival>>,
           NEW held, NEW ids, Holding(r, held, ids) \/ UNCHANGED <<seen, todo>>
    PROVE  OthersStay(r) /\ pc'[r] = step
  BY TypeParts DEF HandlersOK, Await, Holding, OthersStay

LEMMA Handles ==
    ASSUME TypeInv, NEW r \in Requests, Handle(r)
    PROVE  OthersStay(r) /\ (Arrive(r) \/ Moves(r))
  <1> USE TypeParts
  <1>1. CASE Arrive(r)
    BY <1>1 DEF Arrive, Go, Await, OthersStay, HandlersOK, CallsOK
  <1>2. CASE ReadChurch(r)
    BY <1>2, AnswerStays, AwaitStays DEF ReadChurch, LookUp, Go, OnlyReads, Moves
  <1>3. CASE ReadToUpdate(r) \/ ReadToArchive(r)
    BY <1>3, AnswerStays, AwaitStays DEF ReadToUpdate, ReadToArchive, LookUp, OnlyReads, Moves
  <1>4. CASE \E g \in Groups : ReadGroup(r, g)
    BY <1>4, AnswerStays, AwaitStays DEF ReadGroup, OnlyReads, Moves
  <1>5. CASE ReadChildren(r)
    BY <1>5, AnswerStays, AwaitStays DEF ReadChildren, Go, OnlyReads, Moves
  <1>6. CASE Create(r) \/ Replace(r)
    BY <1>6, AnswerStays DEF Create, Replace, Write, Moves
  <1>7. CASE ReadPurged(r) \/ ListDocuments(r) \/ FailPurge(r)
    BY <1>7, AnswerStays, AwaitStays
       DEF ReadPurged, ListDocuments, FailPurge, Go, OnlyReads, Moves
  <1>8. CASE EndPass(r)
    BY <1>8, AnswerStays DEF EndPass, OnlyReads, Moves, OthersStay, HandlersOK
  <1>9. CASE \E d \in Ids : DeleteDocument(r, d)
    BY <1>9 DEF DeleteDocument, Moves, OthersStay, HandlersOK
  <1>10. QED
    BY <1>1, <1>2, <1>3, <1>4, <1>5, <1>6, <1>7, <1>8, <1>9 DEF Handle

LEMMA DocSteps ==
    ASSUME DocInv, NEW r \in Requests, Handle(r)
    PROVE  DocStep(r)
  <1> USE TypeParts DEF DocInv
  <1>1. CASE UNCHANGED doc
    BY <1>1 DEF DocStep
  <1>2. CASE Create(r)
    <2>1. CASE doc[call[r].id] = NoDocument
      <3>1. /\ doc' = [doc EXCEPT ![call[r].id] = Saved(r)] /\ pc'[r] = "done"
            /\ Saved(r) \in Docs /\ Saved(r).parent = call[r].parent
        BY <1>2, <2>1, WrittenDocs, AnswerStays
           DEF Create, Write, Store!MayCreate, Saved
      <3>2. QED
        BY <1>2, <2>1, <3>1 DEF Create, DocStep, DocsOK, Born, Stored
    <2>2. CASE doc[call[r].id] # NoDocument
      BY <1>2, <2>2, <1>1 DEF Create, Store!MayCreate
    <2>3. QED
      BY <2>1, <2>2
  <1>3. CASE Replace(r)
    <2> DEFINE d == call[r].id
    <2>1. CASE Store!MayReplace(doc[d], call[r].etag)
      <3>1. Stored(d) /\ doc[d].etag = call[r].etag /\ d \in Ids /\ doc[d] \in Docs
        BY <2>1 DEF Store!MayReplace, Stored, DocsOK, CallsOK, Calls, Ids
      <3>2. CASE call[r].op = "update"
        <4>1. /\ Saved(r) \in Docs /\ Saved(r).parent = call[r].parent
              /\ Saved(r).etag = doc[d].etag + 1
          BY <3>1, WrittenDocs DEF Saved
        <4>2. doc[d].active /\ doc[d].parent = call[r].parent
          BY <1>3, <3>1, <3>2 DEF Replace, SeenAsStored
        <4>3. doc' = [doc EXCEPT ![d] = Saved(r)]
          BY <1>3, <2>1, <3>2 DEF Replace, Write
        <4>4. QED
          BY <3>1, <4>1, <4>2, <4>3 DEF DocStep, DocsOK, Revised
      <3>3. CASE call[r].op = "archive"
        <4>1. seen[r] # NoDocument /\ seen[r] \in Docs /\ seen[r].parent = doc[d].parent
          BY <1>3, <3>1, <3>3 DEF Replace, StepsHold, HandlersOK, SeenAsStored
        <4>2. /\ Closed(r) \in Docs /\ Closed(r).etag = doc[d].etag + 1
              /\ Closed(r).parent = doc[d].parent /\ ~Closed(r).active
          BY <3>1, <4>1, WrittenDocs DEF Closed, Docs
        <4>3. doc' = [doc EXCEPT ![d] = Closed(r)]
          BY <1>3, <2>1, <3>3 DEF Replace, Write
        <4>4. QED
          BY <3>1, <4>2, <4>3 DEF DocStep, DocsOK, Revised
      <3>4. QED
        BY <1>3, <3>2, <3>3 DEF Replace
    <2>2. CASE ~Store!MayReplace(doc[d], call[r].etag)
      BY <1>3, <2>2, <1>1 DEF Replace
    <2>3. QED
      BY <2>1, <2>2
  <1>4. CASE \E d \in Ids : DeleteDocument(r, d)
    BY <1>4 DEF DeleteDocument, DocStep, DocsOK
  <1>5. QED
    BY <1>1, <1>2, <1>3, <1>4
       DEF Handle, Arrive, ReadChurch, ReadToUpdate, ReadToArchive, ReadGroup, ReadChildren,
           ReadPurged, ListDocuments, EndPass, FailPurge, OnlyReads

LEMMA Arrives ==
    ASSUME TypeInv, NEW r \in Requests, Arrive(r)
    PROVE  /\ pc[r] = "waiting" /\ pc'[r] \in {"church", "existing"}
           /\ pc'[r] = "existing" => call'[r].op = "update" /\ call'[r].id = Church
           /\ UNCHANGED <<doc, answer>>
           /\ call'[r] \in Asked /\ minted' = minted \cup {call'[r].id}
           /\ arrival'[r] =
                  [shut |-> Archived(Church), there |-> {d \in Ids : Stored(d)},
                   children |-> {h \in Groups : Active(h) /\ doc[h].parent = call'[r].id}]
  BY TypeParts DEF Arrive, Go, Await, HandlersOK, CallsOK

LEMMA FreshStep ==
    ASSUME DocInv, NEW r \in Requests, Handle(r)
    PROVE  FreshIds'
  <1> USE DEF DocInv, FreshIds
  <1>1. OthersStay(r) /\ DocStep(r)
    BY Handles, DocSteps
  <1>2. CASE Arrive(r)
    <2>1. /\ call'[r].op = "create" =>
                 call'[r].id \notin minted /\ call'[r].id \in Groups \cup Members
          /\ call'[r].op # "create" => Stored(call'[r].id)
          /\ call'[r].id \in Ids
      BY <1>2, Arrives, AskedTypes, TypeParts DEF Calls, Ids
    <2>2. \A d \in Ids : Stored(d)' <=> Stored(d)
      BY <1>2, Arrives DEF Stored
    <2>3. \A s \in Requests \ {r} : (Pending(s)' <=> Pending(s)) /\ call'[s] = call[s]
      BY <1>1 DEF OthersStay, Pending
    <2>4. \A s \in Requests \ {r} : Pending(s) => call[s].id # call'[r].id
      BY <2>1
    <2>5. \A s \in Requests \ {r} : Pending(r)' => call[s].id # call'[r].id
      BY <2>1 DEF Pending
    <2>6. \A s \in Requests : call'[s].id \in Ids
      BY <2>1, <2>3, TypeParts DEF CallsOK, Calls, Ids
    <2>7. (\A d \in Ids : Stored(d)' => d \in minted') /\ \A s \in Requests : call'[s].id \in minted'
      BY <1>2, <2>2, <2>3, Arrives
    <2>8. \A s \in Requests :
              Pending(s)' => doc'[call'[s].id] = NoDocument /\ call'[s].id # Church
      <3>1. Pending(r)' => doc[call'[r].id] = NoDocument /\ call'[r].id # Church
        BY <2>1, ChurchApart DEF Pending, Stored
      <3>2. doc' = doc
        BY <1>2, Arrives
      <3>3. QED
        BY <2>3, <3>1, <3>2 DEF Stored
    <2>9. \A s, t \in Requests : Pending(s)' /\ t # s => call'[t].id # call'[s].id
      BY <2>3, <2>4, <2>5
    <2>10. QED
      BY <2>7, <2>8, <2>9 DEF Stored
  <1>3. CASE Moves(r)
    <2>1. \A s \in Requests : Pending(s)' => Pending(s)
      BY <1>1, <1>3 DEF Moves, OthersStay, Pending
    <2>2. \A d \in Ids : Stored(d)' => Stored(d) \/ Born(d, r)
      BY <1>1 DEF DocStep, Stored, Revised
    <2>3. \A d \in Ids : Born(d, r) => Pending(r) /\ ~Pending(r)' /\ d = call[r].id
      BY <1>3 DEF Born, Pending, Moves
    <2>4. \A s \in Requests : call[s].id \in Ids
      BY TypeParts DEF CallsOK, Calls, Ids
    <2>5. \A s \in Requests : Pending(s)' => doc'[call[s].id] = NoDocument
      BY <2>1, <2>2, <2>3, <2>4 DEF Stored
    <2>6. \A d \in Ids : Stored(d)' => d \in minted
      BY <2>2, <2>3
    <2>7. QED
      BY <1>3, <2>1, <2>5, <2>6 DEF Moves, Stored
  <1>4. QED
    BY <1>2, <1>3, Handles

(* What the steps of a handler that goes on have read.                     *)
LEMMA GoesOn ==
    ASSUME TypeInv, NEW r \in Requests, Handle(r), Moves(r),
           pc'[r] \in {"groups", "children", "write"}
    PROVE  /\ UNCHANGED doc
           /\ \/ /\ pc[r] = "church" /\ Active(Church) /\ call[r].op = "create"
                 /\ pc'[r] \in {"groups", "write"}
              \/ /\ pc[r] = "existing" /\ call[r].op = "update" /\ Active(call[r].id)
                 /\ doc[call[r].id].etag = call[r].etag
                 /\ doc[call[r].id].parent = call[r].parent
                 /\ pc'[r] \in {"groups", "write"}
              \/ /\ pc[r] = "existing" /\ call[r].op = "archive"
                 /\ pc'[r] = IF call[r].id \in Groups THEN "children" ELSE "write"
                 /\ seen'[r] = doc[call[r].id]
              \/ /\ pc[r] = "groups" /\ pc'[r] \in {"groups", "write"} /\ seen'[r] = seen[r]
              \/ /\ pc[r] = "children" /\ pc'[r] = "write" /\ seen'[r] = seen[r]
                 /\ ActiveSubgroups(call[r].id) = {}
  <1> USE TypeParts
  <1>1. CASE ReadChurch(r)
    <2>1. CASE ~Active(Church)
      BY <1>1, <2>1, AnswerStays DEF ReadChurch, OnlyReads
    <2>2. CASE Active(Church)
      BY <1>1, <2>2, AwaitStays DEF ReadChurch, LookUp, Go, OnlyReads
    <2>3. QED
      BY <2>1, <2>2
  <1>2. CASE ReadToUpdate(r)
    <2>1. CASE \E outcome : Answer(r, outcome)
      BY <1>2, <2>1, AnswerStays DEF ReadToUpdate, OnlyReads
    <2>2. CASE /\ Active(call[r].id) /\ doc[call[r].id].etag = call[r].etag
               /\ doc[call[r].id].parent = call[r].parent
      <3>1. LookUp(r, doc[call[r].id]) /\ UNCHANGED <<doc, call, arrival>>
        BY <1>2, <2>2 DEF ReadToUpdate, OnlyReads
      <3>2. pc'[r] \in {"groups", "write"}
        BY <3>1, AwaitStays DEF LookUp
      <3>3. QED
        BY <1>2, <2>2, <3>1, <3>2 DEF ReadToUpdate
    <2>3. QED
      BY <1>2, <2>1, <2>2 DEF ReadToUpdate
  <1>3. CASE ReadToArchive(r)
    <2>1. CASE Answer(r, "not_found")
      BY <1>3, <2>1, AnswerStays DEF ReadToArchive, OnlyReads
    <2>2. CASE /\ Await(r, IF call[r].id \in Groups THEN "children" ELSE "write")
               /\ Holding(r, doc[call[r].id], {})
      <3>1. pc'[r] = (IF call[r].id \in Groups THEN "children" ELSE "write") /\ seen'[r] = doc[call[r].id]
        BY <2>2 DEF Await, Holding, HandlersOK
      <3>2. QED
        BY <1>3, <3>1 DEF ReadToArchive, OnlyReads
    <2>3. QED
      BY <1>3, <2>1, <2>2 DEF ReadToArchive
  <1>4. ASSUME NEW g \in Groups, ReadGroup(r, g)
        PROVE  UNCHANGED doc /\ pc[r] = "groups" /\ pc'[r] \in {"groups", "write"} /\ seen'[r] = seen[r]
    <2>1. CASE \E outcome : Answer(r, outcome)
      BY <1>4, <2>1, AnswerStays DEF ReadGroup, OnlyReads
    <2>2. CASE /\ Await(r, IF todo[r] = {g} THEN "write" ELSE "groups")
               /\ Holding(r, seen[r], todo[r] \ {g})
      BY <1>4, <2>2 DEF ReadGroup, Await, Holding, HandlersOK, OnlyReads
    <2>3. QED
      BY <1>4, <2>1, <2>2 DEF ReadGroup
  <1>5. CASE ReadChildren(r)
    <2>1. CASE Answer(r, "has_subgroups")
      BY <1>5, <2>1, AnswerStays DEF ReadChildren, OnlyReads
    <2>2. CASE Go(r, "write") /\ ActiveSubgroups(call[r].id) = {}
      BY <1>5, <2>2 DEF ReadChildren, Go, Await, HandlersOK, OnlyReads
    <2>3. QED
      BY <1>5, <2>1, <2>2 DEF ReadChildren
  <1>6. CASE Create(r) \/ Replace(r)
    BY <1>6, AnswerStays DEF Create, Replace, Write
  <1>7. CASE ReadPurged(r) \/ ListDocuments(r) \/ FailPurge(r)
    BY <1>7, AnswerStays, AwaitStays DEF ReadPurged, ListDocuments, FailPurge, Go, OnlyReads
  <1>8. CASE EndPass(r)
    BY <1>8, AnswerStays DEF EndPass, OnlyReads, HandlersOK
  <1>9. CASE \E d \in Ids : DeleteDocument(r, d)
    BY <1>9 DEF DeleteDocument
  <1>10. QED
    BY <1>1, <1>2, <1>3, <1>4, <1>5, <1>6, <1>7, <1>8, <1>9 DEF Handle, Arrive, Moves

LEMMA SeenStep ==
    ASSUME DocInv, NEW r \in Requests, Handle(r)
    PROVE  SeenAsStored'
  <1> USE DEF DocInv
  <1>1. OthersStay(r) /\ DocStep(r)
    BY Handles, DocSteps
  <1> SUFFICES ASSUME NEW s \in Requests, doc'[call'[s].id] # NoDocument
               PROVE  LET d == doc'[call'[s].id]
                      IN  /\ call'[s].op = "update" /\ pc'[s] \in {"groups", "write"} =>
                                 /\ call'[s].etag <= d.etag /\ call'[s].parent = d.parent
                                 /\ call'[s].etag = d.etag => d.active
                          /\ call'[s].op = "archive" /\ pc'[s] \in {"children", "write"} =>
                                 seen'[s].parent = d.parent
    BY DEF SeenAsStored, Stored
  <1>2. call[s].id \in Ids /\ call[s].etag \in Nat
    BY TypeParts DEF CallsOK, Calls, Ids
  <1>3. Stored(call[s].id) => doc[call[s].id] \in Docs /\ doc[call[s].id].etag \in Nat
    BY <1>2, TypeParts DEF Stored, DocsOK, Docs
  <1>4. CASE s # r
    <2>1. call'[s] = call[s] /\ pc'[s] = pc[s] /\ seen'[s] = seen[s]
      BY <1>1, <1>4 DEF OthersStay
    <2>2. ~Born(call[s].id, r)
      BY <1>4 DEF Born, FreshIds, Pending
    <2>3. doc'[call[s].id] = doc[call[s].id] \/ Revised(call[s].id)
      BY <1>1, <1>2, <2>1, <2>2 DEF DocStep
    <2>4. Stored(call[s].id)
      BY <2>1, <2>3 DEF Stored, Revised
    <2>5. CASE doc'[call[s].id] = doc[call[s].id]
      BY <2>1, <2>4, <2>5 DEF SeenAsStored
    <2>6. CASE Revised(call[s].id)
      BY <1>2, <1>3, <2>1, <2>4, <2>6 DEF SeenAsStored, Revised
    <2>7. QED
      BY <2>3, <2>5, <2>6
  <1>5. CASE s = r /\ pc'[r] \in {"groups", "children", "write"}
    <2>1. Moves(r)
      BY <1>5, Handles, Arrives
    <2>2. UNCHANGED <<doc, call>> /\ Stored(call[r].id)
      BY <1>5, <2>1, GoesOn DEF Moves, Stored
    <2>3. CASE pc[r] = "groups" \/ pc[r] = "children"
      <3>1. seen'[r] = seen[r] /\ (pc[r] = "groups" => pc'[r] \in {"groups", "write"})
        BY <1>5, <2>1, <2>3, GoesOn
      <3>2. /\ pc[r] = "groups" => call[r].op \in {"create", "update"}
            /\ pc[r] = "children" => call[r].op = "archive"
        BY TypeParts DEF StepsHold
      <3>3. QED
        BY <1>5, <2>2, <2>3, <3>1, <3>2 DEF SeenAsStored
    <2>4. CASE pc[r] \notin {"groups", "children"}
      BY <1>2, <1>3, <1>5, <2>1, <2>2, <2>4, GoesOn DEF Active
    <2>5. QED
      BY <2>3, <2>4
  <1>6. QED
    BY <1>4, <1>5

LEMMA DocInit == Init => DocInv
  <1> SUFFICES ASSUME Init PROVE DocInv
    OBVIOUS
  <1>1. FreshIds
    BY DEF Init, FreshIds, Pending, Stored, NoCall
  <1>2. SeenAsStored
    BY DEF Init, SeenAsStored
  <1>3. QED
    BY <1>1, <1>2, TypeInit DEF DocInv

LEMMA DocInvStep ==
    ASSUME DocInv, [Next]_vars
    PROVE  DocInv'
  <1>1. CASE UNCHANGED vars
    BY <1>1 DEF DocInv, TypeInv, TypeOK, StepsHold, FreshIds, Pending, SeenAsStored, Stored,
                vars, handler
  <1>2. CASE Next
    BY <1>2, FreshStep, SeenStep, TypeStep DEF Next, DocInv
  <1>3. QED
    BY <1>1, <1>2

(* No step makes a document active that is archived.                       *)
LEMMA StayArchived ==
    ASSUME DocInv, [Next]_vars, NEW d \in Ids, Archived(d)
    PROVE  ~Active(d)'
  <1>1. CASE UNCHANGED vars
    BY <1>1 DEF vars, Active, Archived
  <1>2. CASE Next
    <2>1. PICK r \in Requests : Handle(r)
      BY <1>2 DEF Next
    <2>2. \/ doc'[d] = doc[d] \/ doc'[d] = NoDocument \/ Revised(d) \/ Born(d, r)
      BY <2>1, DocSteps DEF DocStep
    <2>3. QED
      BY <2>2 DEF Active, Archived, Revised, Born, Stored
  <1>3. QED
    BY <1>1, <1>2

(* An archived document is never active again: an update that meets an     *)
(* archive is refused by its version (DirectoryService.Save).              *)
THEOREM ArchivedStays == Spec => NeverReactivated
  <1>1. DocInv /\ [Next]_vars => [\A d \in Ids : Archived(d) => ~Active(d)']_vars
    BY StayArchived
  <1>2. DocInv /\ [Next]_vars => DocInv'
    BY DocInvStep
  <1>3. QED
    BY DocInit, <1>1, <1>2, PTL DEF Spec, NeverReactivated
-----------------------------------------------------------------------------
(* What comes after the church was archived changes nothing.               *)

(* Once the church is archived or gone, a later request gets no further    *)
(* than the read that finds it so.                                         *)
LateInv ==
    \A r \in Requests :
        /\ pc[r] = "waiting" => answer[r] = "none"
        /\ arrival[r].shut =>
               /\ ~Active(Church)
               /\ answer[r] \notin {"saved", "archived"}
               /\ pc[r] \notin {"groups", "children", "write"}
               /\ pc[r] = "existing" => call[r].id = Church /\ call[r].op = "update"

LEMMA ChurchStaysShut ==
    ASSUME DocInv, [Next]_vars, ~Active(Church)
    PROVE  ~Active(Church)'
  <1>1. Church \in Ids
    BY DEF Ids, Directory
  <1>2. CASE Archived(Church)
    BY <1>1, <1>2, StayArchived
  <1>3. CASE ~Stored(Church) /\ UNCHANGED vars
    BY <1>3 DEF vars, Active, Stored
  <1>4. ASSUME ~Stored(Church), NEW r \in Requests, Handle(r)
        PROVE  ~Active(Church)'
    <2>1. ~Born(Church, r)
      BY DEF DocInv, FreshIds, Born, Pending
    <2>2. QED
      BY <1>1, <1>4, <2>1, DocSteps DEF DocStep, Revised, Active, Stored
  <1>5. QED
    BY <1>2, <1>3, <1>4 DEF Next, Archived, Active

(* What a handler answers with success it has written in that step.        *)
LEMMA SuccessIsWritten ==
    ASSUME TypeInv, NEW r \in Requests, Handle(r), Moves(r)
    PROVE  /\ answer'[r] \in {"saved", "archived"} => pc[r] = "write" \/ answer'[r] = answer[r]
           /\ answer'[r] = "archived" => call[r].op = "archive" \/ answer'[r] = answer[r]
           /\ pc'[r] = "existing" => pc[r] = "church" /\ Active(Church)
           /\ pc'[r] # "waiting"
  <1> USE TypeParts
  <1>1. CASE ReadChurch(r)
    <2>1. CASE ~Active(Church)
      BY <1>1, <2>1, AnswerStays, RefusedUnlessRefuses DEF ReadChurch, OnlyReads, RefusedUnless
    <2>2. CASE Active(Church)
      BY <1>1, <2>2, AwaitStays DEF ReadChurch, LookUp, Go, Await, OnlyReads
    <2>3. QED
      BY <2>1, <2>2
  <1>2. CASE ReadToUpdate(r)
    <2>1. CASE \E outcome \in Refusals : Answer(r, outcome)
      BY <1>2, <2>1, AnswerStays DEF ReadToUpdate, OnlyReads, Refusals
    <2>2. CASE LookUp(r, doc[call[r].id])
      BY <1>2, <2>2, AwaitStays DEF ReadToUpdate, LookUp, Await, OnlyReads
    <2>3. QED
      BY <1>2, <2>1, <2>2, RefusedUnlessRefuses DEF ReadToUpdate, Refusals
  <1>3. CASE ReadToArchive(r)
    <2>1. CASE Answer(r, "not_found")
      BY <1>3, <2>1, AnswerStays DEF ReadToArchive, OnlyReads
    <2>2. CASE Await(r, IF call[r].id \in Groups THEN "children" ELSE "write")
      BY <1>3, <2>2 DEF Await, HandlersOK
    <2>3. QED
      BY <1>3, <2>1, <2>2 DEF ReadToArchive
  <1>4. ASSUME NEW g \in Groups, ReadGroup(r, g)
        PROVE  /\ answer'[r] \in {"saved", "archived"} => answer'[r] = answer[r]
               /\ pc'[r] \notin {"existing", "waiting"}
    <2>1. CASE \E outcome \in Refusals : Answer(r, outcome)
      BY <1>4, <2>1, AnswerStays DEF ReadGroup, OnlyReads, Refusals
    <2>2. CASE Await(r, IF todo[r] = {g} THEN "write" ELSE "groups")
      BY <2>2 DEF Await, HandlersOK
    <2>3. QED
      BY <1>4, <2>1, <2>2, RefusedUnlessRefuses DEF ReadGroup, Refusals
  <1>5. CASE ReadChildren(r)
    <2>1. CASE Answer(r, "has_subgroups")
      BY <1>5, <2>1, AnswerStays DEF ReadChildren, OnlyReads
    <2>2. CASE Go(r, "write")
      BY <2>2 DEF Go, Await, HandlersOK
    <2>3. QED
      BY <1>5, <2>1, <2>2 DEF ReadChildren
  <1>6. CASE Create(r) \/ Replace(r)
    <2>1. PICK outcome : /\ Answer(r, outcome) /\ pc[r] = "write"
                         /\ outcome = "archived" => call[r].op = "archive"
      BY <1>6, RefusedUnlessRefuses
         DEF Create, Replace, Write, Store!ReplaceRefusal
    <2>2. QED
      BY <2>1, <1>6, AnswerStays DEF Moves
  <1>7. CASE ReadPurged(r)
    <2>1. CASE \E outcome \in Refusals : Answer(r, outcome)
      BY <1>7, <2>1, AnswerStays DEF ReadPurged, OnlyReads, Refusals
    <2>2. CASE Go(r, "list")
      BY <2>2 DEF Go, Await, HandlersOK
    <2>3. QED
      BY <1>7, <2>1, <2>2 DEF ReadPurged, Refusals
  <1>8. CASE ListDocuments(r)
    BY <1>8 DEF ListDocuments, Await, HandlersOK
  <1>9. CASE EndPass(r) \/ FailPurge(r)
    BY <1>9 DEF EndPass, FailPurge, Answer, HandlersOK
  <1>10. CASE \E d \in Ids : DeleteDocument(r, d)
    BY <1>10 DEF DeleteDocument, Moves
  <1>11. QED
    BY <1>1, <1>2, <1>3, <1>4, <1>5, <1>6, <1>7, <1>8, <1>9, <1>10 DEF Handle, Arrive, Moves

LEMMA LateStep ==
    ASSUME DocInv, LateInv, [Next]_vars
    PROVE  LateInv'
  <1> USE DEF DocInv
  <1>1. CASE UNCHANGED vars
    BY <1>1 DEF LateInv, vars, handler, Active, Stored
  <1>2. ASSUME NEW r \in Requests, Handle(r)
        PROVE  LateInv'
    <2>1. OthersStay(r) /\ (Arrive(r) \/ Moves(r))
      BY <1>2, Handles
    <2>2. ~Active(Church) => ~Active(Church)'
      BY ChurchStaysShut
    <2> SUFFICES ASSUME NEW s \in Requests
                 PROVE  /\ pc'[s] = "waiting" => answer'[s] = "none"
                        /\ arrival'[s].shut =>
                               /\ ~Active(Church)'
                               /\ answer'[s] \notin {"saved", "archived"}
                               /\ pc'[s] \notin {"groups", "children", "write"}
                               /\ pc'[s] = "existing" =>
                                      call'[s].id = Church /\ call'[s].op = "update"
      BY DEF LateInv
    <2>3. CASE s # r
      BY <2>1, <2>2, <2>3 DEF OthersStay, LateInv
    <2>4. CASE s = r /\ Arrive(r)
      <3>1. /\ pc[r] = "waiting" /\ pc'[r] \in {"church", "existing"}
            /\ pc'[r] = "existing" => call'[r].op = "update" /\ call'[r].id = Church
            /\ answer'[r] = answer[r] /\ arrival'[r].shut = Archived(Church)
        <4>1. TypeInv /\ Arrive(r)
          BY <2>4
        <4>2. arrival'[r] =
                  [shut |-> Archived(Church), there |-> {d \in Ids : Stored(d)},
                   children |-> {h \in Groups : Active(h) /\ doc[h].parent = call'[r].id}]
          BY <4>1, Arrives
        <4>3. answer' = answer
          BY <4>1, Arrives
        <4>4. QED
          BY <4>1, <4>2, <4>3, Arrives
      <3>2. answer'[r] = "none"
        BY <3>1 DEF LateInv
      <3>3. arrival'[r].shut => ~Active(Church)
        <4>1. Archived(Church) => ~Active(Church)
          BY DEF Archived, Active
        <4>2. QED
          BY <3>1, <4>1
      <3>4. QED
        BY <2>2, <2>4, <3>1, <3>2, <3>3
    <2>5. CASE s = r /\ Moves(r)
      <3>1. arrival'[r] = arrival[r] /\ call'[r] = call[r]
        BY <2>5 DEF Moves
      <3>2. arrival[r].shut => pc'[r] \notin {"groups", "children", "write"}
        BY <1>2, <2>5, GoesOn, TypeParts DEF LateInv, StepsHold
      <3>3. QED
        BY <1>2, <2>2, <2>5, <3>1, <3>2, SuccessIsWritten DEF LateInv
    <2>6. QED
      BY <2>1, <2>3, <2>4, <2>5
  <1>3. QED
    BY <1>1, <1>2 DEF Next

(* A save or archive that arrives after the church was archived is refused *)
(* whatever else is under way (DirectoryService.Get with active: true).    *)
THEOREM LateIsRefused == Spec => []LateChangeRefused
  <1>1. Init => LateInv
    BY DEF Init, LateInv
  <1>2. LateInv => LateChangeRefused
    BY DEF LateInv, LateChangeRefused
  <1>3. DocInv /\ LateInv /\ [Next]_vars => DocInv' /\ LateInv'
    BY DocInvStep, LateStep
  <1>4. QED
    BY DocInit, <1>1, <1>2, <1>3, PTL DEF Spec
-----------------------------------------------------------------------------
(* Groups have two levels.                                                 *)

(* A create that has found its parent on top.                              *)
Checked(r) ==
    /\ call[r].op = "create" /\ call[r].parent # None
    /\ pc[r] = "write" \/ (pc[r] = "groups" /\ call[r].parent \notin todo[r])

(* A parent is a document that has an id, and nobody has a document for a  *)
(* parent before that parent is written.                                   *)
KnownParents ==
    /\ \A d \in Ids : Stored(d) => doc[d].parent \in minted \cup {None}
    /\ \A r \in Requests : call[r].parent \in minted \cup {None}
    /\ \A r \in Requests : Pending(r) =>
           /\ \A d \in Ids : Stored(d) => doc[d].parent # call[r].id
           /\ \A s \in Requests : Checked(s) => call[s].parent # call[r].id

CheckedParents ==
    \A r \in Requests :
        Checked(r) /\ Stored(call[r].parent) => doc[call[r].parent].parent = None

NoGrandparents ==
    \A d \in Ids : Stored(d) /\ doc[d].parent # None /\ Stored(doc[d].parent) =>
        doc[doc[d].parent].parent = None

ParentInv == KnownParents /\ CheckedParents /\ NoGrandparents

(* A create comes to have checked its parent by reading it as a group that *)
(* is active and on top.                                                   *)
LEMMA ChecksParent ==
    ASSUME TypeInv, NEW r \in Requests, Handle(r), Moves(r), Checked(r)', ~Checked(r)
    PROVE  /\ UNCHANGED doc
           /\ Stored(call[r].parent) /\ doc[call[r].parent].parent = None
  <1> USE TypeParts
  <1>1. /\ call'[r] = call[r] /\ call[r].op = "create" /\ call[r].parent # None
        /\ pc'[r] \in {"groups", "write"}
    BY DEF Moves, Checked
  <1>2. UNCHANGED doc /\ pc[r] \in {"church", "groups"}
    BY <1>1, GoesOn DEF StepsHold
  <1>3. CASE ReadChurch(r)
    <2>1. LookUp(r, NoDocument)
      BY <1>1, <1>3, AnswerStays DEF ReadChurch, OnlyReads
    <2>2. call[r].parent \in Needed(r)
      BY <1>1 DEF Needed
    <2>3. pc'[r] = "groups" /\ todo'[r] = Needed(r)
      BY <2>1, <2>2 DEF LookUp, Await, Holding, HandlersOK
    <2>4. QED
      BY <1>1, <2>2, <2>3 DEF Checked
  <1>4. ASSUME NEW g \in Groups, ReadGroup(r, g)
        PROVE  Stored(call[r].parent) /\ doc[call[r].parent].parent = None
    <2>1. /\ Active(g) /\ ~(g = call[r].parent /\ ~TopLevel(g))
          /\ Await(r, IF todo[r] = {g} THEN "write" ELSE "groups")
          /\ Holding(r, seen[r], todo[r] \ {g})
      BY <1>1, <1>4, AnswerStays DEF ReadGroup, OnlyReads
    <2>2. pc'[r] = (IF todo[r] = {g} THEN "write" ELSE "groups") /\ todo'[r] = todo[r] \ {g}
      BY <2>1 DEF Await, Holding, HandlersOK
    <2>3. g = call[r].parent
      BY <1>1, <1>4, <2>2 DEF Checked, ReadGroup
    <2>4. QED
      BY <2>1, <2>3 DEF Active, TopLevel
  <1>5. ReadChurch(r) \/ \E g \in Groups : ReadGroup(r, g)
    BY <1>1, <1>2
       DEF Handle, Arrive, ReadToUpdate, ReadToArchive, ReadChildren, Create, Replace,
           ReadPurged, ListDocuments, EndPass, FailPurge, DeleteDocument
  <1>6. QED
    BY <1>2, <1>3, <1>4, <1>5

LEMMA ParentStep ==
    ASSUME DocInv, ParentInv, NEW r \in Requests, Handle(r)
    PROVE  ParentInv'
  <1> USE DEF DocInv, ParentInv
  <1>1. OthersStay(r) /\ DocStep(r)
    BY Handles, DocSteps
  <1>2. \A s \in Requests : call[s].id \in Ids /\ call[s].id # None
    BY TypeParts, NoneApart DEF CallsOK, Calls, Ids, Directory
  <1>3. CASE Arrive(r)
    <2>1. /\ doc' = doc /\ minted' = minted \cup {call'[r].id} /\ ~Checked(r)'
          /\ call'[r].parent \in minted \cup {None}
          /\ Pending(r)' => call'[r].id \notin minted \cup {None}
      <3>1. call'[r] \in Asked /\ pc'[r] \in {"church", "existing"}
        BY <1>3, Arrives
      <3>2. call'[r].op = "create" => call'[r].id \notin minted \cup {None}
        BY <3>1, AskedTypes, TypeParts, NoneApart
      <3>3. QED
        BY <1>3, <3>1, <3>2, Arrives, AskedTypes, TypeParts DEF Checked, Pending
    <2>2. \A s \in Requests : s # r =>
              /\ (Checked(s)' <=> Checked(s)) /\ (Pending(s)' <=> Pending(s))
              /\ call'[s] = call[s]
      BY <1>1 DEF OthersStay, Checked, Pending
    <2>3. \A d \in Ids : doc'[d] = doc[d]
      BY <2>1
    <2>4. NoGrandparents'
      BY <2>1 DEF NoGrandparents, Stored
    <2>5. CheckedParents'
      BY <2>1, <2>2 DEF CheckedParents, Stored
    <2>6. KnownParents'
      <3>1. /\ \A d \in Ids : Stored(d)' => doc'[d].parent \in minted' \cup {None}
            /\ \A s \in Requests : call'[s].parent \in minted' \cup {None}
        BY <2>1, <2>2 DEF KnownParents, Stored
      <3>2. ASSUME NEW s \in Requests, Pending(s)'
            PROVE  /\ \A d \in Ids : Stored(d)' => doc'[d].parent # call'[s].id
                   /\ \A t \in Requests : Checked(t)' => call'[t].parent # call'[s].id
        <4>1. CASE s = r
          BY <2>1, <2>2, <3>2, <4>1 DEF KnownParents, Stored
        <4>2. CASE s # r
          BY <2>1, <2>2, <3>2, <4>2 DEF KnownParents, Stored
        <4>3. QED
          BY <4>1, <4>2
      <3>3. QED
        BY <3>1, <3>2 DEF KnownParents
    <2>7. QED
      BY <2>4, <2>5, <2>6
  <1>4. CASE Moves(r)
    <2>1. call' = call /\ minted' = minted /\ \A s \in Requests : Pending(s)' => Pending(s)
      BY <1>1, <1>4 DEF Moves, OthersStay, Pending
    <2>2. \A s \in Requests : s # r => (Checked(s)' <=> Checked(s))
      BY <1>1 DEF OthersStay, Checked
    <2>3. \A d \in Ids : Stored(d)' =>
              \/ Stored(d) /\ doc'[d].parent = doc[d].parent
              \/ /\ d = call[r].id /\ Pending(r) /\ ~Stored(d) /\ doc'[d].parent = call[r].parent
                 /\ call[r].parent # None => Checked(r)
      BY <1>1 DEF DocStep, Stored, Revised, Born, Pending, Checked
    <2>4. \A s \in Requests : Pending(s) => call[s].id # None
      BY <1>2
    <2>5. \A s \in Requests : Checked(s)' =>
              Checked(s) \/ (doc' = doc /\ Stored(call[s].parent) /\ doc[call[s].parent].parent = None)
      BY <1>4, <2>2, ChecksParent
    <2>6. KnownParents'
      <3>1. ASSUME NEW s \in Requests, Pending(s)'
            PROVE  /\ \A d \in Ids : Stored(d)' => doc'[d].parent # call'[s].id
                   /\ \A t \in Requests : Checked(t)' => call'[t].parent # call'[s].id
        <4>1. Pending(s) /\ call[s].id # None /\ ~Stored(call[s].id)
          BY <2>1, <2>4, <3>1 DEF FreshIds
        <4>2. QED
          BY <2>1, <2>3, <2>5, <4>1 DEF KnownParents
      <3>2. QED
        BY <2>1, <2>3, <3>1 DEF KnownParents
    <2>7. \A s \in Requests, g \in Ids :
              Checked(s) /\ g = call[s].parent /\ Stored(g)' =>
                  Stored(g) /\ doc'[g].parent = None
      BY <2>3 DEF KnownParents, CheckedParents
    <2>8. \A s \in Requests : call[s].parent # None => call[s].parent \in Ids
      BY TypeParts DEF CallsOK, Calls, Ids, Directory
    <2>9. CheckedParents'
      <3> SUFFICES ASSUME NEW s \in Requests, Checked(s)', doc'[call[s].parent] # NoDocument
                   PROVE  doc'[call[s].parent].parent = None
        BY <2>1 DEF CheckedParents, Stored
      <3>1. CASE Checked(s)
        <4>1. call[s].parent \in Ids
          BY <2>8, <3>1 DEF Checked
        <4>2. QED
          BY <2>7, <3>1, <4>1 DEF Stored
      <3>2. CASE ~Checked(s)
        BY <2>5, <3>2
      <3>3. QED
        BY <3>1, <3>2
    <2>10. NoGrandparents'
      <3> SUFFICES ASSUME NEW d \in Ids, Stored(d)', NEW p, p = doc'[d].parent, p # None,
                          doc'[p] # NoDocument
                   PROVE  doc'[p].parent = None
        BY DEF NoGrandparents, Stored
      <3>1. p \in Ids
        <4>1. doc'[d] \in Docs
          BY <2>1, TypeStep, TypePartsNext, <1>1 DEF Stored, DocStep, Revised, Born, DocsOK, TypeInv, TypeOK
        <4>2. QED
          BY <4>1 DEF Docs, Ids, Directory
      <3>2. CASE Stored(d) /\ p = doc[d].parent
        <4>1. Stored(p) /\ doc'[p].parent = doc[p].parent
          <5>1. \A s \in Requests : Pending(s) => p # call[s].id
            BY <3>2 DEF KnownParents
          <5>2. QED
            BY <2>3, <3>1, <5>1 DEF Stored
        <4>2. QED
          BY <3>2, <4>1 DEF NoGrandparents
      <3>3. CASE p = call[r].parent /\ Checked(r)
        BY <2>7, <3>1, <3>3 DEF Stored
      <3>4. QED
        BY <2>3, <3>2, <3>3
    <2>11. QED
      BY <2>6, <2>9, <2>10
  <1>5. QED
    BY <1>3, <1>4, Handles

(* Groups have two levels however creates and updates interleave: a        *)
(* parent's own parent never changes, so what a create has checked before  *)
(* it writes still holds when it writes (DirectoryService.Save).           *)
THEOREM LevelsAreTwo == Spec => []TwoLevels
  <1>1. Init => ParentInv
    <2> SUFFICES ASSUME Init PROVE ParentInv
      OBVIOUS
    <2>1. KnownParents
      BY DEF Init, KnownParents, Stored, Pending, NoCall
    <2>2. CheckedParents /\ NoGrandparents
      BY DEF Init, CheckedParents, NoGrandparents, Checked, Stored, NoCall
    <2>3. QED
      BY <2>1, <2>2 DEF ParentInv
  <1>2. ParentInv => TwoLevels
    BY DEF ParentInv, NoGrandparents, TwoLevels, Ids, Directory
  <1>3. DocInv /\ ParentInv /\ [Next]_vars => DocInv' /\ ParentInv'
    <2> SUFFICES ASSUME DocInv, ParentInv, [Next]_vars PROVE DocInv' /\ ParentInv'
      OBVIOUS
    <2>1. CASE UNCHANGED vars
      BY <2>1, DocInvStep
         DEF ParentInv, KnownParents, CheckedParents, NoGrandparents, Checked, Pending, Stored,
             vars, handler
    <2>2. CASE Next
      BY <2>2, DocInvStep, ParentStep DEF Next
    <2>3. QED
      BY <2>1, <2>2
  <1>4. QED
    BY DocInit, <1>1, <1>2, <1>3, PTL DEF Spec
-----------------------------------------------------------------------------
(* What was there when a request arrived.                                  *)

(* No new document gets the id of one that has been there.                 *)
OldIds ==
    \A r \in Requests :
        /\ arrival[r].there \subseteq minted
        /\ arrival[r].children \subseteq arrival[r].there
        /\ \A s \in Requests : Pending(s) => call[s].id \notin arrival[r].there

LEMMA OldStep ==
    ASSUME DocInv, OldIds, NEW r \in Requests, Handle(r)
    PROVE  OldIds'
  <1> USE DEF DocInv
  <1>1. OthersStay(r)
    BY Handles
  <1>2. CASE Arrive(r)
    <2>1. /\ minted' = minted \cup {call'[r].id}
          /\ Pending(r)' => call'[r].id \notin minted
          /\ arrival'[r].there \subseteq minted
          /\ arrival'[r].children \subseteq arrival'[r].there
          /\ \A s \in Requests : Pending(s) => call[s].id \notin arrival'[r].there
      <3>1. call'[r] \in Asked /\ minted' = minted \cup {call'[r].id}
        BY <1>2, Arrives
      <3>2. call'[r].op = "create" => call'[r].id \notin minted
        BY <3>1, AskedTypes, TypeParts
      <3>3. arrival'[r] =
                [shut |-> Archived(Church), there |-> {d \in Ids : Stored(d)},
                 children |-> {h \in Groups : Active(h) /\ doc[h].parent = call'[r].id}]
        BY <1>2, Arrives
      <3>4. arrival'[r].there = {d \in Ids : Stored(d)}
        BY <3>3
      <3>5. arrival'[r].children \subseteq arrival'[r].there
        BY <3>3 DEF Active, Ids, Directory
      <3>6. QED
        BY <3>1, <3>2, <3>4, <3>5 DEF FreshIds, Pending
    <2>2. \A s \in Requests : s # r =>
              (Pending(s)' <=> Pending(s)) /\ call'[s] = call[s] /\ arrival'[s] = arrival[s]
      BY <1>1 DEF OthersStay, Pending
    <2>3. QED
      BY <2>1, <2>2 DEF OldIds
  <1>3. CASE Moves(r)
    <2>1. \A s \in Requests : Pending(s)' => Pending(s)
      BY <1>1, <1>3 DEF Moves, OthersStay, Pending
    <2>2. QED
      BY <1>3, <2>1 DEF Moves, OldIds
  <1>4. QED
    BY <1>2, <1>3, Handles

LEMMA OldStaysGone ==
    ASSUME DocInv, OldIds, NEW r \in Requests, Handle(r),
           NEW s \in Requests, NEW d \in arrival[s].there
    PROVE  /\ Stored(d)' => Stored(d) /\ doc'[d].parent = doc[d].parent
           /\ ~Active(d) => ~Active(d)'
  <1>1. d \in Ids
    BY TypeParts DEF DocInv, CallsOK
  <1>2. ~Born(d, r)
    BY DEF OldIds, Born, Pending
  <1>3. doc'[d] = doc[d] \/ doc'[d] = NoDocument \/ Revised(d)
    BY <1>1, <1>2, DocSteps DEF DocStep
  <1>4. QED
    BY <1>3 DEF Stored, Active, Revised

(* From the step that has found no active subgroup on, those that were     *)
(* there when the archive arrived are archived or gone.                    *)
SubgroupInv ==
    \A r \in Requests :
        /\ answer[r] = "archived" => call[r].op = "archive"
        /\ call[r].op = "archive" =>
               \A h \in arrival[r].children :
                   /\ Stored(h) => doc[h].parent = call[r].id
                   /\ pc[r] = "write" \/ answer[r] = "archived" => ~Active(h)

LEMMA SubgroupStep ==
    ASSUME DocInv, OldIds, LateInv, SubgroupInv, NEW r \in Requests, Handle(r)
    PROVE  SubgroupInv'
  <1> USE DEF DocInv
  <1>1. OthersStay(r)
    BY Handles
  <1>2. \A s \in Requests : arrival[s].children \subseteq Groups /\ call[s] \in Calls
    BY TypeParts DEF CallsOK
  <1> SUFFICES ASSUME NEW s \in Requests
               PROVE  /\ answer'[s] = "archived" => call'[s].op = "archive"
                      /\ call'[s].op = "archive" =>
                             \A h \in arrival'[s].children :
                                 /\ Stored(h)' => doc'[h].parent = call'[s].id
                                 /\ pc'[s] = "write" \/ answer'[s] = "archived" => ~Active(h)'
    BY DEF SubgroupInv, Stored
  <1>3. ASSUME call'[s] = call[s], arrival'[s] = arrival[s], call[s].op = "archive",
               NEW h \in arrival[s].children
        PROVE  /\ Stored(h)' => doc'[h].parent = call'[s].id
               /\ (pc[s] = "write" \/ answer[s] = "archived") => ~Active(h)'
               /\ ~Active(h) => ~Active(h)'
    BY <1>3, OldStaysGone DEF OldIds, SubgroupInv
  <1>4. CASE s # r
    <2>1. /\ call'[s] = call[s] /\ arrival'[s] = arrival[s] /\ pc'[s] = pc[s]
          /\ answer'[s] = answer[s]
      BY <1>1, <1>4 DEF OthersStay
    <2>2. QED
      BY <1>3, <2>1 DEF SubgroupInv
  <1>5. CASE s = r /\ Arrive(r)
    <2>1. pc'[r] # "write" /\ answer'[r] # "archived" /\ doc' = doc
      BY <1>5, Arrives DEF LateInv
    <2>2. arrival'[r] =
              [shut |-> Archived(Church), there |-> {d \in Ids : Stored(d)},
               children |-> {h \in Groups : Active(h) /\ doc[h].parent = call'[r].id}]
      BY <1>5, Arrives
    <2>3. \A h \in arrival'[r].children : doc[h].parent = call'[r].id
      BY <2>2
    <2>4. QED
      BY <1>5, <2>1, <2>3
  <1>6. CASE s = r /\ Moves(r)
    <2>1. call'[r] = call[r] /\ arrival'[r] = arrival[r]
      BY <1>6 DEF Moves
    <2>2. answer'[r] = "archived" => (pc[r] = "write" /\ call[r].op = "archive") \/ answer[r] = "archived"
      BY <1>6, SuccessIsWritten
    <2>3. ASSUME call[r].op = "archive", pc'[r] = "write", NEW h \in arrival[r].children
          PROVE  ~Active(h)'
      <3>1. /\ doc' = doc
            /\ \/ call[r].id \notin Groups
               \/ ActiveSubgroups(call[r].id) = {}
        BY <1>6, <2>3, GoesOn, TypeParts DEF StepsHold
      <3>2. Stored(h) => doc[h].parent = call[r].id /\ doc[h].parent \in Groups \cup {None}
        BY <1>2, <2>3, TypeParts DEF SubgroupInv, DocsOK, Docs, Stored, Ids, Directory
      <3>3. call[r].id # None
        BY <1>2, NoneApart DEF Calls, Directory
      <3>4. ~Active(h)
        BY <1>2, <2>3, <3>1, <3>2, <3>3 DEF ActiveSubgroups, Active
      <3>5. QED
        BY <3>1, <3>4 DEF Active, Stored
    <2>4. QED
      BY <1>3, <1>6, <2>1, <2>2, <2>3 DEF SubgroupInv
  <1>7. QED
    BY <1>4, <1>5, <1>6, Handles

(* An archive that succeeds leaves no subgroup active that was there when  *)
(* it arrived (DirectoryService.Archive's search before it writes).        *)
THEOREM SubgroupsFirst == Spec => []SubgroupsArchivedFirst
  <1>1. Init => OldIds /\ LateInv /\ SubgroupInv
    <2> SUFFICES ASSUME Init PROVE OldIds /\ LateInv /\ SubgroupInv
      OBVIOUS
    <2>1. OldIds
      BY DEF Init, OldIds
    <2>2. LateInv /\ SubgroupInv
      BY DEF Init, LateInv, SubgroupInv
    <2>3. QED
      BY <2>1, <2>2
  <1>2. SubgroupInv => SubgroupsArchivedFirst
    BY DEF SubgroupInv, SubgroupsArchivedFirst
  <1>3. DocInv /\ OldIds /\ LateInv /\ SubgroupInv /\ [Next]_vars
            => DocInv' /\ OldIds' /\ LateInv' /\ SubgroupInv'
    <2> SUFFICES ASSUME DocInv, OldIds, LateInv, SubgroupInv, [Next]_vars
                 PROVE  OldIds' /\ SubgroupInv'
      BY DocInvStep, LateStep
    <2>1. CASE UNCHANGED vars
      BY <2>1 DEF OldIds, SubgroupInv, Pending, Active, Stored, vars, handler
    <2>2. CASE Next
      BY <2>2, OldStep, SubgroupStep DEF Next
    <2>3. QED
      BY <2>1, <2>2
  <1>4. QED
    BY DocInit, <1>1, <1>2, <1>3, PTL DEF Spec
-----------------------------------------------------------------------------
(* What a purge has gone over is gone.                                     *)

PurgeInv ==
    \A r \in Requests :
        /\ pc[r] \notin {"list", "delete"} => pass[r] = 0
        /\ \A d \in arrival[r].there :
               /\ pc[r] \in {"list", "delete"} /\ pass[r] # 0 /\ d \in Receipts => ~Stored(d)
               /\ pc[r] = "delete" /\ d \in Container(pass[r]) \ todo[r] => ~Stored(d)
               /\ answer[r] = "purged" => ~Stored(d)

(* A save or archive lists and deletes nothing.                            *)
LEMMA OthersPurgeNothing ==
    ASSUME TypeInv, NEW r \in Requests, Handle(r), Moves(r), call[r].op # "purge"
    PROVE  /\ pc'[r] \notin {"list", "delete"} /\ pass'[r] \in {0, pass[r]}
           /\ answer'[r] = "purged" => answer[r] = "purged"
  <1> USE TypeParts
  <1>1. pc'[r] \notin {"list", "delete"} /\ pc[r] \notin {"list", "delete"}
    <2>1. TypeInv' /\ call'[r] = call[r]
      BY TypeStep DEF Next, Moves
    <2>2. QED
      BY <2>1 DEF TypeInv, StepsHold
  <1>2. \/ \E outcome : outcome # "purged" /\ Answer(r, outcome)
        \/ \E step : Await(r, step)
    <2>1. CASE ReadChurch(r) \/ ReadToUpdate(r) \/ ReadToArchive(r)
      BY <2>1, RefusedUnlessRefuses
         DEF ReadChurch, ReadToUpdate, ReadToArchive, LookUp, Go, RefusedUnless
    <2>2. CASE \E g \in Groups : ReadGroup(r, g)
      BY <2>2 DEF ReadGroup, RefusedUnless
    <2>3. CASE ReadChildren(r)
      BY <2>3 DEF ReadChildren, Go
    <2>4. CASE Create(r) \/ Replace(r)
      BY <2>4 DEF Create, Replace, Write, Store!ReplaceRefusal
    <2>5. QED
      BY <1>1, <2>1, <2>2, <2>3, <2>4
         DEF Handle, Arrive, Moves, ReadPurged, ListDocuments, EndPass, FailPurge, DeleteDocument
  <1>3. QED
    BY <1>1, <1>2 DEF Answer, Await, HandlersOK

LEMMA PurgeStep ==
    ASSUME DocInv, OldIds, LateInv, PurgeInv, NEW r \in Requests, Handle(r)
    PROVE  PurgeInv'
  <1> USE TypeParts DEF DocInv
  <1>1. OthersStay(r)
    BY Handles
  <1> SUFFICES ASSUME NEW s \in Requests
               PROVE  /\ pc'[s] \notin {"list", "delete"} => pass'[s] = 0
                      /\ \A d \in arrival'[s].there :
                             /\ pc'[s] \in {"list", "delete"} /\ pass'[s] # 0 /\ d \in Receipts
                                    => ~Stored(d)'
                             /\ pc'[s] = "delete" /\ d \in Container(pass'[s]) \ todo'[s]
                                    => ~Stored(d)'
                             /\ answer'[s] = "purged" => ~Stored(d)'
    BY DEF PurgeInv, Stored, Container
  <1>2. \A d \in arrival[s].there : d \in Ids /\ (~Stored(d) => ~Stored(d)')
    BY OldStaysGone DEF CallsOK
  <1>3. CASE s # r
    <2>1. /\ arrival'[s] = arrival[s] /\ pc'[s] = pc[s] /\ pass'[s] = pass[s]
          /\ todo'[s] = todo[s] /\ answer'[s] = answer[s]
      BY <1>1, <1>3 DEF OthersStay
    <2>2. QED
      BY <1>2, <2>1 DEF PurgeInv
  <1>4. CASE s = r /\ Arrive(r)
    <2>1. pc'[r] \notin {"list", "delete"} /\ answer'[r] # "purged"
      BY <1>4, Arrives DEF LateInv
    <2>2. pass' = pass /\ pc[r] = "waiting"
      BY <1>4 DEF Arrive, Go, Await
    <2>3. QED
      BY <1>4, <2>1, <2>2 DEF PurgeInv
  <1>5. ASSUME s = r, Moves(r), call[r].op # "purge"
        PROVE  /\ pc'[r] \notin {"list", "delete"} /\ pass'[r] = 0
               /\ answer'[r] = "purged" => answer[r] = "purged"
    <2>1. pc[r] \notin {"list", "delete"}
      BY <1>5 DEF StepsHold
    <2>2. QED
      BY <1>5, <2>1, OthersPurgeNothing DEF PurgeInv
  <1>6. CASE s = r /\ Moves(r) /\ call[r].op # "purge"
    BY <1>2, <1>5, <1>6 DEF PurgeInv, Moves
  <1>7. CASE s = r /\ ReadPurged(r)
    <2>1. CASE Go(r, "list")
      BY <1>2, <1>7, <2>1 DEF ReadPurged, Go, Await, HandlersOK, PurgeInv, OnlyReads
    <2>2. CASE \E outcome : outcome # "purged" /\ Answer(r, outcome)
      BY <1>2, <1>7, <2>2 DEF ReadPurged, Answer, HandlersOK, PurgeInv, OnlyReads
    <2>3. QED
      BY <1>7, <2>1, <2>2 DEF ReadPurged
  <1>8. CASE s = r /\ ListDocuments(r)
    <2>1. /\ pc[r] = "list" /\ pc'[r] = "delete" /\ pass'[r] = pass[r]
          /\ todo'[r] = Listed(pass[r]) /\ answer'[r] = answer[r] /\ arrival'[r] = arrival[r]
          /\ doc' = doc
      BY <1>8 DEF ListDocuments, Await, Holding, OnlyReads, HandlersOK
    <2>2. QED
      BY <1>2, <1>8, <2>1 DEF PurgeInv, Listed, Stored
  <1>9. ASSUME s = r, NEW d \in Ids, DeleteDocument(r, d)
        PROVE  /\ pc'[r] = "delete" /\ pc[r] = "delete" /\ pass'[r] = pass[r]
               /\ todo'[r] = todo[r] \ {d} /\ answer'[r] = answer[r] /\ arrival'[r] = arrival[r]
               /\ ~Stored(d)'
    BY <1>9 DEF DeleteDocument, HandlersOK, DocsOK, Stored
  <1>10. CASE s = r /\ \E d \in Ids : DeleteDocument(r, d)
    BY <1>2, <1>9, <1>10 DEF PurgeInv
  <1>11. CASE s = r /\ EndPass(r)
    <2>1. pc[r] = "delete" /\ todo[r] = {} /\ doc' = doc /\ arrival'[r] = arrival[r]
      BY <1>11 DEF EndPass, OnlyReads
    <2>2. CASE pass[r] = Passes
      <3>1. pc'[r] = "done" /\ pass'[r] = 0
        BY <1>11, <2>2 DEF EndPass, Answer, HandlersOK
      <3>2. pass[r] # 0
        BY <2>2, PassesType
      <3>3. \A d \in arrival[r].there : ~Stored(d)
        BY <1>2, <1>11, <2>1, <3>2 DEF PurgeInv, Container, Ids
      <3>4. QED
        BY <1>2, <1>11, <2>1, <3>1, <3>3
    <2>3. CASE pass[r] # Passes
      <3>1. pc'[r] = "list" /\ pass'[r] = pass[r] + 1 /\ answer'[r] = answer[r]
        BY <1>11, <2>3 DEF EndPass, HandlersOK
      <3>2. \A d \in arrival[r].there \cap Receipts : ~Stored(d)
        BY <2>1 DEF PurgeInv, Container
      <3>3. QED
        BY <1>2, <1>11, <2>1, <3>1, <3>2 DEF PurgeInv
    <2>4. QED
      BY <2>2, <2>3
  <1>12. CASE s = r /\ FailPurge(r)
    BY <1>2, <1>12 DEF FailPurge, Answer, OnlyReads, HandlersOK, PurgeInv
  <1>13. ASSUME Moves(r), call[r].op = "purge"
         PROVE  \/ ReadPurged(r) \/ ListDocuments(r) \/ EndPass(r) \/ FailPurge(r)
                \/ \E d \in Ids : DeleteDocument(r, d)
    BY <1>13 DEF Handle, Moves, Arrive, ReadChurch, ReadToUpdate, ReadToArchive, ReadGroup,
                 ReadChildren, Create, Replace, StepsHold
  <1>14. QED
    BY <1>3, <1>4, <1>6, <1>7, <1>8, <1>10, <1>11, <1>12, <1>13, Handles

(* A purge that succeeds leaves nothing of what was there when it arrived, *)
(* whatever is created and changed meanwhile (DirectoryService.Purge).     *)
THEOREM NothingIsLeft == Spec => []PurgedCompletely
  <1>1. Init => OldIds /\ LateInv /\ PurgeInv
    <2> SUFFICES ASSUME Init PROVE OldIds /\ LateInv /\ PurgeInv
      OBVIOUS
    <2>1. OldIds /\ PurgeInv
      BY DEF Init, OldIds, PurgeInv
    <2>2. LateInv
      BY DEF Init, LateInv
    <2>3. QED
      BY <2>1, <2>2
  <1>2. PurgeInv => PurgedCompletely
    BY DEF PurgeInv, PurgedCompletely
  <1>3. DocInv /\ OldIds /\ LateInv /\ PurgeInv /\ [Next]_vars
            => DocInv' /\ OldIds' /\ LateInv' /\ PurgeInv'
    <2> SUFFICES ASSUME DocInv, OldIds, LateInv, PurgeInv, [Next]_vars
                 PROVE  OldIds' /\ PurgeInv'
      BY DocInvStep, LateStep
    <2>1. CASE UNCHANGED vars
      BY <2>1 DEF OldIds, PurgeInv, Container, Pending, Stored, vars, handler
    <2>2. CASE Next
      BY <2>2, OldStep, PurgeStep DEF Next
    <2>3. QED
      BY <2>1, <2>2
  <1>4. QED
    BY DocInit, <1>1, <1>2, <1>3, PTL DEF Spec
=============================================================================

-------------------------- MODULE Occurrences_proofs --------------------------
(***************************************************************************)
(* Every safety property of Occurrences for any schedule, any number of    *)
(* callers and any times: retries overwrite nothing, occurrences come in   *)
(* the order of their starts, late generations are refused, and history    *)
(* is not rewritten.                                                       *)
(***************************************************************************)
EXTENDS Occurrences, WellFoundedInduction, TLAPS

(* The earliest of some starts.                                            *)
LEMMA FirstIsLeast ==
    ASSUME NEW S, S \subseteq Nat, S # {}
    PROVE  First(S) \in S /\ \A t \in S : First(S) <= t
  <1> DEFINE Before == {pair \in Nat \X Nat : pair[1] < pair[2]}
  <1>1. IsWellFoundedOn(Before, Nat)
    BY NatLessThanWellFounded DEF OpToRel
  <1>2. \E s \in S : \A t \in S : ~(<<t, s>> \in Before)
    <2> HIDE DEF Before
    <2>1. QED
      BY <1>1, WFMin
  <1>3. PICK s \in S : \A t \in S : ~(<<t, s>> \in Before)
    BY <1>2
  <1>4. ASSUME NEW t \in S PROVE s <= t
    <2>1. s \in Nat /\ t \in Nat /\ ~(<<t, s>> \in Before)
      BY <1>3
    <2>2. ~(t < s)
      BY <2>1
    <2>3. QED
      BY <2>1, <2>2
  <1>5. QED
    BY <1>4 DEF First

Under(h) == pc[h] \notin {"waiting", "done"}

(* What a handler was asked, at each of its steps, and what it holds.      *)
StepsHold ==
    \A h \in Handlers :
        /\ ~Under(h) => call[h].op = "none" /\ ~arrival[h].shut
        /\ Under(h) => call[h].op # "none" /\ call[h].event \in Events /\ answer[h] = "none"
        /\ pc[h] = "event" => call[h].op \in {"generate", "save"}
        /\ pc[h] \in {"look", "create"} => call[h].op = "generate"
        /\ pc[h] \in {"occurrence", "groups"} => call[h].op = "override"
        /\ pc[h] = "write" => call[h].op \in {"save", "override"}
        /\ call[h].op = "override" => Named(h) \in Ids /\ call[h].input \in Inputs /\ h \in Requests
        /\ call[h].op = "save" => call[h].groups \in SUBSET Groups
        /\ pc[h] = "groups" \/ (pc[h] = "write" /\ call[h].op = "override") => seen[h] \in Docs

TypeInv == TypeOK /\ StepsHold
-----------------------------------------------------------------------------
(* Types.                                                                  *)

WorldOK ==
    /\ now \in 0 .. MaxTime
    /\ failures \in 0 .. MaxFailures
    /\ status \in [{Church} \cup Events -> {"active", "archived"}]
    /\ plan \in [Events -> [groups : SUBSET Groups, etag : Nat]]
    /\ occ \in [Ids -> Docs \cup {NoDocument}]
    /\ agenda \in SUBSET Events

HandlersOK ==
    /\ call \in [Handlers -> Asks]
    /\ pc \in [Handlers -> Steps]
    /\ seen \in [Handlers -> Docs \cup {NoDocument}]
    /\ todo \in [Handlers -> SUBSET Nat]
    /\ gs \in [Handlers -> SUBSET Groups]
    /\ answer \in [Handlers -> Outcomes]
    /\ arrival \in [Handlers -> [now : 0 .. MaxTime, shut : BOOLEAN]]
    /\ \A h \in Handlers :
          /\ pc[h] \in {"look", "create"} <=> todo[h] # {}
          /\ pc[h] \in {"look", "create"} => todo[h] \subseteq Schedule[call[h].event]

LEMMA TypeParts == TypeInv <=> WorldOK /\ HandlersOK /\ StepsHold
  BY DEF TypeInv, TypeOK, WorldOK, HandlersOK

LEMMA TypePartsNext == (WorldOK /\ HandlersOK /\ StepsHold)' => TypeInv'
  BY DEF TypeInv, TypeOK, WorldOK, HandlersOK

LEMMA NoCallTypes == NoCall \in Asks /\ NoCall.op = "none" /\ NoArrival \in [now : 0 .. MaxTime, shut : BOOLEAN]
                     /\ ~NoArrival.shut
  BY TimesType DEF NoCall, NoArrival, Asks

LEMMA AnswerKeepsType ==
    ASSUME HandlersOK, StepsHold, NEW h \in Handlers, NEW outcome \in Outcomes, Answer(h, outcome)
    PROVE  HandlersOK' /\ StepsHold'
  <1>1. HandlersOK'
    BY NoCallTypes DEF HandlersOK, Answer, Steps
  <1>2. /\ pc'[h] = "done" /\ call'[h] = NoCall /\ arrival'[h] = NoArrival
        /\ \A k \in Handlers \ {h} :
               /\ pc'[k] = pc[k] /\ call'[k] = call[k] /\ arrival'[k] = arrival[k]
               /\ seen'[k] = seen[k] /\ answer'[k] = answer[k]
    BY DEF HandlersOK, Answer
  <1>3. QED
    BY <1>1, <1>2, NoCallTypes DEF StepsHold, Under, Named

(* A handler goes on to another step with what it holds from then on.      *)
LEMMA AwaitKeepsType ==
    ASSUME HandlersOK, StepsHold, NEW h \in Handlers, Under(h),
           NEW step \in Steps \ {"waiting", "done"}, Await(h, step),
           seen' \in [Handlers -> Docs \cup {NoDocument}],
           todo' \in [Handlers -> SUBSET Nat],
           gs' \in [Handlers -> SUBSET Groups],
           \A k \in Handlers \ {h} : seen'[k] = seen[k] /\ todo'[k] = todo[k],
           step \in {"look", "create"} <=> todo'[h] # {},
           step \in {"look", "create"} => todo'[h] \subseteq Schedule[call[h].event],
           step = "event" => call[h].op \in {"generate", "save"},
           step \in {"look", "create"} => call[h].op = "generate",
           step \in {"occurrence", "groups"} => call[h].op = "override",
           step = "write" => call[h].op \in {"save", "override"},
           step = "groups" \/ (step = "write" /\ call[h].op = "override") => seen'[h] \in Docs
    PROVE  HandlersOK' /\ StepsHold'
  <1>1. /\ pc' = [pc EXCEPT ![h] = step] /\ pc'[h] = step /\ call' = call /\ arrival' = arrival
        /\ answer' = answer
        /\ \A k \in Handlers \ {h} : pc'[k] = pc[k]
    BY DEF HandlersOK, Await
  <1>2. HandlersOK'
    BY <1>1 DEF HandlersOK
  <1>3. QED
    BY <1>1, <1>2 DEF StepsHold, Under, Named

LEMMA GoKeepsType ==
    ASSUME HandlersOK, StepsHold, NEW h \in Handlers, Under(h),
           NEW step \in {"event", "occurrence", "groups", "write"}, Await(h, step),
           pc[h] \notin {"look", "create"},
           UNCHANGED <<todo, gs>>,
           seen' \in [Handlers -> Docs \cup {NoDocument}],
           \A k \in Handlers \ {h} : seen'[k] = seen[k],
           step = "event" => call[h].op \in {"generate", "save"},
           step \in {"occurrence", "groups"} => call[h].op = "override",
           step = "write" => call[h].op \in {"save", "override"},
           step = "groups" \/ (step = "write" /\ call[h].op = "override") => seen'[h] \in Docs
    PROVE  HandlersOK' /\ StepsHold'
  <1>1. /\ todo' \in [Handlers -> SUBSET Nat] /\ gs' \in [Handlers -> SUBSET Groups]
        /\ todo'[h] = {} /\ \A k \in Handlers : todo'[k] = todo[k]
    BY DEF HandlersOK
  <1>2. QED
    BY <1>1, AwaitKeepsType DEF Steps

LEMMA LookKeepsHandlers ==
    ASSUME HandlersOK, StepsHold, NEW h \in Handlers, Under(h), UNCHANGED seen,
           NEW step \in {"look", "create"}, Await(h, step), call[h].op = "generate",
           NEW starts, starts \subseteq Nat, starts # {}, starts \subseteq Schedule[call[h].event],
           todo' = [todo EXCEPT ![h] = starts], gs' \in [Handlers -> SUBSET Groups]
    PROVE  HandlersOK' /\ StepsHold'
  <1>1. /\ todo' \in [Handlers -> SUBSET Nat] /\ todo'[h] = starts
        /\ seen' \in [Handlers -> Docs \cup {NoDocument}]
        /\ \A k \in Handlers \ {h} : seen'[k] = seen[k] /\ todo'[k] = todo[k]
    BY DEF HandlersOK
  <1>2. QED
    BY <1>1, AwaitKeepsType DEF Steps

LEMMA ReadKeepsType ==
    ASSUME WorldOK, OnlyReads, (HandlersOK /\ StepsHold)'
    PROVE  TypeInv'
  BY TypePartsNext DEF OnlyReads, WorldOK, documents

LEMMA TypeInit == Init => TypeInv
  <1> SUFFICES ASSUME Init PROVE TypeInv
    OBVIOUS
  <1>1. WorldOK
    BY TimesType DEF Init, WorldOK
  <1>2. HandlersOK
    BY NoCallTypes DEF Init, HandlersOK, Steps, Outcomes
  <1>3. StepsHold
    BY NoCallTypes DEF Init, StepsHold, Under
  <1>4. QED
    BY <1>1, <1>2, <1>3, TypeParts

LEMMA GenerationTypes ==
    ASSUME NEW e \in Events
    PROVE  /\ Generation(e) \in Asks /\ Generation(e).op = "generate"
           /\ Generation(e).event = e
  <1>1. Generation(e) = [op |-> "generate", event |-> e, start |-> 0, etag |-> 0,
                         input |-> None, groups |-> None]
    <2>1. DOMAIN NoCall = {"op", "event", "start", "etag", "input", "groups"}
      BY DEF NoCall
    <2>2. Generation(e) = [f \in DOMAIN NoCall |->
              IF f = "event" THEN e ELSE IF f = "op" THEN "generate" ELSE NoCall[f]]
      BY DEF Generation
    <2>3. QED
      BY <2>1, <2>2 DEF NoCall
  <1>2. e \in Nat
    BY ScheduleType
  <1>3. QED
    BY <1>1, <1>2 DEF Asks

LEMMA AskedTypes ==
    ASSUME WorldOK, NEW asked \in Asked
    PROVE  /\ asked \in Asks /\ asked.op # "none" /\ asked.event \in Events
           /\ asked.op = "override" =>
                  /\ <<asked.event, asked.start>> \in Ids
                  /\ Stored(<<asked.event, asked.start>>)
                  /\ asked.etag = occ[<<asked.event, asked.start>>].etag
                  /\ asked.input \in Inputs
           /\ asked.op = "save" =>
                  asked.groups \in SUBSET Groups /\ asked.etag = plan[asked.event].etag
  <1>1. CASE \E e \in Events : asked = Generation(e)
    BY <1>1, GenerationTypes
  <1>2. CASE \E e \in Events, named \in SUBSET Groups :
                 asked = [op |-> "save", event |-> e, start |-> 0, etag |-> plan[e].etag,
                          input |-> None, groups |-> named]
    <2>1. PICK e \in Events, named \in SUBSET Groups :
              asked = [op |-> "save", event |-> e, start |-> 0, etag |-> plan[e].etag,
                       input |-> None, groups |-> named]
      BY <1>2
    <2>2. plan[e].etag \in Nat /\ e \in Nat
      BY ScheduleType DEF WorldOK
    <2>3. QED
      BY <2>1, <2>2 DEF NoCall, Asks
  <1>3. CASE \E i \in Ids, input \in Inputs, named \in {None} \cup SUBSET Groups :
                 /\ Stored(i)
                 /\ asked = [op |-> "override", event |-> i[1], start |-> i[2],
                             etag |-> occ[i].etag, input |-> input, groups |-> named]
    <2>1. PICK i \in Ids, input \in Inputs, named \in {None} \cup SUBSET Groups :
                 /\ Stored(i)
                 /\ asked = [op |-> "override", event |-> i[1], start |-> i[2],
                             etag |-> occ[i].etag, input |-> input, groups |-> named]
      BY <1>3
    <2>2. i = <<i[1], i[2]>> /\ i[1] \in Events /\ i[1] \in Nat /\ i[2] \in Nat
      BY ScheduleType DEF Ids
    <2>3. occ[i].etag \in Nat
      BY <2>1 DEF WorldOK, Stored, Docs
    <2>4. QED
      BY <2>1, <2>2, <2>3 DEF Asks
  <1>4. CASE asked \in {Generation(e) : e \in Events}
    BY <1>1, <1>4
  <1>5. CASE asked \in {[op |-> "save", event |-> e, start |-> 0, etag |-> plan[e].etag,
                          input |-> None, groups |-> named] : e \in Events, named \in SUBSET Groups}
    BY <1>2, <1>5
  <1>6. CASE asked \in
                {[op |-> "override", event |-> i[1], start |-> i[2], etag |-> occ[i].etag,
                  input |-> input, groups |-> named] :
                     i \in {j \in Ids : Stored(j)}, input \in Inputs,
                     named \in {None} \cup SUBSET Groups}
    BY <1>3, <1>6
  <1>7. QED
    BY <1>4, <1>5, <1>6 DEF Asked

LEMMA BeginKeepsType ==
    ASSUME TypeInv, NEW h \in Handlers, ~Under(h), NEW asked \in Asks, Begin(h, asked),
           asked.op # "none", asked.event \in Events,
           asked.op = "override" =>
               <<asked.event, asked.start>> \in Ids /\ asked.input \in Inputs /\ h \in Requests,
           asked.op = "save" => asked.groups \in SUBSET Groups
    PROVE  (HandlersOK /\ StepsHold)'
  <1> USE TypeParts
  <1>1. [now |-> now, shut |-> \E d \in {Church, asked.event} : status[d] = "archived"]
            \in [now : 0 .. MaxTime, shut : BOOLEAN]
    BY DEF WorldOK
  <1>2. HandlersOK'
    <2>1. todo[h] = {}
      BY DEF HandlersOK, Under
    <2>2. QED
      BY <1>1, <2>1 DEF HandlersOK, Begin, Steps, Outcomes
  <1>3. /\ pc'[h] = "church" /\ call'[h] = asked /\ answer'[h] = "none" /\ seen' = seen
        /\ \A k \in Handlers \ {h} :
               /\ pc'[k] = pc[k] /\ call'[k] = call[k] /\ arrival'[k] = arrival[k]
               /\ answer'[k] = answer[k]
    BY DEF HandlersOK, Begin
  <1>4. QED
    BY <1>2, <1>3 DEF StepsHold, Under, Named

LEMMA ArriveKeepsType ==
    ASSUME TypeInv, NEW r \in Requests, Arrive(r)
    PROVE  TypeInv'
  <1> USE TypeParts
  <1>1. PICK asked \in Asked : Begin(r, asked)
    BY DEF Arrive
  <1>2. (HandlersOK /\ StepsHold)'
    BY <1>1, AskedTypes, BeginKeepsType DEF Arrive, Under, Handlers
  <1>3. WorldOK'
    BY <1>1 DEF WorldOK, Arrive, Begin, documents
  <1>4. QED
    BY <1>2, <1>3, TypePartsNext

LEMMA ReadChurchKeepsType ==
    ASSUME TypeInv, NEW h \in Handlers, ReadChurch(h)
    PROVE  TypeInv'
  <1> USE TypeParts
  <1>1. OnlyReads /\ pc[h] = "church" /\ Under(h)
    BY DEF ReadChurch, Under
  <1>2. CASE Answer(h, "archived_resource")
    BY <1>1, <1>2, AnswerKeepsType, ReadKeepsType DEF Outcomes
  <1>3. CASE /\ Await(h, IF call[h].op = "override" THEN "occurrence" ELSE "event")
             /\ UNCHANGED <<seen, todo, gs>>
    <2>1. call[h].op \in {"generate", "save", "override"}
      BY <1>1 DEF StepsHold, HandlersOK, Asks
    <2>2. (HandlersOK /\ StepsHold)'
      <3> USE DEF HandlersOK
      <3>1. CASE call[h].op = "override"
        BY <1>1, <1>3, <3>1, GoKeepsType
      <3>2. CASE call[h].op # "override"
        BY <1>1, <1>3, <2>1, <3>2, GoKeepsType
      <3>3. QED
        BY <3>1, <3>2
    <2>3. QED
      BY <1>1, <2>2, ReadKeepsType
  <1>4. QED
    BY <1>2, <1>3 DEF ReadChurch

LEMMA CandidatesFit == \A e \in Events : Candidates(e) \subseteq Schedule[e] /\ Candidates(e) \subseteq Nat
  BY ScheduleType DEF Candidates

LEMMA ReadEventKeepsType ==
    ASSUME TypeInv, NEW h \in Handlers, ReadEvent(h)
    PROVE  TypeInv'
  <1> USE TypeParts
  <1> DEFINE e == call[h].event
  <1>1. OnlyReads /\ pc[h] = "event" /\ Under(h) /\ call[h].op = "generate" /\ e \in Events
    BY DEF ReadEvent, Under, StepsHold
  <1>2. CASE \E outcome \in Outcomes : Answer(h, outcome)
    BY <1>1, <1>2, AnswerKeepsType, ReadKeepsType
  <1>3. CASE /\ Candidates(e) # {} /\ Await(h, "look")
             /\ todo' = [todo EXCEPT ![h] = Candidates(e)]
             /\ gs' = [gs EXCEPT ![h] = plan[e].groups]
             /\ UNCHANGED seen
    <2>1. Candidates(e) \in SUBSET Nat /\ Candidates(e) \subseteq Schedule[e]
      BY <1>1, CandidatesFit
    <2>2. gs' \in [Handlers -> SUBSET Groups]
      BY <1>1, <1>3 DEF WorldOK, HandlersOK
    <2>3. (HandlersOK /\ StepsHold)'
      BY <1>1, <1>3, <2>1, <2>2, LookKeepsHandlers
    <2>4. QED
      BY <1>1, <2>3, ReadKeepsType
  <1>4. QED
    BY <1>2, <1>3 DEF ReadEvent, Outcomes

LEMMA SoughtIsOne ==
    ASSUME TypeInv, NEW h \in Handlers, pc[h] \in {"look", "create"}
    PROVE  /\ Sought(h) = <<call[h].event, First(todo[h])>> /\ Sought(h)[2] = First(todo[h])
           /\ call[h].event \in Events /\ call[h].event \in Nat
           /\ First(todo[h]) \in todo[h] /\ First(todo[h]) \in Nat /\ Sought(h) \in Ids
           /\ \A t \in todo[h] : First(todo[h]) <= t
  <1> USE TypeParts
  <1>1. /\ todo[h] \subseteq Nat /\ todo[h] # {} /\ call[h].event \in Events
        /\ todo[h] \subseteq Schedule[call[h].event]
    BY DEF HandlersOK, StepsHold, Under
  <1>2. First(todo[h]) \in todo[h] /\ \A t \in todo[h] : First(todo[h]) <= t
    BY <1>1, FirstIsLeast
  <1>3. Sought(h) = <<call[h].event, First(todo[h])>> /\ Sought(h)[2] = First(todo[h])
    BY DEF Sought
  <1>4. Sought(h) \in Ids
    BY <1>1, <1>2, <1>3 DEF Ids
  <1>5. QED
    BY <1>1, <1>2, <1>3, <1>4, ScheduleType

LEMMA SkipKeepsType ==
    ASSUME TypeInv, NEW h \in Handlers, pc[h] \in {"look", "create"}, Skip(h)
    PROVE  (HandlersOK /\ StepsHold)'
  <1> USE TypeParts
  <1> DEFINE rest == todo[h] \ {Sought(h)[2]}
  <1>1. /\ rest \in SUBSET Nat /\ rest \subseteq Schedule[call[h].event]
        /\ call[h].op = "generate" /\ Under(h)
    BY DEF HandlersOK, StepsHold, Under
  <1>2. CASE rest = {}
    BY <1>2, AnswerKeepsType DEF Skip, Outcomes
  <1>3. CASE rest # {}
    <2>1. Await(h, "look") /\ todo' = [todo EXCEPT ![h] = rest] /\ UNCHANGED <<seen, gs>>
      BY <1>3 DEF Skip
    <2>2. gs' \in [Handlers -> SUBSET Groups]
      BY <2>1 DEF HandlersOK
    <2> HIDE DEF rest
    <2>3. QED
      BY <1>1, <1>3, <2>1, <2>2, LookKeepsHandlers
  <1>4. QED
    BY <1>2, <1>3

LEMMA LookKeepsType ==
    ASSUME TypeInv, NEW h \in Handlers, LookForOccurrence(h)
    PROVE  TypeInv'
  <1> USE TypeParts
  <1>1. OnlyReads /\ pc[h] = "look" /\ Under(h)
    BY DEF LookForOccurrence, Under
  <1>2. CASE Skip(h)
    BY <1>1, <1>2, SkipKeepsType, ReadKeepsType
  <1>3. CASE Await(h, "create") /\ UNCHANGED <<seen, todo, gs>>
    <2>1. /\ todo[h] # {} /\ todo[h] \subseteq Schedule[call[h].event]
          /\ todo[h] \subseteq Nat /\ call[h].op = "generate"
      BY <1>1 DEF HandlersOK, StepsHold
    <2>2. todo' = [todo EXCEPT ![h] = todo[h]] /\ gs' \in [Handlers -> SUBSET Groups]
      BY <1>3 DEF HandlersOK
    <2>3. (HandlersOK /\ StepsHold)'
      BY <1>1, <1>3, <2>1, <2>2, LookKeepsHandlers
    <2>4. QED
      BY <1>1, <2>3, ReadKeepsType
  <1>4. QED
    BY <1>2, <1>3 DEF LookForOccurrence

LEMMA GeneratedType ==
    ASSUME TypeInv, NEW h \in Handlers, pc[h] = "create"
    PROVE  /\ Generated(h) \in Docs /\ ~Generated(h).archived
           /\ Generated(h).starts < Generated(h).ends
  <1>1. First(todo[h]) \in Nat /\ gs[h] \in SUBSET Groups /\ Duration \in Nat
    BY SoughtIsOne, TypeParts, TimesType DEF HandlersOK
  <1>2. First(todo[h]) + Duration \in Nat /\ First(todo[h]) < First(todo[h]) + Duration
    BY <1>1, DurationPositive
  <1>3. QED
    BY <1>1, <1>2 DEF Generated, Docs

LEMMA CreateKeepsType ==
    ASSUME TypeInv, NEW h \in Handlers, CreateOccurrence(h)
    PROVE  TypeInv'
  <1> USE TypeParts
  <1>1. pc[h] = "create"
    BY DEF CreateOccurrence
  <1>2. (HandlersOK /\ StepsHold)'
    BY <1>1, SkipKeepsType, AnswerKeepsType DEF CreateOccurrence, Outcomes
  <1>3. occ' \in [Ids -> Docs \cup {NoDocument}]
    BY <1>1, GeneratedType DEF CreateOccurrence, WorldOK
  <1>4. WorldOK'
    BY <1>3 DEF WorldOK, CreateOccurrence
  <1>5. QED
    BY <1>2, <1>4, TypePartsNext

LEMMA JudgeKeepsType ==
    ASSUME TypeInv, NEW h \in Handlers, pc[h] \in {"occurrence", "groups"},
           NEW x \in Docs, Judge(h, x)
    PROVE  (HandlersOK /\ StepsHold)'
  <1> USE TypeParts
  <1>1. CASE Answer(h, "validation_failed")
    BY <1>1, AnswerKeepsType DEF Outcomes
  <1>2. CASE Await(h, "write") /\ seen' = [seen EXCEPT ![h] = x] /\ UNCHANGED <<todo, gs>>
    <2>1. call[h].op = "override" /\ Under(h)
      BY DEF StepsHold, Under
    <2>2. /\ seen' \in [Handlers -> Docs \cup {NoDocument}] /\ seen'[h] \in Docs
          /\ \A k \in Handlers \ {h} : seen'[k] = seen[k]
      BY <1>2 DEF HandlersOK
    <2>3. QED
      BY <1>2, <2>1, <2>2, GoKeepsType
  <1>3. QED
    BY <1>1, <1>2 DEF Judge

LEMMA ReadOccurrenceKeepsType ==
    ASSUME TypeInv, NEW h \in Handlers, ReadOccurrence(h) \/ ReadGroups(h)
    PROVE  TypeInv'
  <1> USE TypeParts
  <1>1. OnlyReads /\ pc[h] \in {"occurrence", "groups"} /\ Under(h) /\ call[h].op = "override"
    BY DEF ReadOccurrence, ReadGroups, Under, StepsHold
  <1>2. CASE Answer(h, "not_found") \/ Answer(h, "archived_resource")
    BY <1>1, <1>2, AnswerKeepsType, ReadKeepsType DEF Outcomes
  <1>3. CASE \E x \in Docs : Judge(h, x)
    BY <1>1, <1>3, JudgeKeepsType, ReadKeepsType
  <1>4. CASE \E x \in Docs : /\ Await(h, "groups") /\ seen' = [seen EXCEPT ![h] = x]
                             /\ UNCHANGED <<todo, gs>>
    <2>1. /\ seen' \in [Handlers -> Docs \cup {NoDocument}] /\ seen'[h] \in Docs
          /\ \A k \in Handlers \ {h} : seen'[k] = seen[k]
      BY <1>4 DEF HandlersOK
    <2>2. (HandlersOK /\ StepsHold)'
      BY <1>1, <1>4, <2>1, GoKeepsType
    <2>3. QED
      BY <1>1, <2>2, ReadKeepsType
  <1>5. CASE ReadOccurrence(h)
    <2>1. Named(h) \in Ids
      BY <1>1 DEF StepsHold
    <2>2. occ[Named(h)] # NoDocument => occ[Named(h)] \in Docs
      BY <2>1 DEF WorldOK
    <2>3. QED
      BY <1>2, <1>3, <1>4, <1>5, <2>2 DEF ReadOccurrence
  <1>6. CASE ReadGroups(h)
    BY <1>2, <1>3, <1>6 DEF ReadGroups, GroupRefused, StepsHold
  <1>7. QED
    BY <1>5, <1>6

(* The document that an override writes.                                   *)
LEMMA ChangedType ==
    ASSUME NEW x \in Docs, NEW input \in Inputs, NEW named \in {None} \cup SUBSET Groups
    PROVE  /\ Changed(x, input, named) \in Docs
           /\ Changed(x, input, named).etag = x.etag
           /\ ~Archiving(x, input) => Changed(x, input, named).archived = x.archived
           /\ Archiving(x, input) \/ Regrouping(x, input, named) =>
                  /\ Changed(x, input, named).starts = x.starts
                  /\ Changed(x, input, named).ends = x.ends
                  /\ Changed(x, input, named).cancelled = x.cancelled
           /\ ~Archiving(x, input) /\ ~Regrouping(x, input, named) =>
                  /\ Changed(x, input, named).starts = input.window[1]
                  /\ Changed(x, input, named).ends = input.window[2]
  <1>1. /\ input.window \in Windows /\ input.window[1] \in Nat /\ input.window[2] \in Nat
        /\ input.cancelled \in BOOLEAN /\ input.archived \in BOOLEAN
    BY WindowsType DEF Inputs
  <1> DEFINE groups == IF named = None THEN x.groups ELSE named
  <1>2. groups \in SUBSET Groups
    BY DEF Docs
  <1>3. CASE Archiving(x, input)
    BY <1>1, <1>2, <1>3 DEF Changed, Docs
  <1>4. CASE ~Archiving(x, input) /\ Regrouping(x, input, named)
    BY <1>1, <1>2, <1>4 DEF Changed, Docs
  <1>5. CASE ~Archiving(x, input) /\ ~Regrouping(x, input, named)
    BY <1>1, <1>2, <1>5 DEF Changed, Docs
  <1>6. QED
    BY <1>3, <1>4, <1>5

LEMMA WriteOverrideKeepsType ==
    ASSUME TypeInv, NEW h \in Handlers, WriteOverride(h)
    PROVE  TypeInv'
  <1> USE TypeParts
  <1>1. (HandlersOK /\ StepsHold)'
    BY AnswerKeepsType DEF WriteOverride, Outcomes, Store!ReplaceRefusal
  <1>2. occ' \in [Ids -> Docs \cup {NoDocument}]
    <2>1. CASE Store!MayReplace(occ[Named(h)], call[h].etag)
      <3>1. /\ Named(h) \in Ids /\ call[h].input \in Inputs /\ seen[h] \in Docs
            /\ call[h].groups \in {None} \cup SUBSET Groups
        BY DEF WriteOverride, StepsHold, HandlersOK, Asks
      <3>2. occ[Named(h)].etag + 1 \in Nat
        BY <2>1, <3>1 DEF Store!MayReplace, WorldOK, Docs
      <3>3. Changed(seen[h], call[h].input, call[h].groups) \in Docs
        BY <3>1, ChangedType
      <3>4. [Changed(seen[h], call[h].input, call[h].groups)
                EXCEPT !.etag = occ[Named(h)].etag + 1] \in Docs
        BY <3>2, <3>3 DEF Docs
      <3>5. QED
        BY <2>1, <3>4 DEF WriteOverride, WorldOK
    <2>2. QED
      BY <2>1 DEF WriteOverride, WorldOK
  <1>3. WorldOK'
    BY <1>2 DEF WorldOK, WriteOverride
  <1>4. QED
    BY <1>1, <1>3, TypePartsNext

LEMMA SaveKeepsType ==
    ASSUME TypeInv, NEW h \in Handlers, ReadEventToSave(h) \/ WriteEvent(h)
    PROVE  TypeInv'
  <1> USE TypeParts
  <1>1. CASE ReadEventToSave(h)
    <2>1. OnlyReads /\ pc[h] = "event" /\ Under(h) /\ call[h].op = "save"
      BY <1>1 DEF ReadEventToSave, Under
    <2>2. CASE \E refusal \in {"not_found", "archived_resource", "invalid_recurrence"} :
                   Answer(h, refusal)
      BY <2>1, <2>2, AnswerKeepsType, ReadKeepsType DEF Outcomes
    <2>3. CASE Await(h, "write") /\ UNCHANGED <<seen, todo, gs>>
      <3>1. (HandlersOK /\ StepsHold)'
        BY <2>1, <2>3, GoKeepsType DEF HandlersOK
      <3>2. QED
        BY <2>1, <3>1, ReadKeepsType
    <2>4. QED
      BY <1>1, <2>2, <2>3 DEF ReadEventToSave, GroupRefused
  <1>2. CASE WriteEvent(h)
    <2>1. (HandlersOK /\ StepsHold)'
      BY <1>2, AnswerKeepsType DEF WriteEvent, Outcomes, Store!ReplaceRefusal
    <2>2. /\ call[h].event \in Events /\ call[h].groups \in SUBSET Groups
          /\ plan[call[h].event].etag + 1 \in Nat
      BY <1>2 DEF WriteEvent, StepsHold, Under, WorldOK
    <2>3. plan' \in [Events -> [groups : SUBSET Groups, etag : Nat]]
      BY <1>2, <2>2 DEF WriteEvent, WorldOK
    <2>4. status' \in [{Church} \cup Events -> {"active", "archived"}]
      BY <1>2, <2>2 DEF WriteEvent, WorldOK
    <2>5. WorldOK'
      BY <1>2, <2>3, <2>4 DEF WriteEvent, WorldOK
    <2>6. QED
      BY <2>1, <2>5, TypePartsNext
  <1>3. QED
    BY <1>1, <1>2

LEMMA TimerKeepsType ==
    ASSUME TypeInv, StartRun \/ GenerateNext \/ EndCall \/ StopRun
    PROVE  TypeInv'
  <1> USE TypeParts
  <1>0. Timer \in Handlers
    BY DEF Handlers
  <1>1. CASE StartRun
    <2>1. (HandlersOK /\ StepsHold)'
      BY <1>1 DEF StartRun, HandlersOK, StepsHold, Under, Named, handler
    <2>2. WorldOK'
      BY <1>1 DEF StartRun, WorldOK, documents
    <2>3. QED
      BY <2>1, <2>2, TypePartsNext
  <1>2. CASE GenerateNext
    <2>1. First(agenda) \in Events
      BY <1>2, FirstIsLeast, ScheduleType DEF GenerateNext, WorldOK
    <2>2. (HandlersOK /\ StepsHold)'
      BY <1>0, <1>2, <2>1, GenerationTypes, BeginKeepsType DEF GenerateNext, Idle, Under
    <2>3. WorldOK'
      BY <1>2 DEF GenerateNext, Begin, WorldOK, documents
    <2>4. QED
      BY <2>2, <2>3, TypePartsNext
  <1>3. CASE EndCall
    <2>1. /\ pc[Timer] = "done" /\ pc' = [pc EXCEPT ![Timer] = "waiting"]
          /\ answer' = [answer EXCEPT ![Timer] = "none"]
          /\ UNCHANGED <<call, seen, todo, gs, arrival>>
      BY <1>3 DEF EndCall
    <2>2. HandlersOK'
      BY <2>1, <1>0 DEF HandlersOK, Steps, Outcomes
    <2>3. StepsHold'
      BY <2>1, <1>0 DEF HandlersOK, StepsHold, Under, Named
    <2>4. WorldOK'
      BY <1>3 DEF EndCall, RestOfRun, WorldOK, documents
    <2>5. QED
      BY <2>2, <2>3, <2>4, TypePartsNext
  <1>4. CASE StopRun
    <2>1. /\ pc' = [pc EXCEPT ![Timer] = "waiting"] /\ todo' = [todo EXCEPT ![Timer] = {}]
          /\ gs' = [gs EXCEPT ![Timer] = {}] /\ answer' = [answer EXCEPT ![Timer] = "none"]
          /\ call' = [call EXCEPT ![Timer] = NoCall]
          /\ arrival' = [arrival EXCEPT ![Timer] = NoArrival] /\ UNCHANGED seen
      BY <1>4 DEF StopRun
    <2>2. HandlersOK'
      BY <2>1, <1>0, NoCallTypes DEF HandlersOK, Steps, Outcomes
    <2>3. /\ pc'[Timer] = "waiting" /\ call'[Timer].op = "none" /\ ~arrival'[Timer].shut
          /\ \A k \in Handlers \ {Timer} :
                 /\ pc'[k] = pc[k] /\ call'[k] = call[k] /\ arrival'[k] = arrival[k]
                 /\ answer'[k] = answer[k] /\ seen'[k] = seen[k]
      BY <2>1, <1>0, NoCallTypes DEF HandlersOK
    <2>4. StepsHold'
      BY <2>3 DEF StepsHold, Under, Named
    <2>5. WorldOK'
      BY <1>4, TimesType DEF StopRun, WorldOK, documents
    <2>6. QED
      BY <2>2, <2>4, <2>5, TypePartsNext
  <1>5. QED
    BY <1>1, <1>2, <1>3, <1>4

LEMMA WorldKeepsType ==
    ASSUME TypeInv,
           \/ \E h \in Handlers : FailCall(h)
           \/ \E d \in {Church} \cup Events : ArchiveDocument(d)
           \/ Tick
    PROVE  TypeInv'
  <1> USE TypeParts
  <1>1. ASSUME NEW h \in Handlers, FailCall(h)
        PROVE  TypeInv'
    <2>1. (HandlersOK /\ StepsHold)'
      BY <1>1, AnswerKeepsType DEF FailCall, Outcomes
    <2>2. WorldOK'
      BY <1>1, TimesType DEF FailCall, WorldOK, documents
    <2>3. QED
      BY <2>1, <2>2, TypePartsNext
  <1>2. ASSUME UNCHANGED handler
        PROVE  (HandlersOK /\ StepsHold)'
    BY <1>2 DEF HandlersOK, StepsHold, Under, Named, handler
  <1>3. ASSUME NEW d \in {Church} \cup Events, ArchiveDocument(d)
        PROVE  TypeInv'
    <2>1. plan' \in [Events -> [groups : SUBSET Groups, etag : Nat]]
      BY <1>3 DEF ArchiveDocument, WorldOK
    <2>2. status' \in [{Church} \cup Events -> {"active", "archived"}]
      BY <1>3 DEF ArchiveDocument, WorldOK
    <2>3. WorldOK'
      BY <1>3, <2>1, <2>2 DEF ArchiveDocument, WorldOK
    <2>4. QED
      BY <1>2, <1>3, <2>3, TypePartsNext DEF ArchiveDocument
  <1>4. CASE Tick
    <2>1. WorldOK'
      BY <1>4, TimesType DEF Tick, WorldOK, documents
    <2>2. QED
      BY <1>2, <1>4, <2>1, TypePartsNext DEF Tick
  <1>5. QED
    BY <1>1, <1>3, <1>4

LEMMA HandleKeepsType ==
    ASSUME TypeInv, NEW h \in Handlers, Handle(h)
    PROVE  TypeInv'
  BY ReadChurchKeepsType, ReadEventKeepsType, LookKeepsType, CreateKeepsType,
     ReadOccurrenceKeepsType, WriteOverrideKeepsType, SaveKeepsType DEF Handle

LEMMA TypeStep ==
    ASSUME TypeInv, [Next]_vars
    PROVE  TypeInv'
  <1>1. CASE UNCHANGED vars
    BY <1>1 DEF TypeInv, TypeOK, StepsHold, Under, Named, vars, handler, documents
  <1>2. Requests \subseteq Handlers /\ Timer \in Handlers
    BY DEF Handlers
  <1>3. CASE Next
    BY <1>2, <1>3, ArriveKeepsType, HandleKeepsType, TimerKeepsType, WorldKeepsType
       DEF Next, RunTimer
  <1>4. QED
    BY <1>1, <1>3

(* Every variable keeps its type, and what a handler writes is complete.   *)
THEOREM TypeCorrect == Safety => []TypeOK
  <1>1. TypeInv => TypeOK
    BY DEF TypeInv
  <1>2. TypeInv /\ [Next]_vars => TypeInv'
    BY TypeStep
  <1>3. QED
    BY TypeInit, <1>1, <1>2, PTL DEF Safety
-----------------------------------------------------------------------------
(* What a step may do to a handler and to the documents.                   *)

OthersStay(h) ==
    \A k \in Handlers \ {h} :
        /\ pc'[k] = pc[k] /\ call'[k] = call[k] /\ seen'[k] = seen[k] /\ todo'[k] = todo[k]
        /\ gs'[k] = gs[k] /\ answer'[k] = answer[k] /\ arrival'[k] = arrival[k]

Starts(h) ==
    /\ ~Under(h) /\ pc'[h] = "church" /\ UNCHANGED <<now, documents>>
    /\ arrival'[h] =
           [now |-> now, shut |-> \E d \in {Church, call'[h].event} : status[d] = "archived"]
    /\ call'[h].event \in Events
    /\ call'[h].op = "override" =>
           Stored(<<call'[h].event, call'[h].start>>)
           /\ call'[h].etag = occ[<<call'[h].event, call'[h].start>>].etag
    /\ call'[h].op = "save" => call'[h].etag = plan[call'[h].event].etag

Judged(h) ==
    /\ Permitted(seen'[h], call[h].input, call[h].groups)
    /\ \/ pc[h] = "occurrence" /\ Stored(Named(h)) /\ seen'[h] = occ[Named(h)]
       \/ pc[h] = "groups" /\ seen'[h] = seen[h]

GoesOn(h) ==
    /\ Under(h) /\ call'[h] = call[h] /\ arrival'[h] = arrival[h] /\ UNCHANGED <<now, documents>>
    /\ \/ /\ pc[h] = "church" /\ status[Church] = "active"
          /\ pc'[h] \in {"occurrence", "event"}
       \/ /\ pc[h] = "event" /\ pc'[h] = "look" /\ call[h].op = "generate"
          /\ OpenEvent(call[h].event) /\ todo'[h] = Candidates(call[h].event)
       \/ /\ pc[h] = "event" /\ pc'[h] = "write" /\ call[h].op = "save"
          /\ status[call[h].event] = "active"
       \/ pc[h] = "look" /\ pc'[h] = "create" /\ todo'[h] = todo[h]
       \/ /\ pc[h] \in {"look", "create"} /\ pc'[h] = "look" /\ Stored(Sought(h))
          /\ todo'[h] = todo[h] \ {Sought(h)[2]}
       \/ /\ pc[h] = "occurrence" /\ pc'[h] = "groups" /\ call[h].op = "override"
          /\ Stored(Named(h)) /\ seen'[h] = occ[Named(h)]
       \/ pc'[h] = "write" /\ call[h].op = "override" /\ Judged(h)

(* One handler takes a step, and it starts, goes on, ends or is stopped.   *)
HandlerStep(h) ==
    /\ OthersStay(h)
    /\ Starts(h) \/ GoesOn(h) \/ ~Under(h)'

(* What a handler that changes an occurrence writes.                       *)
Written(h) == Changed(seen[h], call[h].input, call[h].groups)

Overrides(h) ==
    /\ pc[h] = "write" /\ call[h].op = "override" /\ answer'[h] = "overridden"
    /\ Stored(Named(h)) /\ occ[Named(h)].etag = call[h].etag
    /\ occ' = [occ EXCEPT ![Named(h)] = [Written(h) EXCEPT !.etag = occ[Named(h)].etag + 1]]

Generates(h) ==
    /\ pc[h] = "create" /\ ~Stored(Sought(h)) /\ answer'[h] = "created"
    /\ occ' = [occ EXCEPT ![Sought(h)] = Generated(h)]

Saves(h) ==
    LET e == call[h].event IN
    /\ pc[h] = "write" /\ call[h].op = "save" /\ plan[e].etag = call[h].etag
    /\ plan' = [plan EXCEPT ![e] = [groups |-> call[h].groups, etag |-> plan[e].etag + 1]]
    /\ status' = [status EXCEPT ![e] = "active"]

(* What it answers, and what it writes.                                    *)
Effect(h) ==
    /\ \/ UNCHANGED <<occ, plan, status>>
       \/ Overrides(h) /\ UNCHANGED <<plan, status>>
       \/ Generates(h) /\ UNCHANGED <<plan, status>>
       \/ Saves(h) /\ UNCHANGED occ
    /\ UNCHANGED now
    /\ answer'[h] = "overridden" => answer[h] = "overridden" \/ Overrides(h)
    /\ answer'[h] = "created" => answer[h] = "created" \/ Generates(h)

LEMMA AnswerStays ==
    ASSUME TypeInv, NEW h \in Handlers, NEW outcome, Answer(h, outcome)
    PROVE  OthersStay(h) /\ ~Under(h)' /\ answer'[h] = outcome
  BY TypeParts DEF HandlersOK, Answer, OthersStay, Under

LEMMA AwaitStays ==
    ASSUME TypeInv, NEW h \in Handlers, NEW step, Await(h, step)
    PROVE  /\ pc'[h] = step /\ UNCHANGED <<call, answer, arrival>>
           /\ \A k \in Handlers \ {h} : pc'[k] = pc[k]
  BY TypeParts DEF HandlersOK, Await

LEMMA HeldStays ==
    ASSUME TypeInv, NEW h \in Handlers
    PROVE  /\ \A x : seen' = [seen EXCEPT ![h] = x] =>
                     seen'[h] = x /\ \A k \in Handlers \ {h} : seen'[k] = seen[k]
           /\ \A x : todo' = [todo EXCEPT ![h] = x] =>
                     todo'[h] = x /\ \A k \in Handlers \ {h} : todo'[k] = todo[k]
           /\ \A x : gs' = [gs EXCEPT ![h] = x] =>
                     gs'[h] = x /\ \A k \in Handlers \ {h} : gs'[k] = gs[k]
  BY TypeParts DEF HandlersOK

LEMMA BeginStarts ==
    ASSUME TypeInv, NEW h \in Handlers, ~Under(h), NEW asked, Begin(h, asked),
           asked.event \in Events,
           asked.op = "override" =>
               /\ Stored(<<asked.event, asked.start>>)
               /\ asked.etag = occ[<<asked.event, asked.start>>].etag,
           asked.op = "save" => asked.etag = plan[asked.event].etag
    PROVE  HandlerStep(h) /\ Effect(h)
  <1>1. /\ pc'[h] = "church" /\ call'[h] = asked /\ answer'[h] = "none"
        /\ arrival'[h] = [now |-> now,
                          shut |-> \E d \in {Church, asked.event} : status[d] = "archived"]
        /\ UNCHANGED <<now, documents, occ, plan, status>>
    BY TypeParts DEF HandlersOK, Begin, documents
  <1>2. OthersStay(h)
    BY TypeParts DEF HandlersOK, Begin, OthersStay
  <1>3. QED
    BY <1>1, <1>2 DEF HandlerStep, Starts, Effect

LEMMA EndsHandler ==
    ASSUME TypeInv, NEW h \in Handlers, NEW outcome, Answer(h, outcome), UNCHANGED now,
           UNCHANGED <<occ, plan, status>>, outcome \notin {"overridden", "created"}
    PROVE  HandlerStep(h) /\ Effect(h)
  BY AnswerStays DEF HandlerStep, Effect

LEMMA GoesOnHandler ==
    ASSUME TypeInv, NEW h \in Handlers, NEW step, Await(h, step), GoesOn(h),
           \A k \in Handlers \ {h} : seen'[k] = seen[k] /\ todo'[k] = todo[k] /\ gs'[k] = gs[k]
    PROVE  HandlerStep(h) /\ Effect(h)
  BY AwaitStays DEF HandlerStep, Effect, OthersStay, GoesOn, documents

LEMMA SkipSteps ==
    ASSUME TypeInv, NEW h \in Handlers, pc[h] \in {"look", "create"}, Stored(Sought(h)), Skip(h),
           UNCHANGED <<now, documents>>
    PROVE  HandlerStep(h) /\ Effect(h)
  <1>1. CASE Answer(h, "nothing")
    BY <1>1, EndsHandler DEF documents
  <1>2. CASE /\ Await(h, "look") /\ todo' = [todo EXCEPT ![h] = todo[h] \ {Sought(h)[2]}]
             /\ UNCHANGED <<seen, gs>>
    <2>1. /\ pc'[h] = "look" /\ UNCHANGED <<call, arrival>>
          /\ todo'[h] = todo[h] \ {Sought(h)[2]}
          /\ \A k \in Handlers \ {h} : todo'[k] = todo[k]
      BY <1>2, AwaitStays, HeldStays
    <2>2. GoesOn(h)
      BY <2>1 DEF GoesOn, Under
    <2>3. QED
      BY <1>2, <2>1, <2>2, GoesOnHandler
  <1>3. QED
    BY <1>1, <1>2 DEF Skip

LEMMA GenerationSteps ==
    ASSUME TypeInv, NEW h \in Handlers,
           ReadChurch(h) \/ ReadEvent(h) \/ LookForOccurrence(h) \/ CreateOccurrence(h)
    PROVE  HandlerStep(h) /\ Effect(h)
  <1>1. ASSUME NEW outcome, Answer(h, outcome), OnlyReads, outcome \notin {"overridden", "created"}
        PROVE  HandlerStep(h) /\ Effect(h)
    BY <1>1, EndsHandler DEF OnlyReads, documents
  <1>2. CASE ReadChurch(h)
    <2>1. CASE /\ Await(h, IF call[h].op = "override" THEN "occurrence" ELSE "event")
               /\ UNCHANGED <<seen, todo, gs>> /\ status[Church] = "active"
      <3>1. GoesOn(h)
        BY <1>2, <2>1, AwaitStays DEF GoesOn, ReadChurch, Under, OnlyReads
      <3>2. QED
        BY <2>1, <3>1, GoesOnHandler
    <2>2. QED
      BY <1>1, <1>2, <2>1 DEF ReadChurch
  <1>3. CASE ReadEvent(h)
    <2> DEFINE e == call[h].event
    <2>1. CASE /\ OpenEvent(e) /\ Await(h, "look") /\ todo' = [todo EXCEPT ![h] = Candidates(e)]
               /\ gs' = [gs EXCEPT ![h] = plan[e].groups] /\ UNCHANGED seen
      <3>1. GoesOn(h)
        BY <1>3, <2>1, AwaitStays, HeldStays DEF GoesOn, ReadEvent, Under, OnlyReads
      <3>2. QED
        BY <2>1, <3>1, GoesOnHandler, HeldStays
    <2>2. QED
      BY <1>1, <1>3, <2>1 DEF ReadEvent
  <1>4. CASE LookForOccurrence(h)
    <2>1. CASE Await(h, "create") /\ UNCHANGED <<seen, todo, gs>>
      <3>1. GoesOn(h)
        BY <1>4, <2>1, AwaitStays DEF GoesOn, LookForOccurrence, Under, OnlyReads
      <3>2. QED
        BY <2>1, <3>1, GoesOnHandler
    <2>2. QED
      BY <1>4, <2>1, SkipSteps DEF LookForOccurrence, OnlyReads
  <1>5. CASE CreateOccurrence(h)
    <2>1. CASE Store!MayCreate(occ[Sought(h)])
      <3>1. /\ Answer(h, "created") /\ occ' = [occ EXCEPT ![Sought(h)] = Generated(h)]
            /\ UNCHANGED <<now, status, plan>>
        BY <1>5, <2>1 DEF CreateOccurrence
      <3>2. QED
        BY <1>5, <2>1, <3>1, AnswerStays
           DEF CreateOccurrence, HandlerStep, Effect, Generates, Stored, Store!MayCreate
    <2>2. CASE ~Store!MayCreate(occ[Sought(h)])
      BY <1>5, <2>2, SkipSteps DEF CreateOccurrence, Stored, Store!MayCreate, documents
    <2>3. QED
      BY <2>1, <2>2
  <1>6. QED
    BY <1>2, <1>3, <1>4, <1>5

LEMMA OverrideSteps ==
    ASSUME TypeInv, NEW h \in Handlers,
           ReadOccurrence(h) \/ ReadGroups(h) \/ WriteOverride(h)
    PROVE  HandlerStep(h) /\ Effect(h)
  <1>1. ASSUME NEW outcome, Answer(h, outcome), OnlyReads, outcome \notin {"overridden", "created"}
        PROVE  HandlerStep(h) /\ Effect(h)
    BY <1>1, EndsHandler DEF OnlyReads, documents
  <1>2. ASSUME NEW x, Judge(h, x), OnlyReads, call[h].op = "override",
               \/ pc[h] = "occurrence" /\ Stored(Named(h)) /\ x = occ[Named(h)]
               \/ pc[h] = "groups" /\ x = seen[h]
        PROVE  HandlerStep(h) /\ Effect(h)
    <2>1. CASE /\ Permitted(x, call[h].input, call[h].groups) /\ Await(h, "write")
               /\ seen' = [seen EXCEPT ![h] = x] /\ UNCHANGED <<todo, gs>>
      <3>1. seen'[h] = x /\ pc'[h] = "write"
        BY <2>1, AwaitStays, HeldStays
      <3>2. GoesOn(h)
        BY <1>2, <2>1, <3>1, AwaitStays DEF GoesOn, Judged, Under, OnlyReads
      <3>3. QED
        BY <2>1, <3>2, GoesOnHandler, HeldStays
    <2>2. QED
      BY <1>1, <1>2, <2>1 DEF Judge
  <1>3. CASE ReadOccurrence(h)
    <2>1. call[h].op = "override" /\ pc[h] = "occurrence" /\ OnlyReads
      BY <1>3, TypeParts DEF ReadOccurrence, StepsHold
    <2>2. CASE /\ Stored(Named(h)) /\ Await(h, "groups")
               /\ seen' = [seen EXCEPT ![h] = occ[Named(h)]] /\ UNCHANGED <<todo, gs>>
      <3>1. seen'[h] = occ[Named(h)] /\ pc'[h] = "groups"
        BY <2>2, AwaitStays, HeldStays
      <3>2. GoesOn(h)
        BY <2>1, <2>2, <3>1, AwaitStays DEF GoesOn, Under, OnlyReads
      <3>3. QED
        BY <2>2, <3>2, GoesOnHandler, HeldStays
    <2>3. CASE Stored(Named(h)) /\ Judge(h, occ[Named(h)])
      BY <1>2, <2>1, <2>3
    <2>4. QED
      BY <1>1, <1>3, <2>1, <2>2, <2>3 DEF ReadOccurrence, Stored
  <1>4. CASE ReadGroups(h)
    BY <1>1, <1>2, <1>4, TypeParts DEF ReadGroups, GroupRefused, StepsHold
  <1>5. CASE WriteOverride(h)
    <2>1. CASE Store!MayReplace(occ[Named(h)], call[h].etag)
      <3>1. /\ Answer(h, "overridden") /\ UNCHANGED <<now, status, plan>>
            /\ occ' = [occ EXCEPT ![Named(h)] =
                   [Written(h) EXCEPT !.etag = occ[Named(h)].etag + 1]]
        BY <1>5, <2>1 DEF WriteOverride, Written
      <3>2. Overrides(h)
        BY <1>5, <2>1, <3>1, AnswerStays
           DEF WriteOverride, Overrides, Stored, Store!MayReplace
      <3>3. QED
        BY <3>1, <3>2, AnswerStays DEF HandlerStep, Effect
    <2>2. CASE ~Store!MayReplace(occ[Named(h)], call[h].etag)
      BY <1>5, <2>2, EndsHandler DEF WriteOverride, Store!ReplaceRefusal
    <2>3. QED
      BY <2>1, <2>2
  <1>6. QED
    BY <1>3, <1>4, <1>5

LEMMA SaveSteps ==
    ASSUME TypeInv, NEW h \in Handlers, ReadEventToSave(h) \/ WriteEvent(h)
    PROVE  HandlerStep(h) /\ Effect(h)
  <1>1. CASE /\ ReadEventToSave(h)
             /\ \E refusal \in {"not_found", "archived_resource", "invalid_recurrence"} :
                    Answer(h, refusal)
    BY <1>1, EndsHandler DEF ReadEventToSave, OnlyReads, documents
  <1>2. CASE /\ ReadEventToSave(h) /\ status[call[h].event] = "active" /\ Await(h, "write")
             /\ UNCHANGED <<seen, todo, gs>>
    <2>1. GoesOn(h)
      BY <1>2, AwaitStays DEF GoesOn, ReadEventToSave, Under, OnlyReads
    <2>2. QED
      BY <1>2, <2>1, GoesOnHandler
  <1>3. CASE WriteEvent(h)
    <2> DEFINE e == call[h].event
    <2>1. CASE Store!MayReplace(plan[e], call[h].etag)
      <3>1. Answer(h, "saved") /\ UNCHANGED <<now, occ>>
        BY <1>3, <2>1 DEF WriteEvent
      <3>2. Saves(h)
        <4>1. e \in Events
          BY <1>3, TypeParts DEF WriteEvent, StepsHold, Under
        <4>2. plan' = [plan EXCEPT ![e] = [groups |-> call[h].groups, etag |-> plan[e].etag + 1]]
          BY <1>3, <2>1, <4>1, TypeParts DEF WriteEvent, WorldOK
        <4>3. QED
          BY <1>3, <2>1, <4>2 DEF WriteEvent, Saves, Store!MayReplace
      <3>3. QED
        BY <3>1, <3>2, AnswerStays DEF HandlerStep, Effect
    <2>2. CASE ~Store!MayReplace(plan[e], call[h].etag)
      BY <1>3, <2>2, EndsHandler DEF WriteEvent, Store!ReplaceRefusal
    <2>3. QED
      BY <2>1, <2>2
  <1>4. QED
    BY <1>1, <1>2, <1>3 DEF ReadEventToSave, GroupRefused

LEMMA TimerSteps ==
    ASSUME TypeInv, GenerateNext \/ EndCall \/ StopRun
    PROVE  HandlerStep(Timer) /\ Effect(Timer)
  <1>0. Timer \in Handlers
    BY DEF Handlers
  <1>1. CASE GenerateNext
    <2>1. First(agenda) \in Events
      BY <1>1, TypeParts, FirstIsLeast, ScheduleType DEF GenerateNext, WorldOK
    <2>2. QED
      BY <1>0, <1>1, <2>1, GenerationTypes, BeginStarts DEF GenerateNext, Idle, Under
  <1>2. CASE EndCall \/ StopRun
    BY <1>0, <1>2, TypeParts
       DEF EndCall, StopRun, HandlerStep, OthersStay, Effect, Under, HandlersOK, documents
  <1>3. QED
    BY <1>1, <1>2

ArchiveStep(d) ==
    /\ status[d] = "active" /\ status' = [status EXCEPT ![d] = "archived"]
    /\ \A e \in Events : plan'[e].etag = IF e = d THEN plan[e].etag + 1 ELSE plan[e].etag

(* A step is a handler's, or nothing happens to the handlers.              *)
LEMMA NextSteps ==
    ASSUME TypeInv, [Next]_vars
    PROVE  \/ \E h \in Handlers : HandlerStep(h) /\ Effect(h)
           \/ /\ UNCHANGED <<handler, occ>>
              /\ \/ UNCHANGED <<now, plan, status>>
                 \/ now' = now + 1 /\ UNCHANGED <<plan, status>>
                 \/ UNCHANGED now /\ \E d \in {Church} \cup Events : ArchiveStep(d)
  <1>1. CASE UNCHANGED vars
    BY <1>1 DEF vars, documents
  <1>2. ASSUME NEW h \in Handlers, Handle(h) \/ FailCall(h)
        PROVE  HandlerStep(h) /\ Effect(h)
    <2>1. CASE FailCall(h)
      BY <2>1, EndsHandler DEF FailCall, documents
    <2>2. CASE Handle(h)
      BY <2>2, GenerationSteps, OverrideSteps, SaveSteps DEF Handle
    <2>3. QED
      BY <1>2, <2>1, <2>2
  <1>3. ASSUME NEW r \in Requests, Arrive(r)
        PROVE  HandlerStep(r) /\ Effect(r)
    <2>1. PICK asked \in Asked : Begin(r, asked)
      BY <1>3 DEF Arrive
    <2>2. QED
      BY <1>3, <2>1, TypeParts, AskedTypes, BeginStarts DEF Arrive, Under, Handlers
  <1>4. CASE StartRun \/ Tick
    BY <1>4 DEF StartRun, Tick, documents
  <1>5. CASE \E d \in {Church} \cup Events : ArchiveDocument(d)
    <2>1. PICK d \in {Church} \cup Events : ArchiveDocument(d)
      BY <1>5
    <2>2. ArchiveStep(d)
      <3>1. CASE d = Church
        BY <2>1, <3>1, ChurchApart DEF ArchiveDocument, ArchiveStep
      <3>2. CASE d # Church
        BY <2>1, <3>2, TypeParts DEF ArchiveDocument, ArchiveStep, WorldOK
      <3>3. QED
        BY <3>1, <3>2
    <2>3. QED
      BY <2>1, <2>2 DEF ArchiveDocument
  <1>6. CASE GenerateNext \/ EndCall \/ StopRun
    BY <1>6, TimerSteps DEF Handlers
  <1>7. QED
    BY <1>1, <1>2, <1>3, <1>4, <1>5, <1>6 DEF Next, RunTimer, Handlers

LEMMA WrittenType ==
    ASSUME TypeInv, NEW h \in Handlers, Overrides(h)
    PROVE  /\ Named(h) \in Ids /\ h \in Requests /\ answer[h] = "none" /\ Under(h)
           /\ call[h].input \in Inputs /\ call[h].groups \in {None} \cup SUBSET Groups
           /\ seen[h] \in Docs /\ Written(h) \in Docs
           /\ occ[Named(h)] \in Docs
           /\ occ'[Named(h)] = [Written(h) EXCEPT !.etag = occ[Named(h)].etag + 1]
           /\ occ'[Named(h)] \in Docs /\ occ'[Named(h)].etag = occ[Named(h)].etag + 1
           /\ \A i \in Ids : i # Named(h) => occ'[i] = occ[i]
  <1> USE TypeParts
  <1>1. /\ Named(h) \in Ids /\ h \in Requests /\ answer[h] = "none" /\ Under(h)
        /\ call[h].input \in Inputs /\ seen[h] \in Docs
    BY DEF Overrides, StepsHold, Under
  <1>2. call[h].groups \in {None} \cup SUBSET Groups
    BY DEF HandlersOK, Asks
  <1>3. Written(h) \in Docs
    BY <1>1, <1>2, ChangedType DEF Written
  <1>4. occ[Named(h)] \in Docs
    BY <1>1 DEF Overrides, Stored, WorldOK
  <1>5. /\ occ'[Named(h)] = [Written(h) EXCEPT !.etag = occ[Named(h)].etag + 1]
        /\ \A i \in Ids : i # Named(h) => occ'[i] = occ[i]
    BY <1>1 DEF Overrides, WorldOK
  <1>6. occ[Named(h)].etag + 1 \in Nat
    BY <1>4 DEF Docs
  <1>7. occ'[Named(h)] \in Docs /\ occ'[Named(h)].etag = occ[Named(h)].etag + 1
    BY <1>3, <1>5, <1>6 DEF Docs
  <1>8. QED
    BY <1>1, <1>2, <1>3, <1>4, <1>5, <1>7

(* What becomes of an occurrence in a step.                                *)
LEMMA OccSteps ==
    ASSUME TypeInv, [Next]_vars, NEW i \in Ids
    PROVE  /\ \/ occ'[i] = occ[i]
              \/ \E h \in Handlers : Overrides(h) /\ Named(h) = i /\ Stored(i)
              \/ \E h \in Handlers : /\ Generates(h) /\ Sought(h) = i /\ ~Stored(i)
                                     /\ occ'[i] = Generated(h)
           /\ Stored(i) => /\ Stored(i)' /\ occ[i] \in Docs /\ occ'[i] \in Docs
                           /\ occ'[i] = occ[i] \/ occ'[i].etag = occ[i].etag + 1
  <1> USE TypeParts
  <1>1. CASE UNCHANGED occ
    BY <1>1 DEF Stored, WorldOK
  <1>2. ASSUME NEW h \in Handlers, Overrides(h)
        PROVE  /\ occ'[i] = occ[i] \/ (Named(h) = i /\ Stored(i))
               /\ Stored(i) => /\ Stored(i)' /\ occ[i] \in Docs /\ occ'[i] \in Docs
                               /\ occ'[i] = occ[i] \/ occ'[i].etag = occ[i].etag + 1
    BY <1>2, WrittenType, NoDocumentType DEF Overrides, Stored, WorldOK
  <1>3. ASSUME NEW h \in Handlers, Generates(h)
        PROVE  /\ occ'[i] = occ[i] \/ (Sought(h) = i /\ ~Stored(i) /\ occ'[i] = Generated(h))
               /\ Stored(i) => occ'[i] = occ[i]
    BY <1>3 DEF Generates, Stored, WorldOK
  <1>4. CASE \E h \in Handlers : Effect(h)
    <2>1. PICK h \in Handlers : Effect(h)
      BY <1>4
    <2>2. CASE Overrides(h)
      BY <2>2, <1>2
    <2>3. CASE Generates(h)
      BY <2>3, <1>3 DEF Stored, WorldOK
    <2>4. QED
      BY <1>1, <2>1, <2>2, <2>3 DEF Effect
  <1>5. QED
    BY <1>1, <1>4, NextSteps

(* A retry overwrites nothing: what is there is changed by an override of  *)
(* a caller only (InMemoryRepository and CosmosRepository, Create).        *)
THEOREM RetriesKeep == Safety => RetriesOverwriteNothing
  <1>1. ASSUME TypeInv, [Next]_vars
        PROVE  \A i \in Ids : Stored(i) /\ occ'[i] # occ[i] =>
                   \E r \in Requests : Answers(r, "overridden") /\ Named(r) = i
    <2> SUFFICES ASSUME NEW i \in Ids, Stored(i), occ'[i] # occ[i]
                 PROVE  \E r \in Requests : Answers(r, "overridden") /\ Named(r) = i
      OBVIOUS
    <2>1. PICK h \in Handlers : Overrides(h) /\ Named(h) = i
      BY <1>1, OccSteps
    <2>2. QED
      BY <1>1, <2>1, WrittenType DEF Answers, Overrides
  <1>2. TypeInv /\ [Next]_vars =>
            [\A i \in Ids : Stored(i) /\ occ'[i] # occ[i] =>
                \E r \in Requests : Answers(r, "overridden") /\ Named(r) = i]_vars
    BY <1>1
  <1>3. TypeInv /\ [Next]_vars => TypeInv'
    BY TypeStep
  <1>4. QED
    BY TypeInit, <1>2, <1>3, PTL DEF Safety, RetriesOverwriteNothing
-----------------------------------------------------------------------------
(* Archived occurrences are over.                                          *)

Sane(x) == x.starts < x.ends /\ (x.archived => x.ends <= now)

(* What is stored, what an override has read and what it will write.       *)
OverInv ==
    /\ \A i \in Ids : Stored(i) => Sane(occ[i])
    /\ \A h \in Handlers :
           /\ pc[h] = "groups" => Sane(seen[h])
           /\ pc[h] = "write" /\ call[h].op = "override" => Sane(Written(h))

(* What is permitted keeps an archived occurrence one that is over.        *)
LEMMA PermittedIsSane ==
    ASSUME NEW x \in Docs, NEW input \in Inputs, NEW named \in {None} \cup SUBSET Groups,
           now \in Nat, Sane(x), Permitted(x, input, named)
    PROVE  Sane(Changed(x, input, named))
  <1>1. x.starts \in Nat /\ x.ends \in Nat
    BY DEF Docs
  <1>2. input.window[1] \in Nat /\ input.window[2] \in Nat
    BY WindowsType DEF Inputs
  <1>3. CASE Archiving(x, input)
    BY <1>1, <1>3, ChangedType DEF Sane, Permitted, Archivable
  <1>4. CASE ~Archiving(x, input) /\ Regrouping(x, input, named)
    BY <1>1, <1>4, ChangedType DEF Sane
  <1>5. CASE ~Archiving(x, input) /\ ~Regrouping(x, input, named)
    BY <1>1, <1>2, <1>5, ChangedType DEF Sane, Permitted, Movable
  <1>6. QED
    BY <1>3, <1>4, <1>5

LEMMA OverStep ==
    ASSUME TypeInv, OverInv, [Next]_vars
    PROVE  OverInv'
  <1> USE TypeParts
  <1>1. TypeInv' /\ now \in Nat /\ now' \in Nat /\ now <= now'
    <2>1. TypeInv' /\ now \in Nat /\ now' \in Nat
      BY TypeStep, TimesType DEF TypeInv, TypeOK
    <2>2. now' = now \/ now' = now + 1
      BY NextSteps DEF Effect
    <2>3. QED
      BY <2>1, <2>2
  <1>2. ASSUME NEW x \in Docs, Sane(x)
        PROVE  x.starts < x.ends /\ (x.archived => x.ends <= now')
    BY <1>1, <1>2 DEF Sane, Docs
  <1>3. ASSUME NEW h \in Handlers, pc[h] = "write", call[h].op = "override"
        PROVE  Written(h) \in Docs
    BY <1>3, ChangedType DEF Written, StepsHold, HandlersOK, Asks
  <1>4. ASSUME NEW i \in Ids, Stored(i)'
        PROVE  occ'[i].starts < occ'[i].ends /\ (occ'[i].archived => occ'[i].ends <= now')
    <2>1. CASE occ'[i] = occ[i]
      BY <1>2, <1>4, <2>1 DEF OverInv, Stored, WorldOK
    <2>2. ASSUME NEW h \in Handlers, Overrides(h), Named(h) = i
          PROVE  occ'[i].starts < occ'[i].ends /\ (occ'[i].archived => occ'[i].ends <= now')
      <3>1. Written(h) \in Docs /\ Sane(Written(h))
        BY <1>3, <2>2 DEF Overrides, OverInv
      <3>2. /\ occ'[i].starts = Written(h).starts /\ occ'[i].ends = Written(h).ends
            /\ occ'[i].archived = Written(h).archived
        BY <2>2, <3>1, WrittenType DEF Docs
      <3>3. QED
        BY <1>2, <3>1, <3>2
    <2>3. ASSUME NEW h \in Handlers, Generates(h), occ'[i] = Generated(h)
          PROVE  occ'[i].starts < occ'[i].ends /\ (occ'[i].archived => occ'[i].ends <= now')
      BY <2>3, GeneratedType DEF Generates
    <2>4. QED
      BY <2>1, <2>2, <2>3, OccSteps
  <1>5. ASSUME NEW h \in Handlers
        PROVE  /\ pc'[h] = "groups" => Sane(seen[h])' 
               /\ pc'[h] = "write" /\ call'[h].op = "override" => Sane(Written(h))'
    <2>1. CASE /\ pc'[h] = pc[h] /\ call'[h] = call[h] /\ seen'[h] = seen[h]
      <3>1. pc[h] = "groups" => seen[h] \in Docs
        BY DEF StepsHold
      <3>2. QED
        BY <1>2, <1>3, <2>1, <3>1 DEF OverInv, Sane, Written, Changed, Archiving, Regrouping, ScheduleChanged
    <2>2. CASE HandlerStep(h)
      <3>1. CASE Starts(h) \/ ~Under(h)'
        BY <3>1 DEF Starts, Under
      <3>2. CASE GoesOn(h)
        <4>1. CASE pc'[h] = "groups"
          <5>1. Stored(Named(h)) /\ seen'[h] = occ[Named(h)] /\ Named(h) \in Ids
            BY <3>2, <4>1 DEF GoesOn, StepsHold
          <5>2. QED
            BY <1>2, <4>1, <5>1 DEF OverInv, Stored, WorldOK, Sane
        <4>2. CASE pc'[h] = "write" /\ call'[h].op = "override"
          <5>1. /\ Judged(h) /\ call[h].op = "override" /\ call'[h] = call[h]
                /\ Named(h) \in Ids /\ call[h].input \in Inputs
                /\ call[h].groups \in {None} \cup SUBSET Groups
            BY <3>2, <4>2 DEF GoesOn, StepsHold, HandlersOK, Asks
          <5>2. seen'[h] \in Docs /\ Sane(seen'[h])
            BY <5>1 DEF Judged, OverInv, Stored, WorldOK, StepsHold
          <5>3. Sane(Changed(seen'[h], call[h].input, call[h].groups))
            BY <1>1, <5>1, <5>2, PermittedIsSane DEF Judged
          <5>4. Changed(seen'[h], call[h].input, call[h].groups) \in Docs
            BY <5>1, <5>2, ChangedType
          <5>5. QED
            BY <1>2, <4>2, <5>1, <5>3, <5>4
               DEF Sane, Written, Changed, Archiving, Regrouping, ScheduleChanged
        <4>3. QED
          BY <4>1, <4>2
      <3>3. QED
        BY <2>2, <3>1, <3>2 DEF HandlerStep
    <2>3. QED
      BY <2>1, <2>2, NextSteps DEF HandlerStep, OthersStay, handler
  <1>6. QED
    BY <1>4, <1>5 DEF OverInv, Sane, Stored

(* An occurrence is archived only when it is over, though the clock is     *)
(* read some awaits before the write and others override it meanwhile      *)
(* (EventService.ApplyOverride).                                           *)
THEOREM ArchivedIsOver == Safety => []ArchivedAreOver
  <1>1. Init => OverInv
    BY DEF Init, OverInv, Stored
  <1>2. OverInv => ArchivedAreOver
    BY DEF OverInv, ArchivedAreOver, Sane
  <1>3. TypeInv /\ OverInv /\ [Next]_vars => TypeInv' /\ OverInv'
    BY TypeStep, OverStep
  <1>4. QED
    BY TypeInit, <1>1, <1>2, <1>3, PTL DEF Safety
-----------------------------------------------------------------------------
(* Versions: what a handler holds is what is stored as long as nobody      *)
(* writes, and an archived event or church stays archived.                 *)

(* Of an override: its call, the occurrence as it is, as it is held.       *)
OverrideFresh(asked, x, held, step) ==
    /\ x # NoDocument /\ asked.etag <= x.etag
    /\ step \in {"groups", "write"} =>
           /\ asked.etag <= held.etag /\ held.etag <= x.etag
           /\ held.etag = x.etag => held = x

SaveFresh(asked, stored, state, step) ==
    /\ asked.etag <= stored.etag
    /\ step = "write" /\ asked.etag = stored.etag => state = "active"

VersionInv ==
    \A h \in Handlers :
        /\ call[h].op = "override" => OverrideFresh(call[h], occ[Named(h)], seen[h], pc[h])
        /\ call[h].op = "save" =>
               SaveFresh(call[h], plan[call[h].event], status[call[h].event], pc[h])

LEMMA FreshStays ==
    ASSUME NEW asked, NEW x \in Docs, NEW y \in Docs, NEW held, NEW step,
           asked.etag \in Nat, step \in {"groups", "write"} => held \in Docs,
           OverrideFresh(asked, x, held, step), y = x \/ y.etag = x.etag + 1
    PROVE  OverrideFresh(asked, y, held, step)
  <1>1. x.etag \in Nat /\ y.etag \in Nat /\ y # NoDocument
    BY NoDocumentType DEF Docs
  <1>2. step \in {"groups", "write"} => held.etag \in Nat
    BY DEF Docs
  <1>3. QED
    BY <1>1, <1>2 DEF OverrideFresh

LEMMA PlanSteps ==
    ASSUME TypeInv, VersionInv, [Next]_vars, NEW e \in Events
    PROVE  /\ plan[e].etag \in Nat
           /\ \/ plan'[e].etag = plan[e].etag /\ (status[e] = "active" => status'[e] = "active")
              \/ plan'[e].etag = plan[e].etag + 1
           /\ status[e] = "archived" => status'[e] = "archived"
           /\ status[Church] = "archived" => status'[Church] = "archived"
  <1> USE TypeParts
  <1>1. plan[e].etag \in Nat
    BY DEF WorldOK
  <1>2. CASE UNCHANGED <<plan, status>>
    BY <1>1, <1>2
  <1>3. ASSUME NEW d \in {Church} \cup Events, ArchiveStep(d)
        PROVE  /\ \/ plan'[e].etag = plan[e].etag
                     /\ (status[e] = "active" => status'[e] = "active")
                  \/ plan'[e].etag = plan[e].etag + 1
               /\ status[e] = "archived" => status'[e] = "archived"
               /\ status[Church] = "archived" => status'[Church] = "archived"
    BY <1>3 DEF ArchiveStep, WorldOK
  <1>4. ASSUME NEW h \in Handlers, Saves(h)
        PROVE  /\ \/ plan'[e].etag = plan[e].etag
                     /\ (status[e] = "active" => status'[e] = "active")
                  \/ plan'[e].etag = plan[e].etag + 1
               /\ status[e] = "archived" => status'[e] = "archived"
               /\ status[Church] = "archived" => status'[Church] = "archived"
    <2>1. call[h].event \in Events /\ status[call[h].event] = "active"
      BY <1>4 DEF Saves, VersionInv, SaveFresh, StepsHold, Under
    <2>2. /\ plan'[call[h].event].etag = plan[call[h].event].etag + 1
          /\ \A k \in Events : k # call[h].event => plan'[k] = plan[k]
      BY <1>4, <2>1 DEF Saves, WorldOK
    <2>3. /\ \A d \in {Church} \cup Events : d # call[h].event => status'[d] = status[d]
          /\ call[h].event # Church
      BY <1>4, <2>1, ChurchApart DEF Saves, WorldOK
    <2>4. QED
      BY <2>1, <2>2, <2>3
  <1>5. QED
    BY <1>1, <1>2, <1>3, <1>4, NextSteps DEF Effect

LEMMA VersionStep ==
    ASSUME TypeInv, VersionInv, [Next]_vars
    PROVE  VersionInv'
  <1> USE TypeParts
  <1>1. TypeInv'
    BY TypeStep
  <1>2. SUFFICES ASSUME NEW h \in Handlers
                 PROVE  /\ call'[h].op = "override" =>
                               OverrideFresh(call'[h], occ'[Named(h)'], seen'[h], pc'[h])
                        /\ call'[h].op = "save" =>
                               SaveFresh(call'[h], plan'[call'[h].event],
                                         status'[call'[h].event], pc'[h])
    BY DEF VersionInv
  <1>3. call[h].etag \in Nat /\ (call'[h] = call[h] => Named(h)' = Named(h))
    BY DEF HandlersOK, Asks, Named
  <1>4. ASSUME call[h].op = "override", NEW held, NEW step,
               OverrideFresh(call[h], occ[Named(h)], held, step),
               step \in {"groups", "write"} => held \in Docs
        PROVE  OverrideFresh(call[h], occ'[Named(h)], held, step)
    <2>1. Named(h) \in Ids /\ Stored(Named(h))
      BY <1>4 DEF StepsHold, OverrideFresh, Stored
    <2>2. ASSUME NEW i \in Ids, Stored(i)
          PROVE  /\ occ[i] \in Docs /\ occ'[i] \in Docs
                 /\ occ'[i] = occ[i] \/ occ'[i].etag = occ[i].etag + 1
      BY <2>2, OccSteps
    <2>3. QED
      BY <1>3, <1>4, <2>1, <2>2, FreshStays
  <1>5. ASSUME call[h].op = "save", call'[h] = call[h],
               pc'[h] = pc[h] \/ (pc'[h] = "write" => status[call[h].event] = "active")
        PROVE  SaveFresh(call[h], plan'[call[h].event], status'[call[h].event], pc'[h])
    <2>1. call[h].event \in Events /\ call[h].etag <= plan[call[h].event].etag
      BY <1>5 DEF StepsHold, VersionInv, SaveFresh, Under
    <2>2. /\ plan[call[h].event].etag \in Nat
          /\ \/ /\ plan'[call[h].event].etag = plan[call[h].event].etag
                /\ status[call[h].event] = "active" => status'[call[h].event] = "active"
             \/ plan'[call[h].event].etag = plan[call[h].event].etag + 1
      BY <2>1, PlanSteps
    <2>3. QED
      BY <1>3, <1>5, <2>1, <2>2 DEF SaveFresh, VersionInv
  <1>6. CASE pc'[h] = pc[h] /\ call'[h] = call[h] /\ seen'[h] = seen[h]
    <2>1. CASE call[h].op = "override"
      <3>1. pc[h] \in {"groups", "write"} => seen[h] \in Docs
        BY <2>1 DEF StepsHold
      <3>2. QED
        BY <1>3, <1>4, <1>6, <2>1, <3>1 DEF VersionInv
    <2>2. CASE call[h].op = "save"
      BY <1>5, <1>6, <2>2
    <2>3. QED
      BY <1>6, <2>1, <2>2
  <1>7. CASE HandlerStep(h)
    <2>1. CASE ~Under(h)'
      <3>1. call'[h].op = "none"
        BY <1>1, <2>1 DEF TypeInv, StepsHold
      <3>2. QED
        BY <3>1
    <2>2. CASE Starts(h)
      <3>1. /\ UNCHANGED <<occ, plan>> /\ pc'[h] = "church"
            /\ Named(h)' = <<call'[h].event, call'[h].start>>
        BY <2>2 DEF Starts, documents, Named
      <3>2. call'[h].etag \in Nat
        BY <1>1 DEF TypeInv, TypeOK, Asks
      <3>3. ASSUME call'[h].op = "override"
            PROVE  OverrideFresh(call'[h], occ'[Named(h)'], seen'[h], pc'[h])
        BY <2>2, <3>1, <3>2, <3>3 DEF Starts, OverrideFresh, Stored
      <3>4. ASSUME call'[h].op = "save"
            PROVE  SaveFresh(call'[h], plan'[call'[h].event], status'[call'[h].event], pc'[h])
        BY <2>2, <3>1, <3>2, <3>4 DEF Starts, SaveFresh
      <3>5. QED
        BY <3>3, <3>4
    <2>3. CASE GoesOn(h)
      <3>1. call'[h] = call[h]
        BY <2>3 DEF GoesOn
      <3>2. CASE call[h].op = "override"
        <4>1. OverrideFresh(call[h], occ[Named(h)], seen'[h], pc'[h])
          <5>1. \/ pc'[h] \notin {"groups", "write"}
                \/ seen'[h] = occ[Named(h)]
                \/ pc[h] = "groups" /\ seen'[h] = seen[h]
            BY <2>3, <3>2 DEF GoesOn, Judged
          <5>2. occ[Named(h)] # NoDocument /\ call[h].etag <= occ[Named(h)].etag
            BY <3>2 DEF VersionInv, OverrideFresh
          <5>3. occ[Named(h)].etag \in Nat
            BY <3>2, <5>2 DEF StepsHold, WorldOK, Docs
          <5>4. QED
            BY <1>3, <3>2, <5>1, <5>2, <5>3 DEF VersionInv, OverrideFresh
        <4>2. pc'[h] \in {"groups", "write"} => seen'[h] \in Docs
          BY <1>1, <3>1, <3>2 DEF TypeInv, StepsHold
        <4>3. QED
          BY <1>3, <1>4, <3>1, <3>2, <4>1, <4>2
      <3>3. CASE call[h].op = "save"
        <4>1. pc'[h] = "write" => status[call[h].event] = "active"
          BY <2>3, <3>3 DEF GoesOn
        <4>2. QED
          BY <1>5, <3>1, <3>3, <4>1
      <3>4. QED
        BY <3>1, <3>2, <3>3
    <2>4. QED
      BY <1>7, <2>1, <2>2, <2>3 DEF HandlerStep
  <1>8. QED
    BY <1>6, <1>7, NextSteps DEF HandlerStep, OthersStay, handler
-----------------------------------------------------------------------------
(* What a moving override was permitted on still holds when it is written. *)

Moves(h) ==
    /\ pc[h] = "write" /\ call[h].op = "override"
    /\ ~Archiving(seen[h], call[h].input)
    /\ ~Regrouping(seen[h], call[h].input, call[h].groups)

MoveInv ==
    \A h \in Handlers :
        /\ Under(h) => arrival[h].now <= now
        /\ Moves(h) =>
               seen[h].starts > arrival[h].now /\ call[h].input.window[1] > arrival[h].now

LEMMA MoveStep ==
    ASSUME TypeInv, MoveInv, [Next]_vars
    PROVE  MoveInv'
  <1> USE TypeParts
  <1>1. TypeInv' /\ now \in Nat /\ now' \in Nat /\ now <= now'
    <2>1. TypeInv' /\ now \in Nat /\ now' \in Nat
      BY TypeStep, TimesType DEF TypeInv, TypeOK
    <2>2. now' = now \/ now' = now + 1
      BY NextSteps DEF Effect
    <2>3. QED
      BY <2>1, <2>2
  <1>2. SUFFICES ASSUME NEW h \in Handlers
                 PROVE  /\ Under(h)' => arrival'[h].now <= now'
                        /\ Moves(h)' => /\ seen'[h].starts > arrival'[h].now
                                        /\ call'[h].input.window[1] > arrival'[h].now
    BY DEF MoveInv
  <1>3. arrival[h].now \in Nat
    BY TimesType DEF HandlersOK
  <1>4. CASE /\ pc'[h] = pc[h] /\ call'[h] = call[h] /\ seen'[h] = seen[h]
             /\ arrival'[h] = arrival[h]
    BY <1>1, <1>3, <1>4 DEF MoveInv, Moves, Under
  <1>5. CASE HandlerStep(h) /\ now' = now
    <2>1. CASE ~Under(h)'
      BY <2>1 DEF Under, Moves
    <2>2. CASE Starts(h)
      BY <1>1, <2>2 DEF Starts, Moves
    <2>3. CASE GoesOn(h)
      <3>1. /\ call'[h] = call[h] /\ arrival'[h] = arrival[h] /\ arrival[h].now <= now
        BY <2>3 DEF GoesOn, MoveInv
      <3>2. ASSUME Moves(h)'
            PROVE  seen'[h].starts > now /\ call[h].input.window[1] > now
        <4>1. /\ call[h].op = "override" /\ pc'[h] = "write"
              /\ ~Archiving(seen'[h], call[h].input)
              /\ ~Regrouping(seen'[h], call[h].input, call[h].groups)
          BY <3>1, <3>2 DEF Moves
        <4>2. Permitted(seen'[h], call[h].input, call[h].groups)
          BY <2>3, <4>1 DEF GoesOn, Judged
        <4>3. QED
          BY <4>1, <4>2 DEF Permitted, Movable
      <3>3. ASSUME Moves(h)'
            PROVE  seen'[h].starts \in Nat /\ call[h].input.window[1] \in Nat
        <4>1. call[h].op = "override" /\ seen'[h] \in Docs /\ call[h].input \in Inputs
          BY <1>1, <3>1, <3>3 DEF Moves, TypeInv, StepsHold
        <4>2. QED
          BY <4>1, WindowsType DEF Docs, Inputs
      <3>4. QED
        BY <1>1, <1>3, <1>5, <3>1, <3>2, <3>3
    <2>4. QED
      BY <1>5, <2>1, <2>2, <2>3 DEF HandlerStep
  <1>6. QED
    BY <1>4, <1>5, NextSteps DEF HandlerStep, OthersStay, handler, Effect

(* A call that arrives after an occurrence has started neither moves nor   *)
(* cancels it, and none moves one to a start that was past on arrival      *)
(* (EventService.ApplyOverride).                                           *)
THEOREM HistoryStays == Safety => StartedNotMoved
  <1>1. Init => VersionInv /\ MoveInv
    BY NoCallTypes DEF Init, VersionInv, MoveInv, Moves, Under
  <1>2. TypeInv /\ VersionInv /\ MoveInv /\ [Next]_vars
            => TypeInv' /\ VersionInv' /\ MoveInv'
    BY TypeStep, VersionStep, MoveStep
  <1>3. TypeInv /\ VersionInv /\ MoveInv /\ [Next]_vars =>
            [\A r \in Requests : Answers(r, "overridden") =>
                LET x == occ[Named(r)]
                    y == occ'[Named(r)]
                IN
                <<x.starts, x.ends, x.cancelled>> # <<y.starts, y.ends, y.cancelled>> =>
                    x.starts > arrival[r].now /\ y.starts > arrival[r].now]_vars
    <2> SUFFICES ASSUME TypeInv, VersionInv, MoveInv, [Next]_vars,
                        NEW r \in Requests, Answers(r, "overridden"),
                        NEW x, x = occ[Named(r)], NEW y, y = occ'[Named(r)],
                        <<x.starts, x.ends, x.cancelled>> # <<y.starts, y.ends, y.cancelled>>
                 PROVE  x.starts > arrival[r].now /\ y.starts > arrival[r].now
      OBVIOUS
    <2>1. r \in Handlers /\ Overrides(r)
      <3>1. r \in Handlers /\ answer'[r] # answer[r] /\ answer'[r] = "overridden"
        BY DEF Answers, Handlers
      <3>2. PICK h \in Handlers : HandlerStep(h) /\ Effect(h)
        BY <3>1, NextSteps DEF handler
      <3>3. h = r
        BY <3>1, <3>2 DEF HandlerStep, OthersStay
      <3>4. QED
        BY <3>1, <3>2, <3>3 DEF Effect
    <2>2. /\ seen[r] \in Docs /\ x \in Docs /\ y = [Written(r) EXCEPT !.etag = x.etag + 1]
          /\ call[r].input \in Inputs /\ call[r].groups \in {None} \cup SUBSET Groups
          /\ Written(r) \in Docs
      BY <2>1, WrittenType
    <2>3. x = seen[r]
      <3>1. /\ call[r].etag = x.etag /\ OverrideFresh(call[r], x, seen[r], pc[r]) /\ pc[r] = "write"
        BY <2>1 DEF Overrides, VersionInv
      <3>2. x.etag \in Nat /\ seen[r].etag \in Nat
        BY <2>2 DEF Docs
      <3>3. QED
        BY <3>1, <3>2 DEF OverrideFresh
    <2>4. /\ y.starts = Written(r).starts /\ y.ends = Written(r).ends
          /\ y.cancelled = Written(r).cancelled
      BY <2>2 DEF Docs
    <2>5. Moves(r)
      BY <2>1, <2>2, <2>3, <2>4, ChangedType DEF Overrides, Moves, Written
    <2>6. y.starts = call[r].input.window[1]
      BY <2>2, <2>4, <2>5, ChangedType DEF Moves, Written
    <2>7. QED
      BY <2>1, <2>3, <2>5, <2>6 DEF MoveInv
  <1>4. QED
    BY TypeInit, <1>1, <1>2, <1>3, PTL DEF Safety, StartedNotMoved
-----------------------------------------------------------------------------
(* A generation that came too late stops before it looks.                  *)

ShutInv ==
    \A h \in Handlers :
        Under(h) /\ call[h].op = "generate" /\ arrival[h].shut =>
            \/ status[Church] = "archived" /\ pc[h] = "church"
            \/ status[call[h].event] = "archived" /\ pc[h] \in {"church", "event"}

LEMMA ShutStep ==
    ASSUME TypeInv, VersionInv, ShutInv, [Next]_vars
    PROVE  ShutInv'
  <1> USE TypeParts
  <1>1. TypeInv'
    BY TypeStep
  <1>2. SUFFICES ASSUME NEW h \in Handlers, Under(h)', call'[h].op = "generate", arrival'[h].shut
                 PROVE  \/ status'[Church] = "archived" /\ pc'[h] = "church"
                        \/ /\ status'[call'[h].event] = "archived"
                           /\ pc'[h] \in {"church", "event"}
    BY DEF ShutInv
  <1>3. ASSUME Under(h)
        PROVE  /\ status[call[h].event] = "archived" => status'[call[h].event] = "archived"
               /\ status[Church] = "archived" => status'[Church] = "archived"
    BY <1>3, PlanSteps DEF StepsHold
  <1>4. CASE pc'[h] = pc[h] /\ call'[h] = call[h] /\ arrival'[h] = arrival[h]
    BY <1>2, <1>3, <1>4 DEF ShutInv, Under
  <1>5. CASE HandlerStep(h)
    <2>1. CASE Starts(h)
      BY <1>2, <2>1 DEF Starts, documents
    <2>2. CASE GoesOn(h)
      <3>1. /\ Under(h) /\ call'[h] = call[h] /\ arrival'[h] = arrival[h]
            /\ call[h].op = "generate" /\ arrival[h].shut /\ UNCHANGED status
        BY <1>2, <2>2 DEF GoesOn, documents
      <3>2. \/ status[Church] = "archived" /\ pc[h] = "church"
            \/ status[call[h].event] = "archived" /\ pc[h] \in {"church", "event"}
        BY <3>1 DEF ShutInv
      <3>3. pc'[h] # "occurrence"
        BY <1>1, <3>1 DEF TypeInv, StepsHold
      <3>4. QED
        BY <2>2, <3>1, <3>2, <3>3 DEF GoesOn, OpenEvent, Judged
    <2>3. QED
      BY <1>2, <1>5, <2>1, <2>2 DEF HandlerStep
  <1>6. QED
    BY <1>4, <1>5, NextSteps DEF HandlerStep, OthersStay, handler

(* A generation that arrives after its event or the church was archived    *)
(* creates nothing (EventService.Generate, RequireActiveChurch).           *)
THEOREM LateGeneration == Safety => LateGenerationRefused
  <1>1. Init => VersionInv /\ ShutInv
    BY NoCallTypes DEF Init, VersionInv, ShutInv, Under
  <1>2. TypeInv /\ VersionInv /\ ShutInv /\ [Next]_vars
            => TypeInv' /\ VersionInv' /\ ShutInv'
    BY TypeStep, VersionStep, ShutStep
  <1>3. TypeInv /\ ShutInv /\ [Next]_vars =>
            [\A h \in Handlers : Answers(h, "created") => ~arrival[h].shut]_vars
    <2> SUFFICES ASSUME TypeInv, ShutInv, [Next]_vars, NEW h \in Handlers, Answers(h, "created")
                 PROVE  ~arrival[h].shut
      OBVIOUS
    <2>1. Generates(h)
      <3>1. answer'[h] # answer[h] /\ answer'[h] = "created"
        BY DEF Answers
      <3>2. PICK k \in Handlers : HandlerStep(k) /\ Effect(k)
        BY <3>1, NextSteps DEF handler
      <3>3. k = h
        BY <3>1, <3>2 DEF HandlerStep, OthersStay
      <3>4. QED
        BY <3>1, <3>2, <3>3 DEF Effect
    <2>2. QED
      BY <2>1, TypeParts DEF Generates, ShutInv, StepsHold, Under
  <1>4. QED
    BY TypeInit, <1>1, <1>2, <1>3, PTL DEF Safety, LateGenerationRefused
-----------------------------------------------------------------------------
(* Of the starts due, a handler has still to look at those that are        *)
(* missing, but for any that have come due behind the last it will see.    *)

OrderInv ==
    \A h \in Handlers : pc[h] \in {"look", "create"} =>
        /\ \A t \in todo[h] : t < now + Ahead
        /\ \A s \in Candidates(call[h].event) :
               \/ Stored(<<call[h].event, s>>)
               \/ s \in todo[h]
               \/ \A t \in todo[h] : t < s

(* A start that comes due in a step lies behind all that were due.         *)
LEMMA DueSteps ==
    ASSUME now \in Nat, now' \in Nat, now' = now \/ now' = now + 1, NEW e \in Events,
           NEW s \in Candidates(e)'
    PROVE  s \in Candidates(e) \/ s >= now + Ahead
  <1>1. s \in Schedule[e] /\ s \in Nat /\ Past \in Nat /\ Ahead \in Nat
    BY ScheduleType, TimesType DEF Candidates
  <1>2. s + Past >= now' /\ (e \in Recurring => s >= now')
    BY DEF Candidates
  <1>3. s + Past >= now /\ (e \in Recurring => s >= now)
    BY <1>1, <1>2
  <1>4. s < now + Ahead \/ s >= now + Ahead
    BY <1>1
  <1>5. QED
    BY <1>1, <1>3, <1>4 DEF Candidates

LEMMA OrderStep ==
    ASSUME TypeInv, OrderInv, [Next]_vars
    PROVE  OrderInv'
  <1> USE TypeParts
  <1>1. TypeInv' /\ now \in Nat /\ now' \in Nat /\ (now' = now \/ now' = now + 1)
    <2>1. TypeInv' /\ now \in Nat /\ now' \in Nat
      BY TypeStep, TimesType DEF TypeInv, TypeOK
    <2>2. now' = now \/ now' = now + 1
      BY NextSteps DEF Effect
    <2>3. QED
      BY <2>1, <2>2
  <1>2. SUFFICES ASSUME NEW h \in Handlers, pc'[h] \in {"look", "create"},
                        NEW e, e = call'[h].event
                 PROVE  /\ \A t \in todo'[h] : t < now' + Ahead
                        /\ \A s \in Candidates(e)' :
                               \/ Stored(<<e, s>>)'
                               \/ s \in todo'[h]
                               \/ \A t \in todo'[h] : t < s
    BY DEF OrderInv
  <1>3. e \in Events /\ todo'[h] \subseteq Nat /\ Ahead \in Nat
    <2>1. HandlersOK' /\ StepsHold'
      BY <1>1 DEF TypeInv, TypeOK, HandlersOK
    <2>2. QED
      BY <1>2, <2>1, TimesType DEF HandlersOK, StepsHold, Under
  <1>4. ASSUME NEW s \in Schedule[e], Stored(<<e, s>>)
        PROVE  Stored(<<e, s>>)'
    <2>1. <<e, s>> \in Ids
      BY <1>3 DEF Ids
    <2>2. ASSUME NEW i \in Ids, Stored(i) PROVE Stored(i)'
      BY <2>2, OccSteps
    <2>3. QED
      BY <1>4, <2>1, <2>2
  <1>5. ASSUME call'[h] = call[h], pc[h] \in {"look", "create"}, todo'[h] \subseteq todo[h],
               \A s \in todo[h] : s \in todo'[h] \/ Stored(<<e, s>>)
        PROVE  /\ \A t \in todo'[h] : t < now' + Ahead
               /\ \A s \in Candidates(e)' :
                      \/ Stored(<<e, s>>)'
                      \/ s \in todo'[h]
                      \/ \A t \in todo'[h] : t < s
    <2>1. /\ \A t \in todo'[h] : t < now + Ahead
          /\ \A s \in Candidates(e) :
                 \/ Stored(<<e, s>>)
                 \/ s \in todo[h]
                 \/ \A t \in todo[h] : t < s
      BY <1>2, <1>5 DEF OrderInv
    <2>2. ASSUME NEW t \in todo'[h] PROVE t < now' + Ahead
      <3>1. t \in Nat /\ t < now + Ahead
        BY <1>3, <2>1
      <3>2. CASE now' = now
        BY <3>1, <3>2
      <3>3. CASE now' = now + 1
        BY <1>1, <1>3, <3>1, <3>3
      <3>4. QED
        BY <1>1, <3>2, <3>3
    <2>3. ASSUME NEW s \in Candidates(e)'
          PROVE  \/ Stored(<<e, s>>)'
                 \/ s \in todo'[h]
                 \/ \A t \in todo'[h] : t < s
      <3>1. s \in Schedule[e] /\ s \in Nat
        BY <1>3, ScheduleType DEF Candidates
      <3>2. CASE s \in Candidates(e)
        <4>1. Stored(<<e, s>>) \/ s \in todo'[h] \/ \A t \in todo[h] : t < s
          BY <1>5, <2>1, <3>2
        <4>2. QED
          BY <1>4, <1>5, <3>1, <4>1
      <3>3. CASE s >= now + Ahead
        <4>1. ASSUME NEW t \in todo'[h] PROVE t < s
          <5>1. t \in Nat /\ t < now + Ahead
            BY <1>3, <2>1
          <5>2. QED
            BY <1>1, <1>3, <3>1, <3>3, <5>1
        <4>2. QED
          BY <4>1
      <3>4. s \in Candidates(e) \/ s >= now + Ahead
        BY <1>1, <1>3, DueSteps
      <3>5. QED
        BY <3>2, <3>3, <3>4
    <2>4. QED
      BY <2>2, <2>3
  <1>6. CASE pc'[h] = pc[h] /\ call'[h] = call[h] /\ todo'[h] = todo[h]
    BY <1>2, <1>5, <1>6
  <1>7. CASE HandlerStep(h) /\ now' = now
    <2>1. GoesOn(h) /\ call'[h] = call[h]
      BY <1>2, <1>7 DEF HandlerStep, Starts, GoesOn, Under
    <2>2. CASE pc[h] = "event" /\ todo'[h] = Candidates(call[h].event)
      <3>1. /\ todo'[h] = Candidates(e) /\ Candidates(e)' = Candidates(e)
            /\ \A t \in todo'[h] : t < now' + Ahead
        BY <1>2, <1>7, <2>1, <2>2 DEF Candidates
      <3>2. QED
        BY <3>1
    <2>3. CASE pc[h] \in {"look", "create"} /\ todo'[h] = todo[h]
      BY <1>5, <2>1, <2>3
    <2>4. CASE /\ pc[h] \in {"look", "create"} /\ Stored(Sought(h))
               /\ todo'[h] = todo[h] \ {Sought(h)[2]}
      <3>1. Sought(h) = <<e, Sought(h)[2]>>
        BY <1>2, <2>1, <2>4, SoughtIsOne
      <3>2. QED
        BY <1>5, <2>1, <2>4, <3>1
    <2>5. QED
      BY <1>2, <2>1, <2>2, <2>3, <2>4 DEF GoesOn
  <1>8. QED
    BY <1>6, <1>7, NextSteps DEF HandlerStep, OthersStay, handler, Effect

(* Occurrences are generated in the order of their starts: when one is     *)
(* created, every earlier one that is due is there (EventService.Generate, *)
(* Maintain).                                                              *)
THEOREM InOrder == Safety => GeneratedInOrder
  <1>1. Init => OrderInv
    BY DEF Init, OrderInv
  <1>2. TypeInv /\ OrderInv /\ [Next]_vars => TypeInv' /\ OrderInv'
    BY TypeStep, OrderStep
  <1>3. TypeInv /\ OrderInv /\ [Next]_vars =>
            [\A i \in Ids : ~Stored(i) /\ Stored(i)' =>
                \A s \in Candidates(i[1]) : s < i[2] => Stored(<<i[1], s>>)]_vars
    <2> SUFFICES ASSUME TypeInv, OrderInv, [Next]_vars,
                        NEW i \in Ids, ~Stored(i), Stored(i)',
                        NEW s \in Candidates(i[1]), s < i[2]
                 PROVE  Stored(<<i[1], s>>)
      OBVIOUS
    <2>1. PICK h \in Handlers : Generates(h) /\ Sought(h) = i
      BY OccSteps DEF Stored
    <2>2. pc[h] = "create"
      BY <2>1 DEF Generates
    <2>3. /\ i[1] = call[h].event /\ i[2] = First(todo[h]) /\ i[1] \in Events
          /\ todo[h] \subseteq Nat /\ todo[h] # {}
      BY <2>1, <2>2, SoughtIsOne, TypeParts DEF HandlersOK
    <2>4. i[2] \in todo[h] /\ i[2] \in Nat /\ \A t \in todo[h] : i[2] <= t
      BY <2>3, FirstIsLeast
    <2>5. s \in Nat
      BY <2>3, CandidatesFit
    <2>6. s \notin todo[h] /\ ~(i[2] < s)
      BY <2>4, <2>5
    <2>7. QED
      BY <2>2, <2>3, <2>4, <2>6 DEF OrderInv
  <1>4. QED
    BY TypeInit, <1>1, <1>2, <1>3, PTL DEF Safety, GeneratedInOrder
=============================================================================

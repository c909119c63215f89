----------------------------- MODULE Occurrences -----------------------------
(***************************************************************************)
(* EventService and the OccurrenceMaintenance timer: generating, changing  *)
(* and archiving the occurrences of a church's events, while time passes.  *)
(*                                                                         *)
(* An occurrence's id is a hash of its event and its scheduled start, so   *)
(* whoever generates it first decides: it is created, never replaced.  A   *)
(* call generates the first occurrence that is missing; the timer makes    *)
(* such a call for one event after another and begins again hours later.   *)
(***************************************************************************)
EXTENDS Naturals, FiniteSets

CONSTANTS
    Requests,
    Timer,          \* the handler of the timer's calls
    Church,
    Events,         \* numbers, which order the events as a search does
    Schedule,       \* the starts an event's rule expands to
    Recurring,      \* events with a recurrence rule
    Broken,         \* events whose rule can no longer be expanded
    Duration,
    Past, Ahead,    \* the window that is generated, around the present
    Windows,        \* the (start, end) pairs an override may ask for
    Longest,        \* the longest occurrence an override may make
    Groups,
    None,           \* the caller leaves the groups as they are
    NoDocument,
    MaxTime,        \* bound on the clock
    MaxFailures     \* bound on failures of the store and of the host

ASSUME ScheduleType == Schedule \in [Events -> SUBSET Nat] /\ Events \subseteq Nat
ASSUME TimesType == {Duration, Past, Ahead, Longest, MaxTime, MaxFailures} \subseteq Nat
ASSUME DurationPositive == Duration > 0
ASSUME ChurchApart == Church \notin Events
ASSUME WindowsType == Windows \subseteq Nat \X Nat

Handlers == Requests \cup {Timer}
Ids == UNION {{e} \X Schedule[e] : e \in Events}

VARIABLES
    now,            \* the clock
    failures,       \* failures so far
    status,         \* of the church and its events: active or archived
    plan,           \* of each event: its groups and ETag
    occ,            \* of each id: its occurrence
    call,           \* of each handler: what it was asked for
    pc,             \* of each handler: what it awaits next
    seen,           \* of each handler: the occurrence it holds
    todo,           \* of each handler: the starts it has still to look at
    gs,             \* of each handler: the groups its event had
    answer,         \* of each handler: its outcome
    arrival,        \* of each handler (history): the state when it was called
    agenda          \* the events the timer's run has still to come to

documents == <<status, plan, occ>>
handler == <<call, pc, seen, todo, gs, answer, arrival>>
vars == <<now, failures, documents, handler, agenda>>

Store == INSTANCE Repository

Docs ==
    [starts : Nat, ends : Nat, cancelled : BOOLEAN, archived : BOOLEAN,
     overridden : BOOLEAN, groups : SUBSET Groups, etag : Nat]

ASSUME NoDocumentType == NoDocument \notin Docs

Inputs ==
    [window : Windows, cancelled : BOOLEAN, archived : BOOLEAN]

Steps == {"waiting", "church", "event", "look", "create", "occurrence", "groups",
          "write", "done"}

Outcomes ==
    {"none", "created", "nothing", "overridden", "saved", "not_found",
     "archived_resource", "invalid_recurrence", "validation_failed", "stale_version",
     "failed"}

Stored(i) == occ[i] # NoDocument
-----------------------------------------------------------------------------
(* A handler's control.  Of a call that is over only its outcome is kept.  *)

NoCall ==
    [op |-> "none", event |-> 0, start |-> 0, etag |-> 0, input |-> None, groups |-> None]

NoArrival == [now |-> 0, shut |-> FALSE]

Answer(h, outcome) ==
    /\ pc' = [pc EXCEPT ![h] = "done"]
    /\ seen' = [seen EXCEPT ![h] = NoDocument]
    /\ todo' = [todo EXCEPT ![h] = {}]
    /\ gs' = [gs EXCEPT ![h] = {}]
    /\ answer' = [answer EXCEPT ![h] = outcome]
    /\ call' = [call EXCEPT ![h] = NoCall]
    /\ arrival' = [arrival EXCEPT ![h] = NoArrival]

Await(h, step) ==
    /\ pc' = [pc EXCEPT ![h] = step]
    /\ UNCHANGED <<call, answer, arrival>>

OnlyReads == UNCHANGED <<now, failures, documents, agenda>>

Begin(h, asked) ==
    /\ call' = [call EXCEPT ![h] = asked]
    /\ arrival' = [arrival EXCEPT ![h] =
          [now |-> now,
           shut |-> \E d \in {Church, asked.event} : status[d] = "archived"]]
    /\ pc' = [pc EXCEPT ![h] = "church"]
    /\ answer' = [answer EXCEPT ![h] = "none"]
    /\ UNCHANGED <<now, failures, documents, seen, todo, gs>>

Generation(e) ==
    [NoCall EXCEPT !.op = "generate", !.event = e]

(* What the API is asked: a caller sends the ETag of what it has just read. *)
Asked ==
    {Generation(e) : e \in Events}
    \cup {[op |-> "save", event |-> e, start |-> 0, etag |-> plan[e].etag,
           input |-> None, groups |-> named] : e \in Events, named \in SUBSET Groups}
    \cup {[op |-> "override", event |-> i[1], start |-> i[2], etag |-> occ[i].etag,
           input |-> input, groups |-> named] :
            i \in {j \in Ids : Stored(j)}, input \in Inputs,
            named \in {None} \cup SUBSET Groups}

Arrive(r) ==
    /\ r \in Requests
    /\ pc[r] = "waiting"
    /\ \E asked \in Asked : Begin(r, asked)
    /\ UNCHANGED agenda

ReadChurch(h) ==
    /\ pc[h] = "church"
    /\ IF status[Church] # "active"
       THEN Answer(h, "archived_resource")
       ELSE /\ Await(h, IF call[h].op = "override" THEN "occurrence" ELSE "event")
            /\ UNCHANGED <<seen, todo, gs>>
    /\ OnlyReads

-----------------------------------------------------------------------------
(* Generate.                                                               *)

(* The starts in the window; of a recurring event only those to come.      *)
Candidates(e) ==
    {s \in Schedule[e] :
        /\ s + Past >= now /\ s < now + Ahead
        /\ e \in Recurring => s >= now}

AnyEvent(e) == TRUE         \* fault: an archived event is generated too

OpenEvent(e) == status[e] = "active"

ReadEvent(h) ==
    LET e == call[h].event IN
    /\ pc[h] = "event"
    /\ call[h].op = "generate"
    /\ IF ~OpenEvent(e) THEN Answer(h, "archived_resource")
       ELSE IF e \in Broken THEN Answer(h, "invalid_recurrence")
       ELSE IF Candidates(e) = {} THEN Answer(h, "nothing")
       ELSE /\ Await(h, "look")
            /\ todo' = [todo EXCEPT ![h] = Candidates(e)]
            /\ gs' = [gs EXCEPT ![h] = plan[e].groups]
            /\ UNCHANGED seen
    /\ OnlyReads

Last(S) == CHOOSE s \in S : \A t \in S : s >= t     \* fault: the latest start first

First(S) == CHOOSE s \in S : \A t \in S : s <= t

Sought(h) == <<call[h].event, First(todo[h])>>

(* The one looked at is there: on to the next start, if there is one.      *)
Skip(h) ==
    LET rest == todo[h] \ {Sought(h)[2]} IN
    IF rest = {}
    THEN Answer(h, "nothing")
    ELSE Await(h, "look") /\ todo' = [todo EXCEPT ![h] = rest] /\ UNCHANGED <<seen, gs>>

LookForOccurrence(h) ==
    /\ pc[h] = "look"
    /\ IF Stored(Sought(h))
       THEN Skip(h)
       ELSE Await(h, "create") /\ UNCHANGED <<seen, todo, gs>>
    /\ OnlyReads

Generated(h) ==
    LET start == First(todo[h]) IN
    [starts |-> start, ends |-> start + Duration, cancelled |-> FALSE,
     archived |-> FALSE, overridden |-> FALSE, groups |-> gs[h], etag |-> 1]

CreateOccurrence(h) ==
    /\ pc[h] = "create"
    /\ IF Store!MayCreate(occ[Sought(h)])
       THEN /\ occ' = [occ EXCEPT ![Sought(h)] = Generated(h)]
            /\ Answer(h, "created")
       ELSE Skip(h) /\ UNCHANGED occ
    /\ UNCHANGED <<now, failures, status, plan, agenda>>

-----------------------------------------------------------------------------
(* Override.                                                               *)

Named(h) == <<call[h].event, call[h].start>>

ScheduleChanged(x, input) ==
    \/ <<x.starts, x.ends>> # input.window
    \/ x.cancelled # input.cancelled

Archiving(x, input) == x.archived # input.archived

Regrouping(x, input, named) ==
    /\ ~Archiving(x, input) /\ ~ScheduleChanged(x, input)
    /\ named # None /\ ~x.cancelled

ArchivableOnceStarted(x) == x.starts <= now     \* fault: archived before it is over

Archivable(x) == x.ends <= now

MovableUntilOver(x) == x.ends > now             \* fault: moved after it started

Movable(x) == x.starts > now

(* What an override may do depends on the time: an occurrence is archived  *)
(* (or restored) when it is over, regrouped until then and moved or        *)
(* cancelled until it starts.                                              *)
Permitted(x, input, named) ==
    LET from == input.window[1]
        until == input.window[2]
    IN
    IF Archiving(x, input) THEN Archivable(x) /\ ~ScheduleChanged(x, input)
    ELSE IF Regrouping(x, input, named) THEN x.ends > now
    ELSE Movable(x) /\ until > from /\ until - from <= Longest /\ from > now

(* The handler's copy, changed.                                            *)
Changed(x, input, named) ==
    LET groups == IF named = None THEN x.groups ELSE named IN
    IF Archiving(x, input)
    THEN [x EXCEPT !.archived = input.archived, !.groups = groups]
    ELSE IF Regrouping(x, input, named)
    THEN [x EXCEPT !.groups = groups, !.overridden = TRUE]
    ELSE [x EXCEPT !.starts = input.window[1], !.ends = input.window[2],
                   !.cancelled = input.cancelled, !.groups = groups, !.overridden = TRUE]

(* ValidateGroups: a group that the caller names is missing, or archived.  *)
(* Groups change elsewhere, at any time.                                   *)
GroupRefused(h) ==
    /\ call[h].groups \notin {None, {}}
    /\ Answer(h, "not_found") \/ Answer(h, "archived_resource")

(* The clock is read and the override judged; the copy is held for writing. *)
Judge(h, x) ==
    IF ~Permitted(x, call[h].input, call[h].groups)
    THEN Answer(h, "validation_failed")
    ELSE Await(h, "write") /\ seen' = [seen EXCEPT ![h] = x] /\ UNCHANGED <<todo, gs>>

(* Groups that the caller names are read before the clock is.              *)
ReadOccurrence(h) ==
    LET x == occ[Named(h)] IN
    /\ pc[h] = "occurrence"
    /\ IF x = NoDocument THEN Answer(h, "not_found")
       ELSE IF call[h].groups = None THEN Judge(h, x)
       ELSE Await(h, "groups") /\ seen' = [seen EXCEPT ![h] = x] /\ UNCHANGED <<todo, gs>>
    /\ OnlyReads

ReadGroups(h) ==
    /\ pc[h] = "groups"
    /\ Judge(h, seen[h]) \/ GroupRefused(h)
    /\ OnlyReads

WriteOverride(h) ==
    LET i == Named(h) IN
    /\ pc[h] = "write"
    /\ call[h].op = "override"
    /\ IF Store!MayReplace(occ[i], call[h].etag)
       THEN /\ occ' = [occ EXCEPT ![i] =
                  [Changed(seen[h], call[h].input, call[h].groups)
                      EXCEPT !.etag = occ[i].etag + 1]]
            /\ Answer(h, "overridden")
       ELSE Answer(h, Store!ReplaceRefusal(occ[i])) /\ UNCHANGED occ
    /\ UNCHANGED <<now, failures, status, plan, agenda>>

-----------------------------------------------------------------------------
(* Save of an event: its schedule is immutable, its groups are not.  They  *)
(* are read and the rule is expanded before the event is read.             *)

ReadEventToSave(h) ==
    /\ pc[h] = "event"
    /\ call[h].op = "save"
    /\ \/ GroupRefused(h)
       \/ IF call[h].event \in Broken THEN Answer(h, "invalid_recurrence")
          ELSE IF status[call[h].event] # "active" THEN Answer(h, "archived_resource")
          ELSE Await(h, "write") /\ UNCHANGED <<seen, todo, gs>>
    /\ OnlyReads

WriteEvent(h) ==
    LET e == call[h].event IN
    /\ pc[h] = "write"
    /\ call[h].op = "save"
    /\ IF Store!MayReplace(plan[e], call[h].etag)
       THEN /\ plan' = [plan EXCEPT ![e] = [groups |-> call[h].groups, etag |-> @.etag + 1]]
            /\ status' = [status EXCEPT ![e] = "active"]
            /\ Answer(h, "saved")
       ELSE Answer(h, Store!ReplaceRefusal(plan[e])) /\ UNCHANGED <<plan, status>>
    /\ UNCHANGED <<now, failures, occ, agenda>>

Handle(h) ==
    \/ ReadChurch(h)
    \/ ReadEvent(h)
    \/ LookForOccurrence(h)
    \/ CreateOccurrence(h)
    \/ ReadOccurrence(h)
    \/ ReadGroups(h)
    \/ WriteOverride(h)
    \/ ReadEventToSave(h)
    \/ WriteEvent(h)

-----------------------------------------------------------------------------
(* The timer.                                                              *)

Idle(h) == pc[h] = "waiting"

(* A run searches the active churches and the active events of each.       *)
StartRun ==
    /\ Idle(Timer)
    /\ agenda = {}
    /\ agenda' = {e \in Events : status[Church] = "active" /\ status[e] = "active"}
    /\ UNCHANGED <<now, failures, documents, handler>>

GenerateNext ==
    /\ Idle(Timer)
    /\ agenda # {}
    /\ Begin(Timer, Generation(First(agenda)))
    /\ agenda' = agenda \ {First(agenda)}

NothingAfterFailure ==      \* fault: the run ends with the first call that fails
    IF answer[Timer] \in {"created", "nothing"} THEN agenda ELSE {}

RestOfRun == agenda

(* A call that fails is logged, and the run goes on.                       *)
EndCall ==
    /\ pc[Timer] = "done"
    /\ pc' = [pc EXCEPT ![Timer] = "waiting"]
    /\ answer' = [answer EXCEPT ![Timer] = "none"]
    /\ agenda' = RestOfRun
    /\ UNCHANGED <<now, failures, documents, call, seen, todo, gs, arrival>>

RunTimer == StartRun \/ GenerateNext \/ EndCall \/ Handle(Timer)

-----------------------------------------------------------------------------
(* What happens around the handlers.                                       *)

(* The store fails the call a generation awaits.                           *)
FailCall(h) ==
    /\ failures < MaxFailures
    /\ failures' = failures + 1
    /\ pc[h] \in {"church", "event", "look", "create"}
    /\ Answer(h, "failed")
    /\ UNCHANGED <<now, documents, agenda>>

(* The host shuts down, and the timer's run with it.                       *)
StopRun ==
    /\ failures < MaxFailures
    /\ failures' = failures + 1
    /\ ~Idle(Timer) \/ agenda # {}
    /\ pc' = [pc EXCEPT ![Timer] = "waiting"]
    /\ todo' = [todo EXCEPT ![Timer] = {}]
    /\ gs' = [gs EXCEPT ![Timer] = {}]
    /\ answer' = [answer EXCEPT ![Timer] = "none"]
    /\ call' = [call EXCEPT ![Timer] = NoCall]
    /\ arrival' = [arrival EXCEPT ![Timer] = NoArrival]
    /\ agenda' = {}
    /\ UNCHANGED <<now, documents, seen>>

(* DirectoryService.Archive of the church or an event.                     *)
ArchiveDocument(d) ==
    /\ status[d] = "active"
    /\ status[Church] = "active"
    /\ status' = [status EXCEPT ![d] = "archived"]
    /\ plan' = IF d = Church THEN plan ELSE [plan EXCEPT ![d].etag = @ + 1]
    /\ UNCHANGED <<now, failures, occ, handler, agenda>>

Tick ==
    /\ now < MaxTime
    /\ now' = now + 1
    /\ UNCHANGED <<failures, documents, handler, agenda>>

Init ==
    /\ now = 0
    /\ failures = 0
    /\ status = [d \in {Church} \cup Events |-> "active"]
    /\ plan = [e \in Events |-> [groups |-> {}, etag |-> 1]]
    /\ occ = [i \in Ids |-> NoDocument]
    /\ call = [h \in Handlers |-> NoCall]
    /\ pc = [h \in Handlers |-> "waiting"]
    /\ seen = [h \in Handlers |-> NoDocument]
    /\ todo = [h \in Handlers |-> {}]
    /\ gs = [h \in Handlers |-> {}]
    /\ answer = [h \in Handlers |-> "none"]
    /\ arrival = [h \in Handlers |-> NoArrival]
    /\ agenda = {}

Next ==
    \/ \E r \in Requests : Arrive(r) \/ Handle(r) \/ FailCall(r)
    \/ RunTimer
    \/ FailCall(Timer)
    \/ StopRun
    \/ \E d \in {Church} \cup Events : ArchiveDocument(d)
    \/ Tick

Safety == Init /\ [][Next]_vars

(* The host calls the timer again and again, and runs what it calls.       *)
Spec == Safety /\ WF_vars(RunTimer)

-----------------------------------------------------------------------------
(* Properties.                                                             *)

Asks ==
    [op : {"none", "generate", "save", "override"}, event : Nat, start : Nat, etag : Nat,
     input : {None} \cup Inputs, groups : {None} \cup SUBSET Groups]

(* Every variable has its type; a handler that goes on has what it needs.  *)
TypeOK ==
    /\ now \in 0 .. MaxTime
    /\ failures \in 0 .. MaxFailures
    /\ status \in [{Church} \cup Events -> {"active", "archived"}]
    /\ plan \in [Events -> [groups : SUBSET Groups, etag : Nat]]
    /\ occ \in [Ids -> Docs \cup {NoDocument}]
    /\ call \in [Handlers -> Asks]
    /\ pc \in [Handlers -> Steps]
    /\ seen \in [Handlers -> Docs \cup {NoDocument}]
    /\ todo \in [Handlers -> SUBSET Nat]
    /\ gs \in [Handlers -> SUBSET Groups]
    /\ answer \in [Handlers -> Outcomes]
    /\ arrival \in [Handlers -> [now : 0 .. MaxTime, shut : BOOLEAN]]
    /\ agenda \in SUBSET Events
    /\ \A h \in Handlers :
          /\ pc[h] \in {"look", "create"} <=> todo[h] # {}
          /\ pc[h] \in {"look", "create"} => todo[h] \subseteq Schedule[call[h].event]

(* An archived occurrence is over: the clock, the group reads and other    *)
(* overrides cannot bring about an archived one that is still to come.     *)
ArchivedAreOver ==
    \A i \in Ids : Stored(i) /\ occ[i].archived => occ[i].ends <= now

Answers(h, outcome) == answer[h] = "none" /\ answer'[h] = outcome

(* A generation that arrives after its event or the church was archived    *)
(* creates nothing.                                                        *)
LateGenerationRefused ==
    [][\A h \in Handlers : Answers(h, "created") => ~arrival[h].shut]_vars

(* Once there, an occurrence is changed by overrides only: generating it   *)
(* again, by hand or by the timer, takes nothing back (README: generated   *)
(* occurrences, cancellations and overrides are never overwritten by       *)
(* retries).                                                               *)
RetriesOverwriteNothing ==
    [][\A i \in Ids : Stored(i) /\ occ'[i] # occ[i] =>
          \E r \in Requests :
              Answers(r, "overridden") /\ Named(r) = i]_vars

(* Occurrences are generated in the order of their starts: when one is     *)
(* created, every earlier one that is due is there.                        *)
GeneratedInOrder ==
    [][\A i \in Ids : ~Stored(i) /\ Stored(i)' =>
          \A s \in Candidates(i[1]) : s < i[2] => Stored(<<i[1], s>>)]_vars

(* A call that arrives after an occurrence has started neither moves nor   *)
(* cancels it, and no call moves one into the past as it was on arrival.   *)
StartedNotMoved ==
    [][\A r \in Requests : Answers(r, "overridden") =>
          LET x == occ[Named(r)]
              y == occ'[Named(r)]
          IN
          <<x.starts, x.ends, x.cancelled>> # <<y.starts, y.ends, y.cancelled>> =>
              x.starts > arrival[r].now /\ y.starts > arrival[r].now]_vars

(* The timer catches up: the occurrences of an event that stays active are *)
(* all generated, though other events fail, and a call or a run may.       *)
CaughtUp ==
    \A e \in Events \ Broken :
        <>[](status[Church] = "active" /\ status[e] = "active")
            => <>[](\A s \in Candidates(e) : Stored(<<e, s>>))

=============================================================================

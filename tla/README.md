# Verification of jchurch

TLA+ models of the church check-in system in `src/`, the TLC configurations that
check them on small instances and TLAPS proofs about the check-in, merge, directory and event
services, the check-in and scanning screens, the directory's editors and signing in. File
names without a directory below are under `src/src/jchurchFunction` (the API, C#) or
`src/src/JcChurchMobile` (the app, TypeScript). `PROJECT.json` maps every definition to
the lines it stands for.

Checking it: `tlc -config MCCheckIns.cfg MCCheckIns.tla` (and so on for the other
configurations); `tlapm CheckIns_proofs.tla`, and so on for the other `_proofs` modules.
The configurations that no run of `PROJECT.json` names produce the counterexamples of
section 6.

## 1. The system

A church keeps a **directory** (the church itself, groups with one level of subgroups,
members, custom fields, events and their occurrences) and takes **attendance**: a
receipt per member and occurrence. The API is a stateless Functions app over a document
store; everything it knows between two awaits is in the store. The app is a React Native
client; what it knows is in its screens.

| Component | State | Operations | Called by |
|---|---|---|---|
| Document store (`Storage/`) | documents with ETags; scan-code lookups | `Get`, `Create`, `Replace`, `SaveMember`, `Transfer`, `Search`, `Purge`, `ResolveScanCode` | every service |
| Check-in service (`Services/CheckInService.cs`) | receipts (`Attendance`) with an audit | check in, undo, status, resolve a scan | `CheckInsApi` |
| Member merge (`Services/MemberMergeService.cs`) | none of its own | preview, merge | `MemberMergeApi`; calls the directory service and the store |
| Directory service (`Services/DirectoryService.cs`) | church, groups, members, custom fields | save, archive, purge, get, list | `DirectoryApi`, merge, CSV, check-in |
| Event service (`Services/EventService.cs`) | events, occurrences | save, generate the next occurrence, override | `EventsApi`, the maintenance timer |
| Maintenance timer (`Functions/OccurrenceMaintenance.cs`) | none | generate for every active event | the Functions host, every six hours where enabled |
| Scan codes (`Domain/ScanCodes.cs`) | a lookup document per code | normalise, assign, release | member saves, scans |
| Users (`Services/UserService.cs`) | a record per email: role, churches, invited or active | create, replace, claim, archive | `UsersApi` |
| Member images (`Services/MemberImageService.cs`, `Storage/MemberImageStore.cs`) | a blob and the member's image version | put, delete, read | `MemberImagesApi` |
| CSV (`Services/MemberCsvService.cs`, `GroupCsvService.cs`) | a table of names during one import | import, export | directory API |
| Reports | none | aggregation | report APIs |
| App: scanning (`src/screens/ScanCheckIn.tsx`, `src/ScanCode.tsx`) | busy, pending, closed, retry time; latch, generation, controller | scan, check status, leave recovery | the operator, focus and app state |
| App: API client (`src/api/client.ts`) | one abort timer per request | one function per call | every screen |
| App: check-in screen (`src/screens/CheckIn.tsx`, `src/reports/AttendanceRoster.tsx`) | overlay of answers, fetched attendance, retry time, undos | check in, undo, refresh, fetch again | the operator, the focus |
| App: directory screens (`src/screens/`, `src/ui.tsx`, `src/api/hooks.ts`) | per editor: the document it came from, draft, questions, errors of each mutation | open, edit, save, archive, reload, photo, merge, generate | the operator |
| App: public forms (`src/screens/Public*.tsx`) | a draft | register (and check in), update by link | a member |
| App: sign-in (`src/auth/`, `src/screens/Login.tsx`) | stored session, older marker, cached record, the claim | sign in, sign out, restore, fetch the record, claim | the user, a restart |
| App: reports | loaded lists | read only | the operator |

`PROJECT.json` lists the same parts with what is modelled of each.

**How they interact.** Services call each other in process and the store over the
network; each such call is awaited and between two awaits any other handler runs, in this
process or another. Nothing holds a lock or a transaction across two awaits. The only
protection is the conditional write: `Replace` and `Transfer` with an ETag, `Create` where
nothing may be there. The app sees the service only through answers that may come late or
never.

**What is hard about it.** (1) Check-then-write: every service checks the directory in a
series of reads and writes afterwards. (2) Merge and purge are long sequences of writes
with no transaction: they can fail, or meet someone else, at each of them. (3) Decisions
made on a copy: an override, an undo, a restored receipt, the loser of a merge. (4) Time:
what an override may do changes as the occurrence starts and ends. (5) The timer must
serve every event although some fail. (6) On the device an uncertain answer, a turned-away
screen and a handler drawn before the last change all meet at one latch. (7) Status
questions after a code was given to someone else. (8) The app's editors hold a copy for
minutes, several mutations each with an error of its own, and calls that outlive the editor.
(9) The check-in screen adds two sources, its own answers and a list fetched at another
moment. (10) A sign-in is kept in two stores by steps a restart can fall between, and a claim
is made while drawing.

**What makes each component correct.** The store: an ETag names one version of one
document. Check-in: accepted entries are never lost, doubled or reordered; archived
things refuse new check-ins; a saved receipt stays recoverable. Merge: no check-in is
lost or counted twice, the loser ends empty and archived, no edit is undone. Directory:
two levels of groups, archived for good, subgroups archived first, purges complete and
repeatable. Occurrences: a retry overwrites nothing, history is not rewritten, the timer
catches up. Scanner: one current request, no late result shown, no carried-out check-in
forgotten while the screen stays up, never stuck. Check-in screen: what a row shows at rest is what the server has, a
failure shown is one, the buttons come back. Editors: nothing is saved over an edit the draft
was not drawn from, a draft becomes one document, a reload frees the editor, image and marker
agree. Sign-in: a restart comes back with whoever is signed in; a claim is stamped once; an
invitation that is shown gets claimed. `hazards` in `PROJECT.json` has each of these at the line where it
bites.

## 2. The modules

    Repository         what a conditional write accepts and answers (operators only)
    AttendanceLedger   abstract: what check-in promises
    CheckIns           check-in and undo handlers        implements AttendanceLedger
    CheckIns_proofs    theorems about CheckIns
    MemberMerge        merges                            EXTENDS CheckIns
    MemberMerge_proofs theorems about MemberMerge
    Directory          saves, archives and purges of one church
    Directory_proofs   theorems about Directory
    Occurrences        generation, overrides, event saves, the timer, the clock
    Occurrences_proofs theorems about Occurrences
    ScanCheckIn        the scanning screen, the network and the scan endpoints
    ScanCheckIn_proofs theorems about ScanCheckIn
    CheckInDesk        the check-in screen, its fetches, the service as single steps
    CheckInDesk_proofs theorems about CheckInDesk
    EditedDocuments    the server as the app's editors meet it, the other editors
    Editing            what all editors have in common        EXTENDS EditedDocuments
    GroupEditor, FieldEditor, UserEditor, ChurchEditor, EventEditor, SessionEditor,
    MemberEditor, DuplicateEditor, PublicForms
                       one form each                          EXTENDS Editing
    Editors            the forms together, and their properties
    Editors_proofs     theorems about Editors
    SignIn             session, stores, records, claims on one device; UserService
    SignIn_proofs      theorems about SignIn
    MC<Module>         small instances; one .cfg per run (CheckInDesk needs no MC module)

`CheckIns`, `MemberMerge` (through it), `Directory` and `Occurrences` use one instance of
`Repository`, the part of the contract of `IRepository` they all rely on.

### Common conventions

* **Every await is a step.** A handler has a program counter naming what it awaits
  next; an action performs that call and the code up to the next await. Locals are
  variables (`seen`, `taken`, `todo`); `Answer` ends the handler and forgets them.
* **A conditional write is one atomic step.** `InMemoryRepository` works under a lock;
  `CosmosRepository.Replace` first reads and then replaces with IfMatch, which decides.
  `Create` in Cosmos creates, and on a conflict reads back what is there: these are two
  steps (`CreateReceipt`, `ReadConflict`), since that read may find something else.
* **Reads are current.** A read returns what is stored at that moment. The deployed
  account's default consistency is Session (`infra/main.bicep`), under which a read in
  another session can be older; that is not modelled. A stale copy is still what most
  properties are about: every copy is stale once another handler has written.
* **Times are names.** Where only identity matters (`CheckedInAt`, audit entries) an
  instant is named by the request that read the clock; where order matters
  (`Occurrences`) there is a clock that ticks.
* **New ids are fresh** (GUIDs), except occurrences' and receipts', which are derived.
* **Request validation** that reads no state (field lengths, formats) is left out: the
  requests of a model are the ones that pass it.
* **Faults.** An operator marked `fault:` or `Fault:` is a wrong version of the definition after it,
  used by nobody; it documents what each property is able to find.

### CheckIns: `CheckInService.CheckIn` and `Undo`

| Model | Code |
|---|---|
| `receipt[<<o, m>>]`, `version` | the `Attendance` document, its ETag |
| `ReadForCheckIn`, `ReadForUndo` | the first read, which may answer at once |
| `ReadChurch`, `ReadMember`, `ReadOccurrence`, `ReadEvent` | the four directory reads in the code's order |
| `CreateReceipt`, `ReadConflict`, `RestoreReceipt`, `VoidReceipt` | the write that ends the handler |
| `status`, `groups`, `closed` and `ChangeDirectory` | the final writes of directory and event handlers |
| `arrival` (history) | what was stored when the request arrived |

The group reads for the snapshot are part of the member's read (archived groups count
too, so they decide nothing). `Get<Church>` in `CheckInsApi` only refuses a purged church
and is skipped; `Status` and `ResolveScan` only read.

**AttendanceLedger** is the abstract specification: a growing ledger of accepted entries
per slot, alternating check-ins and undos; the snapshot of the member while present; one
entry per granted request. The refinement reads the ledger off the receipt's audit, the
presence off its active flag and the granted requests off the answers
(`CheckIns!ImplementsLedger`). Merges are outside this refinement: they move a ledger
from one slot to another, which `MemberMerge!TransferKeepsRecord` states instead.

### MemberMerge: `MemberMergeService.Merge`

Extends CheckIns, so merges, check-ins, undos and member edits work on the same
documents. `Call` is what the app sends (ETags it saw, an optional update of the keeper: any
groups, and a scan code that is given, given as none, or left out, which the service tells
apart); `LoadKeeper`/`LoadLoser`, `ReleaseCode`, `SaveReadsChurch`, `SaveReadsKeeper`,
`SaveReadsGroup` and `SaveKeeper` (the directory's save, which reads every group and custom
field that the update names and refuses an archived one; both are the model's groups, archived by
`RetireGroup`, and read in any order),
`GatherKeeper`/`GatherLoser` (the two searches, occurrence by occurrence since a
search over partitions and pages is no snapshot), `DropDuplicate`/`MoveReceipt` (the loop,
in any order), `Archive*` (the directory's archive). `disturbed`, `gathered` and, in `sent`,
`takes` and `fit` are history.
The check that the two ids differ, `Preview` and field validation are left out; edits of
events and occurrences too, since no merge reads them.

### Directory: `DirectoryService.Save`, `Archive`, `Purge`

The two Cosmos containers: receipts, and everything else of the church with the church's
own document among it. A group stands for every kind a member refers to (custom fields are
read and archived alike). A search page may be empty and still carry a continuation,
which refuses the archiving of a group. `Purge` lists a container and deletes what it
listed in any order, `Passes` times for the directory container (six kinds in the code,
one in the instance: what a pass lists does not depend on the kind); a store failure ends it.

### Occurrences: `EventService`, `OccurrenceMaintenance`

What a recurrence rule expands to is the constant `Schedule`; events whose expansion throws
are `Broken`. A call generates the first missing start in the window; the timer calls it
once per active event and run. An override is judged by the clock after its groups were
read (`Judge`) and written with its ETag. Failures of the store and of the host are
bounded by `MaxFailures`. The search that starts a run is one read. Of a call that is over
only its outcome is kept. Groups have no state here: reading those that a caller names may
refuse it at any time (`GroupRefused`).

### ScanCheckIn: `ScanCheckIn.tsx`, `ScanInput`, `useScanActive`, `client.ts`, `CheckInsApi`

`ui` is React state, `drawn` the state of the last drawing, which the handlers the operator
can reach close over; refs (`latch`, `generation`, `controller`) are always current. `Draw`
brings `drawn` up to date and runs the effects of `active`: the clean-up makes calls
obsolete (`DropCalls`), the effect frees the latch (`FreeLatch`). `Scan` and `CheckStatus`
begin a call of `process`; `ResolveScan`, `CheckInMember` and `ReadStatus` are the service;
`ScanUncertain` is the time limit, a lost connection or a 5xx answer, after which the
service may still carry the scan out. Assumptions: a drawing takes less time than an
answer from the network (`Awaits` has `drawn = ui`), while the operator's events may come before
the drawing; the status endpoint's reads are one step; the camera's 2.5-second
filter for the same code is left out, so the same code may come again at once. `Turn` is the
focus or the app's state; `Remount` is the check-in screen taking the scanner away and putting
it up again (a poll of the session that fails or finds it closed, scan codes given up by the
church, another view): the clean-up drops the calls and the new screen knows nothing of what was
pending. `discharged` (history) is the set of scans that are no longer the screen's to account for:
the operator saw a confirmation of the code or chose "leave recovery for manual review", or the
code was pending on a screen that was taken away.

### CheckInDesk: `CheckIn.tsx`, `AttendanceRoster.tsx`, `client.ts` (`checkIn`, `undoCheckIn`)

| Model | Code |
|---|---|
| `overlay[m]` | the screen's `results`: receipt, error, or "Confirmation pending" |
| `known`, `loaded`, `fetch`, `copy` | the attendance query: data, whether it ever came, the fetch under way and what it has read |
| `CheckIn`, `Grant`/`Refuse`/`TooMany`, `Succeed`, `Fail` | the press, the service's answer, the mutation's callbacks |
| `GiveUp`, `ReadStatus`, `StatusFails`, `LateCheckIn` | the time limit and the status asked for once after it; a request that arrives after all |
| `Undo`, `ServeUndo`, `UndoSucceeds`, `RefuseUndo`, `LoseUndo` | a roster row's undo |
| `FetchAgain`, `Refocus`, `ShowAttendance`, `FetchFails` | the query being invalidated and refetched |
| `busy`, `RetryTimeComes` | Retry-After |
| `Reopen` | leaving for another session and coming back, the cache kept |
| `apart` (history) | the members that other desks changed or whose calls crossed: nothing is said of these |

One call of the service is one step here; `CheckIns` has them in detail. Search, sorting and the
group filter only choose which rows are drawn.

### EditedDocuments, Editing and the editors

One behaviour is about one screen (`screen`). `docs` and `images` are the server; `listed` is the
list the screen shows; `ed` is the open editor: the document it came from, the draft's value and
whether it is dirty, the questions asked, the last error of each mutation. `wire` are the calls in
flight, `awaits` which of them the editor still waits for. A call that the editor gave up
(`GiveUp`) stays on the wire and may be carried out later.

| Model | Code |
|---|---|
| `Serve*` | one endpoint each: conditional create, put, archive, purge, generate, merge; `Accepts` is what the service refuses |
| `StoreImage` and the steps after it | `MemberImageService`: the blob, then the marker, with the one retry after a conflict |
| `OthersSave`, `OthersArchive`, `TimePasses` | other editors; the start and the end of a session |
| `OpenEditor`, `Refetch`, `ErrorOf`, `Pending`, `CloseSheet` | `useForm`, TanStack Query's lists, the first of several errors, busy states, `ui.tsx` `Sheet` |
| `GroupStep`, `FieldStep`, ... `UpdateStep` | the screens: every button of `Groups.tsx`, `CustomFields.tsx`, `Users.tsx`, `Churches.tsx`, `Events.tsx`, `Members.tsx`, `MemberPhoto.tsx`, `Duplicates.tsx` and the public forms, with its guard and its callbacks |

Documents are abstracted to a version, a count of edits and the one value a property is about: a
member's scan code, "details" a public form does not ask for, whether a session is held. The
count of edits differs from the ETag only by what is no edit (the photo marker). `basis`, `draft`,
`agreed` and `refreshed` in a request are history: the edit the draft was drawn from, which draft
it is, whether the user was asked, whether the draft went on after a photo. So is `alone` in a call: no
other image call was under way when it stored its image (`Storing`).

### SignIn: `src/auth/`, `Login.tsx`, `UserService.cs`

`stored` and `legacy` are the session in the secure store and the older marker; `start` the
progress of `AuthProvider`'s effect (`Restore`, `Migrate`, `ForgetMarker`); `out` that of a logout
(`Logout`, `RemoveSession`, `RemoveMarker`). `Restart` may come between any two steps. `user`
and `calls` are the service: `ClaimReads`, `ClaimWrites` and `ClaimIsStale` are the awaits of
`UserService.Claim` with its one retry; administrators' changes are one step, since they are
judged and written by the ETag their caller has seen. `cache`, `fetch` and `claim` are
`RoleProvider`: the record by email, the fetch under way, the mutation. `Logout` and `Select`
(choosing a church, which the app does by itself for who has one only) empty the cache and drop
the fetch; a record that is not there is then fetched again in the drawing (`FetchUnknown`), once:
after a failure the query rests (`FailedFetch`) until something else asks. `astray` marks a device
whose store failed or whose sign-in with Google ended inside a logout. Left out: the plain store,
into which the app writes when the secure one fails (it is taken as empty); a logout
pressed twice; the time Google's dialog takes (its answer is there when the sign-in
begins); a claim made in the very drawing in which the account changes.

## 3. What the runs check

Passing runs (all exhaustive):

| Run | Instance | Shows |
|---|---|---|
| `check_ins` | 4 requests on one slot, 2 directory changes, symmetric requests | `ImplementsLedger`, `ETagNamesVersion`, `LateCheckInRefused`, `SavedReceiptRecoverable` |
| `merge_check_ins` | 1 merge, 2 check-ins or undos, 2 occurrences, earlier receipts present or undone; 2.6 million states | `MergedLoserEmptied`, `TransferKeepsRecord`, `HistoriesGoOn` |
| `merge_edits` | 2 merges (in either direction), 1 edit of a member or archiving of the group, one scan code, one group, three updates or none; 4.2 million states | `CodesUnique`, `UndisturbedMergeSucceeds`, `ArchivesWhatTheCallerSaw` |
| `directory` | 3 requests of any kind, 3 groups, 1 member, 1 receipt | `TwoLevels`, `LateChangeRefused`, `SubgroupsArchivedFirst`, `PurgedCompletely`, `NeverReactivated`, `TypeOK` |
| `occurrences` | the timer, 1 request, a broken event before a recurring one, clock to 2, 1 failure; 1.4 million states | `CaughtUp`, `LateGenerationRefused`, `GeneratedInOrder` |
| `overrides` | 2 requests and the timer at one occurrence, 2 windows, clock to 2; 3.0 million states | `ArchivedAreOver`, `StartedNotMoved`, `RetriesOverwriteNothing` |
| `scan_check_in` | 2 codes, 3 calls, the screen left and entered again or taken away and put up again, 1 change elsewhere; 1.4 million states | `LatchHeldByCurrent`, `ResultOfLastScan`, `CarriedOutNotForgotten`, `NoScanWhilePending`, `LatchReleased` |
| `editors` | all ten forms, 3 documents, 3 versions each, 2 calls in flight, 1 lost answer, the editors of groups, users and sessions opened twice; 2.7 million states | `CreatedOnce`, `NoLostUpdate`, `ReloadFrees`, `CodeReplacedOnPurpose`, `MarkedAsStored`, `TypeOK` |
| `desk` | 2 members, 1 undo at a time, no bound on time or calls; 1.3 million states | `HonestAtRest`, `ErrorsAreTrue`, `Unblocked` |
| `sign_in` | 2 emails (2 and 1 versions written by administrators) and the password's administrator, 1 lost claim, any number of restarts and of choices of a church; 1.5 million states | `RestartKeepsSession`, `ShownWasTrue`, `ClaimsAreFinal`, `InvitesAreClaimed` |

Runs in which TLC finds what the repository says violated (see section 6): `merge_takes_code`,
`keeper_code_lost`.

CheckIns, MemberMerge, Occurrences, ScanCheckIn, CheckInDesk and SignIn state a type invariant too
(`MergeTypeOK`, `TypeOK`); the runs of these modules check what says more. These types are proved
(`MergeTypeCorrect`, `TypeCorrect`).

**Why these bounds.** *check_ins*: slots do not interact (a handler touches its own slot
and reads the directory), so one slot with four requests has every meeting of two
check-ins and two undos, the second round of each included; two directory changes put an
archive between any two reads and let a member or an occurrence come into being first.
*merge*: a merge handles occurrences one by one; two show a merge refused halfway, and
one keeper and one loser are all a merge sees. An update names the one group
or not, and gives the code, gives none or leaves it out (three of the six combinations, `MCUpdates`); the group is archived before the call, between it and the save's read, or not at all. A second merge is the only other actor
that changes both members. *directory*: a third level of groups takes three groups; an
archive, a save and a purge meet with three requests. *occurrences*: a broken event
ordered before a healthy one with two starts shows both that the failure is passed over and
that a second run is needed. *overrides*: the clock goes from before the start of an
occurrence past its end, and a window can end later than the occurrence it replaces. *scan_check_in*:
an interrupted call, the recovery of it and a scan of another code are three calls;
leaving and coming back are two turns, and so is a screen taken away and put up again. Counters (`MaxEdits`, `MaxTime`, `MaxFailures`,
`MaxCalls`, `MaxTurns`, `MaxChanges`, `MaxETag`, `MaxDrafts`, `MaxLosses`) are bounds in the
guards. *editors*: an editor works on one document (two in a merge), so that the third is the
one a draft creates; three versions are what the editor opened, what another editor saved
and what is saved over it; the second call is one given up by an earlier editor. *desk*: rows
meet only in the one attendance list and the one call at a time, which two members show.
*sign_in*: switching accounts takes two; a claim that is read twice needs a change between its
reads, which one of the emails allows. `CHECK_DEADLOCK FALSE` is
set where an instance ends when its bounded requests are over.

**Fairness.** Four runs assume any. `occurrences`: `WF(RunTimer)`, the host calls the timer
again and again and runs what it calls. The timer is disabled by default
(`src/README.md`, "Behavior And Limits"), so `CaughtUp` speaks of a host that enables it.
`scan_check_in`: `WF(Draw)`, React draws changed state, and `WF(Settle(p))`, a request ends
since `client.ts:42` aborts it after 15 seconds. Nothing is assumed of the operator or of
the service. `desk`: `WF(Attendance)` and `WF(Ends)`, a fetch and a call end (the same time limit),
and `WF(RetryTimeComes)`, a timer fires; `Unblocked` excepts an operator who leaves the screen again and
again. `sign_in`: `WF(ClaimInvite)`, the provider is drawn again after every change of its
mutation and claims in the drawing (`RoleContext.tsx:49`); `WF(FetchUnknown)` and
`WF(FetchEnds)`, a record that is not in the cache is fetched in the drawing and a fetch ends, be it
with a failure; `WF(Serve("own"))` and `WF(ClaimAnswered)`, a claim that is not lost is carried out and
answered. Nothing makes a fetch succeed or asks again after a failure. `InvitesAreClaimed` therefore
takes for settled an account whose record could not be fetched (`Settled`: the screen then shows
no invitation), and speaks of behaviours in which the user comes to an end of choosing churches:
each choice empties the cache and may come before the record is back. All
other runs are safety only.

## 4. What is proved

`CheckIns_proofs` proves for any number of requests, members, occurrences, events, groups
and directory changes:

| Theorem | States |
|---|---|
| `TypeCorrect` | `Spec => []TypeOK` |
| `ETagsNameVersions` | `Spec => []ETagNamesVersion` |
| `LateCheckInsRefused` | `Spec => []LateCheckInRefused` |
| `SavedReceiptsRecoverable` | `Spec => []SavedReceiptRecoverable` |
| `CheckInsImplementLedger` | `Spec => ImplementsLedger` |

Assumptions, all on constants and evaluated by TLC in every run of the module:
`CallersType` (requests are callers), `EventOfType`, `MaxEditsType`, `NoReceiptType`
(`NoReceipt` is no document).

The argument:

1. `TypeInv` = `TypeOK` and *an undo that is about to write holds the receipt it read*.
   Without the second conjunct the document `Voided(r)` it writes would have no type.
2. `VersionInv` adds that a stored receipt's ETag was given out (`StoredVersions`), what a
   handler holds between its first read and its answer (`HandlersHold`: an undo holds an active
   receipt, a check-in an undone one), and `ETagNamesVersion`. Every write uses the slot's next
   ETag and ends its handler, so any other handler's copy has an older one (`StepShape`).
3. `LateInv` adds that a check-in that arrived too late still has an archived document
   ahead of it (`Ahead`, `LateBlocked`): archiving is final and each document is read after
   the arrival.
4. `RecoverInv` adds `SinceArrival`: a check-in goes past its first read only if that read
   found the member absent, and then the stored receipt is a later version than the one
   there at arrival, so the premise of the property no longer holds.
5. The refinement: initial states map to initial states, and under `VersionInv` every step
   maps to `Attend`, `Leave` or a stutter (`LedgerInit`, `LedgerStep`). `HandlersHold` and
   `ETagNamesVersion` make the two entries alternate: a write is accepted only
   if the handler's copy is what is stored.

`MemberMerge_proofs` proves for any number of merges, requests, members, codes and
occurrences, and any bound on directory changes:

| Theorem | States |
|---|---|
| `MergeTypeCorrect` | `MergeSpec => []MergeTypeOK` |
| `CodesStayUnique` | `MergeSpec => []CodesUnique` |
| `ArchivedAsSeen` | `MergeSpec => ArchivesWhatTheCallerSaw` |
| `LosersAreEmptied` | `MergeSpec => []MergedLoserEmptied` |
| `RecordsAreKept` | `MergeSpec => TransferKeepsRecord` |
| `HistoriesAreKept` | `MergeSpec => HistoriesGoOn` |
| `UndisturbedMergesSucceed` | `MergeSpec => []UndisturbedMergeSucceeds` |

Assumptions on constants: those of CheckIns, `MergesType` (merges are callers), `UpdatesType`
(updates are updates), `MembersType`
(members are finitely many and none is the church) and `NoneType` (`None` is no document and no
call, `NoReceipt` no member's document). The argument:

1. `MergeTypeInv` = the types and what a merge holds at each step (`Fits`): its call, both members
   once they are loaded, an active receipt of the loser for each one still to be moved.
2. Whoever steps, a member's document and a receipt either stay, or get the next ETag, or (a
   receipt) go away (`MemberMoves`, `SlotMoves`, `DataMoves`). Hence a copy whose ETag is still the
   stored one is what is stored, and stays so or grows old (`CopiesStayFresh`, `ReceiptsStayFresh`).
3. `CopyInv` says this of the member a merge is about to write. So a member write of a merge is
   one of three changes of the stored documents (`MemberWrites`): the loser's code goes (`Frees`), the
   keeper is rewritten (`Rewrites`), the loser is archived in the version the caller saw (`Archives`).
   `CodesUnique` and `ArchivesWhatTheCallerSaw` follow.
4. `EmptyInv`: a receipt of the loser that was there when the merge looked (`Old`) is still to be
   gathered or handled while the merge runs and there is none left once it is past that. What is written
   later has a later ETag (`NoneGrowsOld`), and an archived member is never active again
   (`StaysArchived`).
5. `GatheredInv` is 2 for the receipts a merge has gathered. A transfer therefore moves the stored
   receipt into a place that is empty or holds an undone one (`WritesAreMoves`), and exchanging one
   present member for an absent one keeps the headcount (`SameHeadcount`).
6. `QuietInv`: a merge that nothing stored spoke against when it was called and beside which nobody
   has written (`Quiet`) finds what its caller and it itself saw: the church and both members
   active, the ETags of the call (the keeper's until it is saved), the update's groups active and its
   code free for the keeper (`UpdateFits`), and in each gathered receipt the stored one. So every
   refusal on its way is excluded: no group the save reads is archived, the keeper meets no code
   conflict with the update's code, nor with its own by `CodesUnique`, and no write meets another version.
7. `RequestInv` adds to 5 the copies of check-ins and undos: beside merges, too, what a handler holds is
   what is stored as long as its ETag is. Who writes a receipt therefore goes on from the stored one
   (`HandlerWrites`, `DropsStored`, `MovesStored`), and the histories go on (`HistoriesStep`).

`Directory_proofs` proves for any number of requests, groups, members and receipts, and of passes
of a purge:

| Theorem | States |
|---|---|
| `TypeCorrect` | `Spec => []TypeOK` |
| `ArchivedStays` | `Spec => NeverReactivated` |
| `LateIsRefused` | `Spec => []LateChangeRefused` |
| `LevelsAreTwo` | `Spec => []TwoLevels` |
| `SubgroupsFirst` | `Spec => []SubgroupsArchivedFirst` |
| `NothingIsLeft` | `Spec => []PurgedCompletely` |

Assumptions on constants: `PassesType`, `ChurchApart`, `NoneApart` (ids of the kinds are not
confused) and `NoDocumentType`. The argument:

1. `StepsHold` says which calls reach which step and what they hold there; with it types are
   inductive (`TypeInv`).
2. `FreshIds`: the id of a create under way is nobody else's and has no document. So a step does
   one of four things to a document (`DocStep`): nothing, removal, a revision with the next ETag and
   the same parent, or, for a create's own id, its birth.
3. `SeenAsStored`: an update past its checks whose ETag is still the stored one found that version
   active. A revision that activates is therefore one of an active document (`StayArchived`).
4. `LateInv`: a church that is archived or gone stays so, since no create has its id, and a later
   request gets no further than the read that finds it so.
5. `ParentInv`: nobody names a parent that is still to be written (`KnownParents`), and what a
   create has found of its parent stays true until it writes (`CheckedParents`).
6. `OldIds`: what was there on arrival is not born again. What an archive's search did not find
   active (`SubgroupInv`) and what a purge has gone over (`PurgeInv`) hence stays inactive, or gone.
   `PurgeInv` shows that the receipts' pass and one pass over the directory container suffice; the
   code's further passes (one per kind) add nothing to it.

`Occurrences_proofs` proves for any schedule, any number of requests and any bound on time and
failures, of `Safety` (`Spec` without its fairness, hence of `Spec` too):

| Theorem | States |
|---|---|
| `TypeCorrect` | `Safety => []TypeOK` |
| `RetriesKeep` | `Safety => RetriesOverwriteNothing` |
| `ArchivedIsOver` | `Safety => []ArchivedAreOver` |
| `HistoryStays` | `Safety => StartedNotMoved` |
| `LateGeneration` | `Safety => LateGenerationRefused` |
| `InOrder` | `Safety => GeneratedInOrder` |

Assumptions on constants: `ScheduleType`, `TimesType`, `DurationPositive`, `ChurchApart`,
`WindowsType` and `NoDocumentType`. The argument:

1. The first missing start that `CHOOSE` names exists and is least (`FirstIsLeast`, since `<` is
   well-founded on the naturals). `TypeInv` = `TypeOK` and what a handler holds at each step
   (`StepsHold`).
2. A step is that of one handler, which begins, goes on or ends, or leaves all handlers alone
   (`NextSteps`); an occurrence is born, overridden by a caller with its next ETag, or stays
   (`OccSteps`). `RetriesKeep` follows.
3. `OverInv`: whatever an override that has passed its check will write is archived only if its
   end has come, and the clock does not go back.
4. `VersionInv`: a copy whose ETag is still the stored one is the stored document. `MoveInv`: what
   was permitted as a move or a cancellation starts, before and after it, later than the arrival.
5. `ShutInv`: an event or church that is archived stays so, and a generation that came after
   gets no further than the read that finds it so.
6. `OrderInv`: every start that is due is there, is still to be looked at, or lies behind all that
   are; the last are those that have come due meanwhile (`DueSteps`).

`ScanCheckIn_proofs` proves for any number of calls, codes, members, turns and changes:

| Theorem | States |
|---|---|
| `TypeCorrect` | `Spec => []TypeOK` |
| `LatchIsHeld` | `Spec => []LatchHeldByCurrent` |
| `ResultIsLast` | `Spec => []ResultOfLastScan` |
| `CarriedOutIsKnown` | `Spec => []CarriedOutNotForgotten` |
| `UncertainFirst` | `Spec => NoScanWhilePending` |

Assumptions on constants: `CardsType`, `CodesType` and `BoundsType`. Every step has one of nine
shapes (`NextSteps`): a call begins, is served or ends, the screen goes away, gives up, leaves the
recovery, is drawn, is taken away, or stays as it is. `LatchInv` adds to `LatchHeldByCurrent` that a drawing that is
not active holds no latch. `ScreenInv` adds what a drawing that lags behind can still show:
the current call is of the last code (`CurrentIsLast`), a drawing without a pending code lags only
while a call is current (`DrawnPending`), and a scan that may have been carried out and nobody was
told of is the pending one while its screen stays up (`OwedIsPending`). The last two are why a scan
handler drawn too early does no harm. A screen that is taken away owes nothing (`Remounts`), and what
it had pending is `discharged`: both theorems speak of what one screen, while it is up, keeps.

`CheckInDesk_proofs` proves for any number of members and of undos under way:

| Theorem | States |
|---|---|
| `TypeCorrect` | `Spec => []TypeOK` |
| `ScreenIsHonest` | `Spec => []HonestAtRest` |
| `FailuresAreTrue` | `Spec => []ErrorsAreTrue` |

The only assumption is `NobodyIsNoMember`. `HonestAtRest` speaks of moments at rest only, so the
inductive invariant `IInv` says what may be under way wherever screen and server differ. Each
member is `apart` or `Sound`: a receipt shown is stored or has an undo on its way back
(`ReceiptKnown`), a granted call's member is present and a refused one's is not (`GrantedIsPresent`,
`RefusedIsAbsent`), and what was fetched, or has been read to be shown, differs from the
server only where an undo, a check-in or a notice accounts for it (`ListsAccurate`). Every
answer drops the fetch that may have read too early (`FetchAgainIsAccurate`), and a member once
`apart` stays so (`ApartGrows`).

`SignIn_proofs` proves for any number of emails, of versions and of lost claims:

| Theorem | States |
|---|---|
| `RestartsKeepSessions` | `Spec => []RestartKeepsSession` |
| `ClaimsAreFinalAlways` | `Spec => ClaimsAreFinal` |
| `WhatIsShownWasTrue` | `Spec => []ShownWasTrue` |
| `TypeCorrect` | `Spec => []TypeOK` |

It assumes `AccountsApart` and `BoundsAreNumbers`. The invariant for the session (`LoginInv`) says who is signed
in and what is stored at each step of the start and of a logout (`LoginOrder`, `StoreFollows`). For
claims (`ClaimInv`) it says that as long as the version a claim read is the current one, the user is
what the claim saw, invited and not archived (`ClaimsSawInvited`): every change takes the next
version, so a claim that may still write has nothing to overwrite (`ChangeKeepsClaimInv`,
`ReadKeepsClaimInv`, `WriteKeepsClaimInv`, `StaleKeepsClaimInv`). Hence what was once true of a
record stays true (`UsersGrow`), and with it what the app was told: `RecordInv` says of a fetch that
it is for whoever is signed in, `OwnClaimInv` that the call the app waits for is that of its pending
claim, and that it is answered as claimed only once the record is stamped.

`Editors_proofs` proves for any documents, screens and scan codes, and any bounds on versions,
drafts, lost answers and calls in flight:

| Theorem | States |
|---|---|
| `TypeCorrect` | `Spec => []TypeOK` |
| `EditsAreSeen` | `Spec => NoLostUpdate` |
| `CodesReplacedOnPurpose` | `Spec => CodeReplacedOnPurpose` |
| `ReloadsFree` | `Spec => ReloadFrees` |
| `PhotosAreMarked` | `Spec => MarkedAsStored` |
| `DraftsAreCreatedOnce` | `Spec => []CreatedOnce` |

Assumptions on constants: `IdsAreNumbers`, `NothingIsNothing`, `KnownScreens`, `Bounds` and
`NothingIsNoRecord`. The argument:

1. Every step of every screen has one of seven shapes (`ScreenSteps`): the editor is opened, altered
   or left, a mutation sends its call, goes on to a second one, takes its answer, or ends without
   one. What follows is proved for the shapes and for the server's steps, not screen by screen.
2. `Known`: a copy of a document, in the list, the editor or an answer, is never newer than the stored
   one, and with the same version it is the stored one. On every screen but the members' a
   version is an edit; a member's also counts photos, so that `SentOver` says of a member's save
   what it is over only while its version is the stored one. `EditsAreSeen` and
   `CodesReplacedOnPurpose` follow: a save is carried out only with the stored version.
3. `AwaitsOK` and `WaitsOK`: an awaited call is of its mutation, no two mutations await the same
   call, and a mutation under way has no error. A reload that forgets the errors of the
   save and the archive thus leaves none that could come from a call begun before (`ReloadsFree`).
4. `ImagesOK`: between its blob and its marker an image call that met no other keeps blob and
   request in agreement, and no other begins: the editor's buttons are busy, and what earlier
   editors left behind would have been met.
5. `OnceInv`, inductive beside the others: of each draft the creates under way, the documents made
   of it, and an editor that may send it (it awaits no save and shows no uncertain one, or is
   about to learn of a failure) exclude each other. A lost answer breaks this except where the
   editor locks itself (groups, members); users are found by their email.

## 5. Only model-checked, and not modelled

Model-checked on the instances above, not proved: liveness (`CaughtUp`, `LatchReleased`,
`Unblocked`, `InvitesAreClaimed`), which is beyond the proof system. Nothing stays with TLC for the
sake of recursion: no module has a recursive operator.

Not modelled: reports, role filters and generated code (no state of their own), HTTP parsing and
formatting, Google's dialog, deployment templates, stale reads of another
session, the store's own paging beyond what merges and archives meet, validation of field
values, CSV import and export (a sequential loop of saves, each of which `Directory` has; the rest is
parsing), the creation of the image container, the scan-code lookup documents (they follow the
member in one batch).

Some things the models show that no document contradicts, so that no run states them:

* A merge that moves a check-in onto the keeper's undone receipt ends that receipt's history: the moved
  one brings its own (`MemberMergeService.cs:75-76`). `HistoriesGoOn` excepts it. `Plans/20260920-plan-cr1.md:25`
  wants an immutable audit model, but for check-ins and undos, and says nothing of merges.
* Two merges in opposite directions can archive both members (`merge_edits`).
* A status asked for a code that was given to another member since reports that member's receipt
  (`src/README.md` tells the operator to review attendance instead).
* Two image calls of one member can overlap, when the first was given up: of an upload and a removal
  each may come first at the blob and last at the marker, and the marker then says the
  opposite of what is stored (on the members screen with `MaxETag = 4`; three versions do not
  suffice). `MarkedAsStored` speaks of calls that met no other (`alone`).
* A registration whose check-in fails is sent as a whole again and makes a second member;
  `CreatedOnce` excepts it.
* On the check-in screen, answers kept in the overlay survive Refresh, so that a member another
  desk has undone is still shown as checked in; `HonestAtRest` excepts members that others changed.
* A merge whose update names an archived group or custom field is refused by the keeper's save,
  though nobody writes beside it. The duplicates screen sends the keeper's own groups with any field
  picked (`Duplicates.tsx:270-273`), so a keeper that still names an archived group cannot be merged
  that way until its groups are edited. `UndisturbedMergeSucceeds` speaks of updates that fit.
* A scanning screen that is taken away (a poll of the session that fails, `CheckIn.tsx:99`, `131`; a
  session no longer valid, `150`; scan codes switched off, `276-278`) aborts its call and loses
  `pending`: a scan that was carried out is then known to nobody, and the next screen scans at once.
  `CarriedOutNotForgotten` and `NoScanWhilePending` speak of a screen while it is up.
* A logout that is stopped between its two removals while the older marker is still there comes back
  signed in as the administrator; `RestartKeepsSession` speaks of an app at rest.
* A lost claim, a church chosen beside it and a fetch that then fails leave an invitation open with no
  further try until something else fetches the record; `InvitesAreClaimed` takes that for settled.
* A code that is scanned is resolved to a member and then checked in: the receipt is that of whoever
  had the code when it was resolved (`CheckInsApi.cs:55-56`).
* A sign-in with Google that ends inside a logout leaves the device showing one account and storing
  another or none; `RestartKeepsSession` excepts it (`astray`).

## 6. Where the code and what is said of it differ

Runs of `PROJECT.json`, whose `findings` quote the lines:

* `merge_takes_code`: releasing the loser's scan code changes the loser's ETag, with which the
  merge then tries to archive it: a merge that takes the code always ends in 412, after everything
  else was done (`CodeTakingMergeSucceeds`).
* `keeper_code_lost`: the duplicates screen builds the keeper's update from the redacted list, so
  that a merge with any field picked takes the keeper's own scan code away (`KeeperKeepsCode`).

Further counterexamples, each found by TLC with the configuration named:

| Configuration (module) | Violated | Why |
|---|---|---|
| `MCPurgeRetry.cfg` (`MCDirectory`) | `PurgeCanBeRepeated` | in Cosmos the church's own document goes in the first directory pass; if that pass fails, the retry answers 404 (`DirectoryService.cs:188-193`), though `openapi.json:35` says "Safe to retry after a failure" |
| `MCCheckInsPresent.cfg` (`MCCheckIns`) | `SuccessMeansPresent` | a check-in that loses the race to create the receipt answers 200 with what it reads back, which may have been undone in between |
| `MCCheckInsStale.cfg` (`MCCheckIns`) | `CheckInNeverStale` | of two check-ins that restore one undone receipt the second is answered 412, though check-in is said to be idempotent |
| `MCMergeUndoRace.cfg` (`MCMemberMerge`) | `MergeDropsOnlyDuplicates` | the loser's receipt is dropped as a duplicate of a keeper's receipt that has been undone meanwhile |
| `MCPhotoLostUpdate.cfg` (`MCEditors`) | `NeverLosesAnUpdate` | after a photo the draft goes on over the version fetched then (`MemberPhoto.tsx:70-78`): another editor's edit is overwritten without a conflict |
| `MCReloadStuck.cfg` (`MCEditors`) | `ReloadAlwaysFrees` | the reload of a session or a church forgets some of the errors it is shown for and leaves the editor stale (`Events.tsx:686-698` and `763-765`) |
| `MCCancelNotSent.cfg` (`MCEditors`) | `ConfirmedIsCancelled` | a confirmed cancellation of a session that has started by then is sent without the cancellation and answered as saved (`Events.tsx:643`, `808-823`) |
| `MCUpdateDetails.cfg` (`MCEditors`) | `UpdateKeepsDetails` | the public update sends empty custom fields and no phone or email (`domain.ts:187-202`), and the save replaces the whole member |
| `MCEveryInviteIsClaimed.cfg` (`MCSignIn`) | `EveryInviteIsClaimed` | an app whose claim succeeded for one account makes none for the next (`RoleContext.tsx:49`, the mutation's `isSuccess` outlives the account), though the comment there says "claim the invite the first time we see a still-invited record" |
| `MCClaimsEnd.cfg` (`MCSignIn`) | `ClaimsEnd` | the record of an archived user still says "invited": the claim is refused with 409 and made again in the next drawing, for ever |

## 7. Plan

Done: Repository, AttendanceLedger, CheckIns, MemberMerge, Directory, Occurrences, ScanCheckIn; then
the app's editors with EditedDocuments, CheckInDesk, SignIn; the proofs of all of them.

Next, in this order:

1. **Composition**: the duplicates screen's calls over MemberMerge instead of the one-step server of
   EditedDocuments; CheckInDesk beside ScanCheckIn on one session.
2. **Image container and scan-code lookups**: the container's first use by two calls;
   `ResolveScanCode`'s two reads.
3. **CSV import**: the table of names of one import beside other editors.

------------------------------- MODULE SignIn -------------------------------
(***************************************************************************)
(* Who is signed in on a device, what the app knows of that account, and   *)
(* the invitations that are claimed by signing in.                         *)
(*                                                                         *)
(* An account is the password's one administrator, who has no record, or   *)
(* an email known to Google, with a record that administrators keep.  The  *)
(* device keeps the session in its secure store, and once kept it under an *)
(* older marker.  What fails in the secure store is done in a plain one,   *)
(* which is empty and not looked at as long as the secure one works.  The  *)
(* app may be stopped between any two steps.  Saving a session and showing *)
(* it are one step, and Google has answered when a sign-in begins.         *)
(***************************************************************************)
EXTENDS Naturals

CONSTANTS
    Emails,         \* invited or not
    Admin,          \* the account behind the password
    Nobody,         \* no account
    MaxEdits,       \* of each email: bound on the versions administrators write
    MaxLosses       \* bound on the claims without an answer

ASSUME AccountsApart == Admin \notin Emails /\ Nobody \notin Emails /\ Admin # Nobody
ASSUME BoundsAreNumbers == MaxEdits \in [Emails -> Nat] /\ MaxLosses \in Nat

VARIABLES
    user,                   \* of each email: its record
    calls,                  \* the claims the service works on
    stored, legacy,         \* the stored session, and the older marker
    start,                  \* how far the app is with restoring the session
    session, out,           \* who is signed in, how far the logout under way is
    google, accepted,       \* a sign-in with Google under way, its user was found
    astray,                 \* the store failed, or a sign-in ended inside a logout
    cache, fetch,           \* the records the app has, the fetch under way
    claim,                  \* the app's claim
    losses                  \* how many claims had no answer

service == <<user, calls>>
stores == <<stored, legacy>>
login == <<start, session, out, google, accepted, astray>>
role == <<cache, fetch, claim>>
vars == <<service, stores, login, role, losses>>

Accounts == Emails \cup {Admin, Nobody}

(* ClaimedOn is named by the version the claim wrote; a user is invited    *)
(* while it is 0.  Version 0 is no user.                                   *)
Users == [active : BOOLEAN, etag : Nat, claimed : Nat]
NoUser == [active |-> FALSE, etag |-> 0, claimed |-> 0]

Invited(u) == u.etag # 0 /\ u.claimed = 0

(* The app's own claim, and one of another device or given up by the app.  *)
Claims == {"own", "other"}
Calls ==
    [email : Emails \cup {Nobody},
     phase : {"none", "sent", "first", "again", "second", "claimed", "refused"},
     seen : Nat]
NoCall == [email |-> Nobody, phase |-> "none", seen |-> 0]
Call(e) == [email |-> e, phase |-> "sent", seen |-> 0]

(* What RoleProvider tells apart: it looks at the status of a record only. *)
Statuses == {"unknown", "missing", "invited", "active"}
StatusOf(u) == IF u.etag = 0 THEN "missing" ELSE IF Invited(u) THEN "invited" ELSE "active"

NoFetch == [phase |-> "none", status |-> "unknown"]
FailedFetch == [phase |-> "failed", status |-> "unknown"]
NoClaim == [phase |-> "idle", email |-> Nobody]
FailedClaim == [phase |-> "error", email |-> Nobody]
-----------------------------------------------------------------------------
(* Administrators.  A change is judged and written by the version that its *)
(* caller has seen, so that reading and writing are one step.              *)

Create(e) ==
    /\ user[e].etag = 0 /\ MaxEdits[e] > 0
    /\ user' = [user EXCEPT ![e] = [active |-> TRUE, etag |-> 1, claimed |-> 0]]
    /\ UNCHANGED <<calls, stores, login, role, losses>>

Change(e, active) ==
    /\ user[e].etag \in 1..MaxEdits[e] - 1
    /\ user' = [user EXCEPT ![e].active = active, ![e].etag = @ + 1]
    /\ UNCHANGED <<calls, stores, login, role, losses>>

Replace(e) == user[e].active /\ Change(e, TRUE)

Archive(e) == Change(e, FALSE)
-----------------------------------------------------------------------------
(* UserService.Claim: the record is read and written with the version that *)
(* was read, and once more from the start when that one is out of date.    *)

(* Nobody waits for the answer of another claim than the app's.            *)
Ended(c, phase) ==
    IF c = "own" THEN [email |-> calls[c].email, phase |-> phase, seen |-> 0] ELSE NoCall

Answer(c, phase) == calls' = [calls EXCEPT ![c] = Ended(c, phase)]

Stamped(u) == [active |-> u.active, etag |-> u.etag + 1, claimed |-> u.etag + 1]

OfCall(c, phases) == calls[c].phase \in phases

ClaimReads(c) ==
    /\ OfCall(c, {"sent", "again"})
    /\ LET u == user[calls[c].email]
       IN  IF ~u.active THEN Answer(c, "refused")
           ELSE IF u.claimed # 0 THEN Answer(c, "claimed")
           ELSE calls' = [calls EXCEPT
                    ![c].phase = IF @ = "sent" THEN "first" ELSE "second", ![c].seen = u.etag]
    /\ UNCHANGED <<user, stores, login, role, losses>>

ClaimWrites(c) ==
    /\ OfCall(c, {"first", "second"})
    /\ LET e == calls[c].email
       IN  /\ user[e].etag = calls[c].seen
           /\ user' = [user EXCEPT ![e] = Stamped(@)]
    /\ Answer(c, "claimed")
    /\ UNCHANGED <<stores, login, role, losses>>

(* Fault: the second attempt takes the new version and nothing else.      *)
ClaimOverwrites(c) ==
    /\ OfCall(c, {"first", "second"})
    /\ LET u == user[calls[c].email]
       IN  /\ u.etag # calls[c].seen
           /\ IF OfCall(c, {"first"})
              THEN calls' = [calls EXCEPT ![c].phase = "second", ![c].seen = u.etag]
              ELSE Answer(c, "refused")
    /\ UNCHANGED <<user, stores, login, role, losses>>

(* Fault: whoever wrote in between is taken to have claimed it.            *)
ClaimSettled(c) ==
    /\ OfCall(c, {"first", "second"})
    /\ user[calls[c].email].etag # calls[c].seen
    /\ Answer(c, "claimed")
    /\ UNCHANGED <<user, stores, login, role, losses>>

ClaimIsStale(c) ==
    /\ OfCall(c, {"first", "second"})
    /\ user[calls[c].email].etag # calls[c].seen
    /\ IF OfCall(c, {"first"}) THEN calls' = [calls EXCEPT ![c].phase = "again", ![c].seen = 0]
       ELSE Answer(c, "refused")
    /\ UNCHANGED <<user, stores, login, role, losses>>

Serve(c) == ClaimReads(c) \/ ClaimWrites(c) \/ ClaimIsStale(c)

(* The app waits for its claim no longer; the service goes on with it.     *)
LeaveClaim ==
    calls' = [calls EXCEPT !["own"] = NoCall,
        !["other"] = IF @ = NoCall /\ OfCall("own", {"sent", "first", "again", "second"})
                     THEN calls["own"] ELSE @]

OtherDevice(e) ==
    /\ calls["other"] = NoCall /\ Invited(user[e])
    /\ calls' = [calls EXCEPT !["other"] = Call(e)]
    /\ UNCHANGED <<user, stores, login, role, losses>>
-----------------------------------------------------------------------------
(* storage.set and storage.remove: in the secure store, or in the other.   *)

Save(account) ==
    \/ stored' = account /\ astray' = FALSE
    \/ astray' = TRUE /\ UNCHANGED stored

(* Whoever is signed in changes: the fetch for the other one is dropped.   *)
Enter(account) == session' = account /\ fetch' = NoFetch

(* Restoring the session, from the older marker when there is no other.    *)
Restore ==
    /\ start = "read"
    /\ IF stored # Nobody
       THEN start' = "done" /\ Enter(stored)
       ELSE start' = (IF legacy THEN "migrate" ELSE "done") /\ UNCHANGED <<session, fetch>>
    /\ UNCHANGED <<service, stores, out, google, accepted, astray, cache, claim, losses>>

(* The secure store fails and the plain one has nothing.                   *)
MissSession ==
    /\ start = "read" /\ legacy
    /\ start' = "migrate" /\ astray' = TRUE
    /\ UNCHANGED <<service, stores, session, out, google, accepted, role, losses>>

(* Whatever fails on the way, the app starts with nobody signed in.        *)
RestoreFails ==
    /\ start # "done"
    /\ start' = "done" /\ astray' = TRUE
    /\ UNCHANGED <<service, stores, session, out, google, accepted, role, losses>>

Migrate ==
    /\ start = "migrate"
    /\ start' = "forget" /\ Save(Admin)
    /\ UNCHANGED <<service, legacy, session, out, google, accepted, role, losses>>

ForgetMarker ==
    /\ start = "forget"
    /\ legacy' = FALSE
    /\ start' = "done" /\ Enter(Admin)
    /\ UNCHANGED <<service, stored, out, google, accepted, astray, cache, claim, losses>>

Restart ==
    /\ start' = "read" /\ Enter(Nobody)
    /\ out' = "idle" /\ google' = Nobody /\ accepted' = FALSE
    /\ cache' = [e \in Emails |-> "unknown"] /\ claim' = NoClaim
    /\ astray' = FALSE
    /\ LeaveClaim
    /\ UNCHANGED <<user, stores, losses>>
-----------------------------------------------------------------------------
(* Signing in, from the screen that is there when nobody is signed in.     *)

LoginScreen == start = "done" /\ session = Nobody

Login ==
    /\ LoginScreen
    /\ Save(Admin) /\ Enter(Admin)
    /\ UNCHANGED <<service, legacy, start, out, google, accepted, cache, claim, losses>>

ChooseGoogle(e) ==
    /\ LoginScreen /\ google = Nobody
    /\ google' = e
    /\ UNCHANGED <<service, stores, start, session, out, accepted, astray, role, losses>>

(* Who has no active record is turned away, and whoever the lookup fails   *)
(* for.                                                                    *)
LookUp ==
    /\ google # Nobody /\ ~accepted
    /\ \/ user[google].active /\ accepted' = TRUE /\ UNCHANGED google
       \/ google' = Nobody /\ UNCHANGED accepted
    /\ UNCHANGED <<service, stores, start, session, out, astray, role, losses>>

(* By then someone may have signed in with the password.                   *)
CompleteGoogleSignIn ==
    /\ accepted
    /\ IF out = "marker" THEN stored' = google /\ astray' = TRUE ELSE Save(google)
    /\ Enter(google)
    /\ google' = Nobody /\ accepted' = FALSE
    /\ UNCHANGED <<service, legacy, start, out, cache, claim, losses>>

(* handleLogout: the cache is emptied, then both stored sessions go.       *)
Logout ==
    /\ start = "done" /\ session # Nobody /\ out = "idle"
    /\ out' = "session"
    /\ cache' = [e \in Emails |-> "unknown"] /\ fetch' = NoFetch
    /\ UNCHANGED <<service, stores, start, session, google, accepted, astray, claim, losses>>

(* select, by itself for who has one church only, and the ways back from a *)
(* church: the cache is emptied while the account stays signed in.         *)
Select ==
    /\ start = "done" /\ session # Nobody
    /\ cache' = [e \in Emails |-> "unknown"] /\ fetch' = NoFetch
    /\ UNCHANGED <<service, stores, login, claim, losses>>

RemoveSession ==
    /\ out = "session"
    /\ out' = "marker" /\ Save(Nobody)
    /\ UNCHANGED <<service, legacy, start, session, google, accepted, role, losses>>

(* Fault: the older marker stays.                                         *)
KeepMarker ==
    /\ out = "marker"
    /\ out' = "idle" /\ Enter(Nobody)
    /\ UNCHANGED <<service, stores, start, google, accepted, astray, cache, claim, losses>>

RemoveMarker ==
    /\ out = "marker"
    /\ legacy' = FALSE
    /\ out' = "idle" /\ Enter(Nobody)
    /\ UNCHANGED <<service, stored, start, google, accepted, astray, cache, claim, losses>>

(* When neither store can remove it, the session is over all the same.     *)
RemoveFails ==
    /\ out \in {"session", "marker"}
    /\ out' = "idle" /\ Enter(Nobody) /\ astray' = TRUE
    /\ UNCHANGED <<service, stores, start, google, accepted, cache, claim, losses>>
-----------------------------------------------------------------------------
(* RoleProvider: the record of the account, and its claim.                 *)

NeedsRecord == start = "done" /\ session \in Emails

(* At first, when the record is stale and looked at again, when it is      *)
(* invalidated: at any time.                                               *)
FetchRecord ==
    /\ NeedsRecord /\ fetch.phase \in {"none", "failed"}
    /\ fetch' = [fetch EXCEPT !.phase = "sent"]
    /\ UNCHANGED <<service, stores, login, cache, claim, losses>>

ReadRecord ==
    /\ fetch.phase = "sent"
    /\ fetch' = [phase |-> "read", status |-> StatusOf(user[session])]
    /\ UNCHANGED <<service, stores, login, cache, claim, losses>>

ShowRecord ==
    /\ fetch.phase = "read"
    /\ cache' = [cache EXCEPT ![session] = fetch.status]
    /\ fetch' = NoFetch
    /\ UNCHANGED <<service, stores, login, claim, losses>>

(* The app keeps the record it has; it does not ask again by itself.       *)
FetchFails ==
    /\ fetch.phase \in {"sent", "read"}
    /\ fetch' = IF cache[session] = "unknown" THEN FailedFetch ELSE NoFetch
    /\ UNCHANGED <<service, stores, login, cache, claim, losses>>

FetchEnds == ReadRecord \/ ShowRecord \/ FetchFails

(* The provider is drawn when an account is entered or a claim answered,   *)
(* and fetches the record that is not there.                               *)
FetchUnknown ==
    /\ session \in Emails /\ cache[session] = "unknown"
    /\ fetch = NoFetch /\ claim.phase # "pending"
    /\ FetchRecord

ShowsInvited(e) == cache[e] = "invited"

BeginClaim ==
    /\ NeedsRecord /\ ShowsInvited(session)
    /\ claim' = [phase |-> "pending", email |-> session]
    /\ calls' = [calls EXCEPT !["own"] = Call(session)]
    /\ UNCHANGED <<user, stores, login, cache, fetch, losses>>

(* Fault: a claim that failed is not made again.                          *)
ClaimOnce == claim.phase = "idle" /\ BeginClaim

(* In every drawing, until one has succeeded: also one for another.        *)
ClaimInvite == claim.phase \in {"idle", "error"} /\ BeginClaim

ClaimAnswered ==
    /\ OfCall("own", {"claimed", "refused"})
    /\ claim' = IF OfCall("own", {"claimed"}) THEN [claim EXCEPT !.phase = "success"]
                ELSE FailedClaim
    /\ calls' = [calls EXCEPT !["own"] = NoCall]
    /\ UNCHANGED <<user, stores, login, cache, fetch, losses>>

(* What has no answer in time may still be carried out.                    *)
ClaimLost ==
    /\ claim.phase = "pending" /\ losses < MaxLosses
    /\ losses' = losses + 1
    /\ claim' = FailedClaim
    /\ LeaveClaim
    /\ UNCHANGED <<user, stores, login, cache, fetch>>
-----------------------------------------------------------------------------
Init ==
    /\ user = [e \in Emails |-> NoUser]
    /\ calls = [c \in Claims |-> NoCall]
    /\ stored = Nobody /\ legacy \in BOOLEAN
    /\ start = "read" /\ session = Nobody /\ out = "idle"
    /\ google = Nobody /\ accepted = FALSE /\ astray = FALSE
    /\ cache = [e \in Emails |-> "unknown"] /\ fetch = NoFetch /\ claim = NoClaim
    /\ losses = 0

LoggingOut == RemoveSession \/ RemoveMarker \/ RemoveFails

Next ==
    \/ \E e \in Emails : Create(e) \/ Replace(e) \/ Archive(e) \/ OtherDevice(e)
    \/ \E c \in Claims : Serve(c)
    \/ Restore \/ MissSession \/ RestoreFails \/ Migrate \/ ForgetMarker \/ Restart
    \/ Login \/ LookUp \/ CompleteGoogleSignIn
    \/ \E e \in Emails : ChooseGoogle(e)
    \/ Logout \/ LoggingOut \/ Select
    \/ FetchRecord \/ FetchEnds
    \/ ClaimInvite \/ ClaimAnswered \/ ClaimLost

(* The app is drawn again after every change, a fetch is answered or times *)
(* out, and a claim that is not lost is answered.                          *)
Fairness ==
    /\ WF_vars(ClaimInvite)
    /\ WF_vars(FetchUnknown) /\ WF_vars(FetchEnds)
    /\ WF_vars(Serve("own")) /\ WF_vars(ClaimAnswered)

Spec == Init /\ [][Next]_vars /\ Fairness
-----------------------------------------------------------------------------
ServiceTypes ==
    /\ user \in [Emails -> Users]
    /\ calls \in [Claims -> Calls]
    /\ \A c \in Claims : calls[c].phase # "none" => calls[c].email \in Emails

LoginTypes ==
    /\ stored \in Accounts /\ legacy \in BOOLEAN
    /\ start \in {"read", "migrate", "forget", "done"}
    /\ session \in Accounts /\ out \in {"idle", "session", "marker"}
    /\ google \in Emails \cup {Nobody} /\ accepted \in BOOLEAN /\ astray \in BOOLEAN
    /\ accepted => google \in Emails

RoleTypes ==
    /\ cache \in [Emails -> Statuses]
    /\ fetch \in [phase : {"none", "sent", "read", "failed"}, status : Statuses]
    /\ fetch.phase # "none" => session \in Emails
    /\ claim \in [phase : {"idle", "pending", "success", "error"}, email : Emails \cup {Nobody}]
    /\ losses \in 0..MaxLosses

TypeOK == ServiceTypes /\ LoginTypes /\ RoleTypes

Restored == IF stored # Nobody THEN stored ELSE IF legacy THEN Admin ELSE Nobody

(* A sign-in persists until the logout, and no longer: with nothing under  *)
(* way the app would come back from a restart with whoever is signed in,   *)
(* also when it was stopped between the steps of an earlier logout or of   *)
(* the move from the older marker (AuthContext).  Excepted are devices     *)
(* whose store failed, and a sign-in with Google that ended inside a       *)
(* logout.                                                                 *)
RestartKeepsSession ==
    start = "done" /\ out = "idle" /\ ~astray => session = Restored

(* A claim is stamped once, whoever else claims it or changes the user in  *)
(* the middle of it; an archived user is neither claimed nor comes back.   *)
ClaimsAreFinal ==
    [][\A e \in Emails :
        /\ user[e].claimed # 0 => user'[e].claimed = user[e].claimed
        /\ user[e].etag # 0 /\ ~user[e].active =>
               ~user'[e].active /\ user'[e].claimed = user[e].claimed]_vars

(* What the app shows of an account was true of that account: nobody is    *)
(* shown as invited without a record, or as active without a claim that    *)
(* was stamped, and a claim that succeeded has stamped the account it was  *)
(* made for, also when answers come after another account has signed in,   *)
(* after a restart, or for a call that was given up (RoleProvider).        *)
ShownWasTrue ==
    /\ \A e \in Emails :
           /\ ShowsInvited(e) => user[e].etag # 0
           /\ cache[e] = "active" => user[e].claimed # 0
    /\ claim.phase = "success" => claim.email \in Emails /\ user[claim.email].claimed # 0

(* An invitation that the app shows to the account itself is claimed in    *)
(* the end, if it is not archived and nobody signs out, also when claims   *)
(* are lost or refused as out of date, and when the cache is emptied       *)
(* beside the claim: if that comes to an end, the record is fetched again, *)
(* and what is then not shown could not be fetched.  Excepted is an app    *)
(* that made its claim for another account since it was started.           *)
Settled(e) ==
    \/ user[e].claimed # 0 \/ ~user[e].active
    \/ session # e \/ fetch.phase = "failed"

InvitesAreClaimed ==
    <>[][~Select]_vars =>
        \A e \in Emails :
            (session = e /\ ShowsInvited(e) /\ claim.email \in {Nobody, e}) ~> Settled(e)

(* The same without that exception: the comment at RoleContext.tsx:48.     *)
EveryInviteIsClaimed ==
    <>[][~Select]_vars =>
        \A e \in Emails : (session = e /\ ShowsInvited(e)) ~> Settled(e)

(* The claims of an app come to an end, as a plan says: "once"             *)
(* (Plans/20261002-user-management-roles-cr1.md:88).                       *)
ClaimsEnd ==
    \A e \in Emails : <>[](session = e) => <>[](claim.phase # "pending")
=============================================================================

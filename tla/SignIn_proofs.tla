---------------------------- MODULE SignIn_proofs ----------------------------
(***************************************************************************)
(* That claims are final, that a restart comes back with whoever is signed *)
(* in, and that what the app shows of an account was true of that account, *)
(* for any number of accounts, of changes by administrators and of lost    *)
(* claims.                                                                 *)
(***************************************************************************)
EXTENDS SignIn, TLAPS

(* Only a user can be active or claimed.                                   *)
UsersExist ==
    \A e \in Emails : user[e].etag = 0 => ~user[e].active /\ user[e].claimed = 0

(* While the version that a claim has read is the current one, the user is *)
(* what the claim saw: invited and not archived.                           *)
ClaimsSawInvited ==
    \A c \in Claims :
        calls[c].phase \in {"first", "second"} =>
            LET u == user[calls[c].email]
            IN  /\ calls[c].seen <= u.etag
                /\ calls[c].seen = u.etag => u.active /\ u.claimed = 0

ClaimInv == ServiceTypes /\ UsersExist /\ ClaimsSawInvited

(* A logout is of someone; a sign-in with Google begins after the start;   *)
(* until the start is over nobody is signed in.                            *)
LoginOrder ==
    /\ out # "idle" => session # Nobody /\ start = "done"
    /\ google # Nobody => start = "done"
    /\ start # "done" => session = Nobody

(* What is stored at each point of the start and of a logout.              *)
StoreFollows ==
    ~astray =>
        /\ start = "forget" => stored = Admin
        /\ out = "marker" => stored = Nobody
        /\ start = "done" /\ out = "idle" => session = Restored

LoginInv == LoginTypes /\ LoginOrder /\ StoreFollows
-----------------------------------------------------------------------------
(* Claims.                                                                 *)

LEMMA CallTypes ==
    /\ NoCall \in Calls /\ NoCall.phase = "none"
    /\ \A e \in Emails : Call(e) \in Calls /\ Call(e).phase = "sent" /\ Call(e).email = e
  BY DEF NoCall, Call, Calls

LEMMA EndedTypes ==
    ASSUME NEW c \in Claims, calls[c].email \in Emails, NEW phase \in {"claimed", "refused"}
    PROVE  /\ Ended(c, phase) \in Calls
           /\ Ended(c, phase).phase \in {phase, "none"}
           /\ Ended(c, phase).phase # "none" => Ended(c, phase).email \in Emails
  BY DEF Ended, NoCall, Calls

LEMMA ClaimInit == Init => ClaimInv
  BY CallTypes DEF Init, ClaimInv, ServiceTypes, UsersExist, ClaimsSawInvited, NoUser, Users

(* An administrator's change leaves no claim the version it has read.      *)
LEMMA ChangeKeepsClaimInv ==
    ASSUME ClaimInv, NEW e \in Emails, Create(e) \/ Replace(e) \/ Archive(e)
    PROVE  ClaimInv'
  <1> USE DEF ClaimInv, ServiceTypes, Users, Calls
  <1>1. /\ user' \in [Emails -> Users] /\ calls' = calls
        /\ user'[e].etag = user[e].etag + 1
        /\ \A f \in Emails \ {e} : user'[f] = user[f]
    <2>1. CASE Create(e)
      BY <2>1 DEF Create
    <2>2. CASE Replace(e) \/ Archive(e)
      <3>1. PICK active \in BOOLEAN : Change(e, active)
        BY <2>2 DEF Replace, Archive
      <3>2. /\ user' = [user EXCEPT ![e] =
                   [active |-> active, etag |-> @.etag + 1, claimed |-> @.claimed]]
            /\ calls' = calls
        BY <3>1 DEF Change
      <3>3. QED
        BY <3>2
    <2>3. QED
      BY <2>1, <2>2
  <1>2. UsersExist'
    BY <1>1 DEF UsersExist
  <1>3. ClaimsSawInvited'
    BY <1>1 DEF ClaimsSawInvited
  <1>4. QED
    BY <1>1, <1>2, <1>3

(* A claim goes on with what it has just read, or with nothing.            *)
LEMMA NextStateOfClaim ==
    ASSUME ClaimInv, user' = user, NEW c \in Claims, NEW call \in Calls,
           calls' = [calls EXCEPT ![c] = call],
           call.phase # "none" => call.email \in Emails,
           call.phase \in {"first", "second"} =>
               LET u == user[call.email]
               IN  /\ call.seen <= u.etag
                   /\ call.seen = u.etag => u.active /\ u.claimed = 0
    PROVE  ClaimInv'
  <1>1. /\ calls' \in [Claims -> Calls] /\ calls'[c] = call
        /\ \A d \in Claims \ {c} : calls'[d] = calls[d]
    BY DEF ClaimInv, ServiceTypes
  <1>2. ServiceTypes'
    BY <1>1 DEF ClaimInv, ServiceTypes
  <1>3. ClaimsSawInvited'
    BY <1>1 DEF ClaimInv, ClaimsSawInvited
  <1>4. QED
    BY <1>2, <1>3 DEF ClaimInv, UsersExist

LEMMA ReadKeepsClaimInv ==
    ASSUME ClaimInv, NEW c \in Claims, ClaimReads(c)
    PROVE  ClaimInv'
  <1> DEFINE old == calls[c]
             u == user[old.email]
             read == [email |-> old.email, seen |-> u.etag,
                      phase |-> IF old.phase = "sent" THEN "first" ELSE "second"]
  <1>1. old \in Calls /\ old.email \in Emails /\ u \in Users /\ user' = user
    BY DEF ClaimInv, ServiceTypes, ClaimReads, OfCall
  <1>2. CASE u.active /\ u.claimed = 0
    <2>1. calls' = [calls EXCEPT ![c] = read]
      BY <1>1, <1>2 DEF ClaimReads, Calls, ClaimInv, ServiceTypes
    <2>2. read \in Calls /\ read.email = old.email /\ read.seen = u.etag
      BY <1>1 DEF Calls, Users
    <2> HIDE DEF read
    <2>3. user[read.email] = u /\ read.seen <= u.etag
      BY <1>1, <2>2 DEF Users
    <2>4. QED
      BY <1>1, <1>2, <2>1, <2>2, <2>3, NextStateOfClaim
  <1>3. CASE ~(u.active /\ u.claimed = 0)
    <2>1. PICK done \in {"claimed", "refused"} : calls' = [calls EXCEPT ![c] = Ended(c, done)]
      BY <1>1, <1>3 DEF ClaimReads, Answer
    <2>2. QED
      BY <1>1, <2>1, EndedTypes, NextStateOfClaim
  <1>4. QED
    BY <1>2, <1>3

LEMMA StaleKeepsClaimInv ==
    ASSUME ClaimInv, NEW c \in Claims, ClaimIsStale(c)
    PROVE  ClaimInv'
  <1> DEFINE old == calls[c]
             again == [email |-> old.email, seen |-> 0, phase |-> "again"]
             answered == Ended(c, "refused")
  <1>1. old \in Calls /\ old.email \in Emails /\ user' = user
    BY DEF ClaimInv, ServiceTypes, ClaimIsStale, OfCall
  <1>2. \/ calls' = [calls EXCEPT ![c] = again]
        \/ calls' = [calls EXCEPT ![c] = answered]
    BY <1>1 DEF ClaimIsStale, Answer, OfCall, Calls, ClaimInv, ServiceTypes
  <1>3. /\ again \in Calls /\ answered \in Calls
        /\ answered.phase \in {"refused", "none"}
        /\ answered.phase # "none" => answered.email \in Emails
    BY <1>1, EndedTypes DEF Calls
  <1> HIDE DEF answered
  <1>4. QED
    BY <1>1, <1>2, <1>3, NextStateOfClaim

(* The write that ends a claim leaves no other claim the version it read.  *)
LEMMA WriteKeepsClaimInv ==
    ASSUME ClaimInv, NEW c \in Claims, ClaimWrites(c)
    PROVE  /\ ClaimInv'
           /\ LET e == calls[c].email
              IN  /\ e \in Emails /\ user[e].active /\ user[e].claimed = 0
                  /\ user'[e].active /\ user[e].etag # 0
                  /\ \A f \in Emails \ {e} : user'[f] = user[f]
  <1> DEFINE e == calls[c].email
             u == user[e]
             new == Stamped(u)
             answered == Ended(c, "claimed")
  <1>1. e \in Emails /\ u \in Users /\ calls[c].seen = u.etag
    BY DEF ClaimInv, ServiceTypes, ClaimWrites, OfCall
  <1>2. u.active /\ u.claimed = 0 /\ u.etag # 0
    BY <1>1 DEF ClaimInv, ClaimsSawInvited, UsersExist, ClaimWrites, OfCall
  <1>3. user' = [user EXCEPT ![e] = new] /\ new \in Users
    BY <1>1 DEF ClaimWrites, Stamped, Users
  <1>4. user' \in [Emails -> Users] /\ user'[e] = new /\ \A f \in Emails \ {e} : user'[f] = user[f]
    BY <1>1, <1>3 DEF ClaimInv, ServiceTypes
  <1>5. calls' = [calls EXCEPT ![c] = answered]
    BY DEF ClaimWrites, Answer
  <1>6. /\ answered \in Calls /\ answered.phase \in {"claimed", "none"}
        /\ answered.phase # "none" => answered.email \in Emails
    BY <1>1, EndedTypes
  <1>7. /\ calls' \in [Claims -> Calls] /\ calls'[c] = answered
        /\ \A d \in Claims \ {c} : calls'[d] = calls[d]
    BY <1>5, <1>6 DEF ClaimInv, ServiceTypes
  <1>8. ServiceTypes'
    BY <1>4, <1>6, <1>7 DEF ClaimInv, ServiceTypes
  <1>9. UsersExist'
    BY <1>1, <1>4 DEF ClaimInv, UsersExist, Stamped, Users
  <1>10. ClaimsSawInvited'
    <2> SUFFICES ASSUME NEW d \in Claims, calls'[d].phase \in {"first", "second"}
                 PROVE  LET v == user'[calls'[d].email]
                        IN  /\ calls'[d].seen <= v.etag
                            /\ calls'[d].seen = v.etag => v.active /\ v.claimed = 0
      BY DEF ClaimsSawInvited
    <2>1. d # c /\ calls'[d] = calls[d] /\ calls[d].email \in Emails /\ calls[d] \in Calls
      BY <1>6, <1>7 DEF ClaimInv, ServiceTypes
    <2>2. /\ calls[d].seen <= user[calls[d].email].etag
          /\ calls[d].seen = user[calls[d].email].etag =>
                 user[calls[d].email].active /\ user[calls[d].email].claimed = 0
      BY <2>1 DEF ClaimInv, ClaimsSawInvited
    <2>3. CASE calls[d].email = e
      BY <1>1, <1>4, <2>1, <2>2, <2>3 DEF Stamped, Users, Calls
    <2>4. CASE calls[d].email # e
      BY <1>4, <2>1, <2>2, <2>4
    <2>5. QED
      BY <2>3, <2>4
  <1>11. QED
    BY <1>1, <1>2, <1>4, <1>8, <1>9, <1>10 DEF ClaimInv, Stamped

(* A claim that is begun, or one that nobody waits for any more.           *)
LEMMA AppKeepsClaimInv ==
    ASSUME ClaimInv, user' = user,
           \/ \E c \in Claims, e \in Emails : calls' = [calls EXCEPT ![c] = Call(e)]
           \/ calls' = [calls EXCEPT !["own"] = NoCall]
           \/ LeaveClaim
    PROVE  ClaimInv'
  <1>1. CASE \E c \in Claims, e \in Emails : calls' = [calls EXCEPT ![c] = Call(e)]
    BY <1>1, CallTypes, NextStateOfClaim
  <1>2. CASE calls' = [calls EXCEPT !["own"] = NoCall]
    <2>1. "own" \in Claims
      BY DEF Claims
    <2>2. QED
      BY <1>2, <2>1, CallTypes, NextStateOfClaim
  <1>3. CASE LeaveClaim
    <2>1. /\ calls' \in [Claims -> Calls]
          /\ \A c \in Claims : calls'[c] \in {NoCall, calls["own"], calls["other"]}
      BY <1>3, CallTypes DEF LeaveClaim, ClaimInv, ServiceTypes, Claims
    <2>2. {"own", "other"} \subseteq Claims
      BY DEF Claims
    <2>3. ServiceTypes'
      BY <2>1, <2>2, CallTypes DEF ClaimInv, ServiceTypes
    <2>4. ClaimsSawInvited'
      BY <2>1, <2>2, CallTypes DEF ClaimInv, ClaimsSawInvited
    <2>5. QED
      BY <2>3, <2>4 DEF ClaimInv, UsersExist
  <1>4. QED
    BY <1>1, <1>2, <1>3

(* Whatever changes the service's state is one of these.                   *)
LEMMA ServiceSteps ==
    ASSUME ClaimInv, LoginTypes, [Next]_vars
    PROVE  \/ \E e \in Emails : Create(e) \/ Replace(e) \/ Archive(e)
           \/ \E c \in Claims : Serve(c)
           \/ /\ user' = user
              /\ \/ calls' = calls
                 \/ \E c \in Claims, e \in Emails : calls' = [calls EXCEPT ![c] = Call(e)]
                 \/ calls' = [calls EXCEPT !["own"] = NoCall]
                 \/ LeaveClaim
  <1> {"own", "other"} \subseteq Claims
    BY DEF Claims
  <1>1. CASE Restore \/ MissSession \/ RestoreFails \/ Migrate \/ ForgetMarker \/ Restart
    BY <1>1 DEF Restore, MissSession, RestoreFails, Migrate, ForgetMarker, Restart, service
  <1>2. CASE Login \/ LookUp \/ CompleteGoogleSignIn \/ (\E e \in Emails : ChooseGoogle(e))
             \/ Logout \/ LoggingOut \/ Select
    BY <1>2 DEF Login, LookUp, CompleteGoogleSignIn, ChooseGoogle, Logout, LoggingOut, Select,
                RemoveSession, RemoveMarker, RemoveFails, service, login
  <1>3. CASE FetchRecord \/ ReadRecord \/ ShowRecord \/ FetchFails \/ ClaimInvite
             \/ ClaimAnswered \/ ClaimLost
    BY <1>3 DEF FetchRecord, ReadRecord, ShowRecord, FetchFails, ClaimInvite, BeginClaim,
                NeedsRecord, ClaimAnswered, ClaimLost, service
  <1>4. CASE \E e \in Emails : OtherDevice(e)
    BY <1>4 DEF OtherDevice
  <1>5. CASE UNCHANGED vars
    BY <1>5 DEF vars, service
  <1>6. QED
    BY <1>1, <1>2, <1>3, <1>4, <1>5 DEF Next, FetchEnds

LEMMA ClaimStep ==
    ASSUME ClaimInv, LoginTypes, [Next]_vars
    PROVE  ClaimInv'
  <1>1. CASE user' = user /\ calls' = calls
    BY <1>1 DEF ClaimInv, ServiceTypes, UsersExist, ClaimsSawInvited
  <1>2. CASE \E c \in Claims : Serve(c)
    BY <1>2, ReadKeepsClaimInv, WriteKeepsClaimInv, StaleKeepsClaimInv DEF Serve
  <1>3. QED
    BY <1>1, <1>2, ServiceSteps, ChangeKeepsClaimInv, AppKeepsClaimInv
-----------------------------------------------------------------------------
(* The session.                                                            *)

LEMMA LoginInit == Init => LoginInv
  BY AccountsApart
     DEF Init, LoginInv, LoginTypes, LoginOrder, StoreFollows, Accounts, Restored

LEMMA LoginStep ==
    ASSUME LoginInv, [Next]_vars
    PROVE  LoginInv'
  <1> USE AccountsApart
          DEF LoginInv, LoginTypes, LoginOrder, StoreFollows, Restored, Accounts
  <1>1. CASE Restore
    BY <1>1 DEF Restore, Enter, stores
  <1>2. CASE MissSession \/ RestoreFails
    <2>1. LoginTypes'
      <3>1. legacy' \in BOOLEAN /\ accepted' \in BOOLEAN /\ astray' \in BOOLEAN
        BY <1>2, Zenon DEF MissSession, RestoreFails, stores
      <3>2. QED
        BY <1>2, <3>1 DEF MissSession, RestoreFails, stores
    <2>2. LoginOrder'
      BY <1>2 DEF MissSession, RestoreFails, stores
    <2>3. StoreFollows'
      BY <1>2 DEF MissSession, RestoreFails, stores
    <2>4. QED
      BY <2>1, <2>2, <2>3
  <1>3. CASE Migrate
    BY <1>3 DEF Migrate, Save
  <1>4. CASE ForgetMarker
    BY <1>4 DEF ForgetMarker, Enter
  <1>5. CASE Restart
    BY <1>5 DEF Restart, Enter, stores
  <1>6. CASE Login
    <2>1. LoginTypes'
      BY <1>6 DEF Login, LoginScreen, Save, Enter
    <2>2. LoginOrder'
      BY <1>6 DEF Login, LoginScreen, Save, Enter
    <2>3. StoreFollows'
      BY <1>6 DEF Login, LoginScreen, Save, Enter
    <2>4. QED
      BY <2>1, <2>2, <2>3
  <1>7. CASE LookUp \/ (\E e \in Emails : ChooseGoogle(e))
    <2>1. LoginTypes'
      <3>1. legacy' \in BOOLEAN /\ accepted' \in BOOLEAN /\ astray' \in BOOLEAN
        BY <1>7, Zenon DEF LookUp, ChooseGoogle, LoginScreen, stores
      <3>2. QED
        BY <1>7, <3>1 DEF LookUp, ChooseGoogle, LoginScreen, stores
    <2>2. LoginOrder'
      BY <1>7 DEF LookUp, ChooseGoogle, LoginScreen, stores
    <2>3. StoreFollows'
      BY <1>7 DEF LookUp, ChooseGoogle, LoginScreen, stores
    <2>4. QED
      BY <2>1, <2>2, <2>3
  <1>8. CASE CompleteGoogleSignIn
    <2>1. LoginTypes'
      BY <1>8 DEF CompleteGoogleSignIn, Save, Enter
    <2>2. LoginOrder'
      BY <1>8 DEF CompleteGoogleSignIn, Save, Enter
    <2>3. StoreFollows'
      BY <1>8 DEF CompleteGoogleSignIn, Save, Enter
    <2>4. QED
      BY <2>1, <2>2, <2>3
  <1>9. CASE Logout
    BY <1>9 DEF Logout, stores
  <1>10. CASE RemoveSession
    BY <1>10 DEF RemoveSession, Save
  <1>11. CASE RemoveMarker \/ RemoveFails
    <2>1. LoginTypes'
      <3>1. legacy' \in BOOLEAN /\ accepted' \in BOOLEAN /\ astray' \in BOOLEAN
        BY <1>11, Zenon DEF RemoveMarker, RemoveFails, Enter, stores
      <3>2. QED
        BY <1>11, <3>1 DEF RemoveMarker, RemoveFails, Enter, stores
    <2>2. LoginOrder'
      BY <1>11 DEF RemoveMarker, RemoveFails, Enter, stores
    <2>3. StoreFollows'
      BY <1>11 DEF RemoveMarker, RemoveFails, Enter, stores
    <2>4. QED
      BY <2>1, <2>2, <2>3
  <1>12. CASE UNCHANGED <<stores, login>>
    BY <1>12 DEF stores, login
  <1>13. CASE \/ \E e \in Emails : Create(e) \/ Replace(e) \/ Archive(e) \/ OtherDevice(e)
              \/ \E c \in Claims : Serve(c)
              \/ Select \/ FetchRecord \/ FetchEnds
              \/ ClaimInvite \/ ClaimAnswered \/ ClaimLost
              \/ UNCHANGED vars
    BY <1>12, <1>13
       DEF Create, Replace, Archive, Change, OtherDevice, Serve, ClaimReads, ClaimWrites,
           ClaimIsStale, Select, FetchRecord, FetchEnds, ReadRecord, ShowRecord, FetchFails,
           ClaimInvite, BeginClaim, ClaimAnswered, ClaimLost, vars
  <1>14. QED
    BY <1>1, <1>2, <1>3, <1>4, <1>5, <1>6, <1>7, <1>8, <1>9, <1>10, <1>11, <1>13
       DEF Next, LoggingOut
-----------------------------------------------------------------------------
(* What the app shows.                                                     *)

(* A status that the record of an account has, or once had.                *)
Told(e, status) ==
    /\ status = "invited" => user[e].etag # 0
    /\ status = "active" => user[e].claimed # 0

(* A fetch is for whoever is signed in.                                    *)
RecordInv ==
    /\ cache \in [Emails -> Statuses]
    /\ fetch \in [phase : {"none", "sent", "read", "failed"}, status : Statuses]
    /\ fetch.phase # "none" => session \in Emails
    /\ \A e \in Emails : Told(e, cache[e])
    /\ fetch.phase = "read" => Told(session, fetch.status)

(* The call the app waits for is the one of its pending claim.             *)
OwnClaimInv ==
    /\ claim \in [phase : {"idle", "pending", "success", "error"}, email : Emails \cup {Nobody}]
    /\ losses \in 0..MaxLosses
    /\ calls["own"].phase # "none" => claim.phase = "pending" /\ claim.email = calls["own"].email
    /\ calls["own"].phase = "claimed" => user[calls["own"].email].claimed # 0
    /\ claim.phase = "success" => claim.email \in Emails /\ user[claim.email].claimed # 0

RoleInv == RecordInv /\ OwnClaimInv

LEMMA RoleInit == Init => RoleInv
  <1> SUFFICES ASSUME Init
               PROVE  RoleInv
    OBVIOUS
  <1>1. RecordInv
    BY DEF Init, RecordInv, NoFetch, Statuses, Told
  <1>2. calls["own"].phase = "none"
    BY DEF Init, Claims, NoCall
  <1>3. OwnClaimInv
    BY <1>2, BoundsAreNumbers DEF Init, OwnClaimInv, NoClaim
  <1>4. QED
    BY <1>1, <1>3 DEF RoleInv

(* What was once told of a user stays true: versions only grow, and stamps *)
(* stay.                                                                   *)
LEMMA UsersGrow ==
    ASSUME ClaimInv, LoginTypes, [Next]_vars, NEW e \in Emails
    PROVE  /\ user[e].etag # 0 => user'[e].etag # 0
           /\ user[e].claimed # 0 => user'[e].claimed = user[e].claimed
           /\ user[e].etag # 0 /\ ~user[e].active =>
                  ~user'[e].active /\ user'[e].claimed = user[e].claimed
  <1>1. CASE user' = user
    BY <1>1
  <1>2. CASE \E f \in Emails : Create(f) \/ Replace(f) \/ Archive(f)
    BY <1>2
       DEF Create, Replace, Archive, Change, ClaimInv, ServiceTypes, UsersExist, Users
  <1>3. CASE \E c \in Claims : ClaimWrites(c)
    <2>1. PICK c \in Claims : ClaimWrites(c)
      BY <1>3
    <2>2. CASE e # calls[c].email
      BY <2>1, <2>2, WriteKeepsClaimInv
    <2>3. CASE e = calls[c].email
      <3>1. /\ user[e].active /\ user[e].claimed = 0 /\ ClaimInv' /\ user'[e].active
        BY <2>1, <2>3, WriteKeepsClaimInv
      <3>2. user'[e].etag # 0
        BY <3>1 DEF ClaimInv, UsersExist
      <3>3. QED
        BY <3>1, <3>2
    <2>4. QED
      BY <2>2, <2>3
  <1>4. QED
    BY <1>1, <1>2, <1>3, ServiceSteps DEF Serve, ClaimReads, ClaimIsStale

(* Steps that show nothing new.                                            *)
LEMMA NothingNewShown ==
    ASSUME ClaimInv, LoginTypes, RecordInv, [Next]_vars,
           cache' = cache \/ cache' = [e \in Emails |-> "unknown"],
           \/ fetch' = NoFetch \/ UNCHANGED <<fetch, session>>
           \/ fetch' = FailedFetch /\ session' \in Emails
    PROVE  RecordInv'
  <1>1. /\ cache' \in [Emails -> Statuses] /\ \A e \in Emails : Told(e, cache'[e])
    BY DEF RecordInv, Statuses, Told
  <1>2. \A e \in Emails, status \in Statuses : Told(e, status) => Told(e, status)'
    BY UsersGrow DEF Told
  <1>3. \A e \in Emails : Told(e, cache[e])'
    BY <1>1, <1>2 DEF Told
  <1>4. CASE fetch' = NoFetch \/ (fetch' = FailedFetch /\ session' \in Emails)
    BY <1>1, <1>3, <1>4 DEF RecordInv, NoFetch, FailedFetch, Statuses
  <1>5. CASE UNCHANGED <<fetch, session>>
    <2>1. fetch'.phase = "read" => Told(session, fetch.status)'
      BY <1>2, <1>5 DEF RecordInv, Told
    <2>2. QED
      BY <1>1, <1>3, <1>5, <2>1 DEF RecordInv
  <1>6. QED
    BY <1>4, <1>5

LEMMA FetchKeepsRecordInv ==
    ASSUME ServiceTypes, UsersExist, RecordInv,
           FetchRecord \/ ReadRecord \/ ShowRecord
    PROVE  RecordInv'
  <1> USE DEF RecordInv, Told
  <1>1. user' = user /\ session' = session
    BY DEF FetchRecord, ReadRecord, ShowRecord, service, login
  <1>2. CASE FetchRecord
    BY <1>1, <1>2 DEF FetchRecord, NeedsRecord, NoFetch
  <1>3. CASE ReadRecord
    <2>1. /\ session \in Emails /\ cache' = cache
          /\ fetch' = [phase |-> "read", status |-> StatusOf(user[session])]
      BY <1>3 DEF ReadRecord
    <2>2. StatusOf(user[session]) \in Statuses /\ Told(session, StatusOf(user[session]))
      BY <2>1 DEF StatusOf, Statuses, Invited, ServiceTypes, Users
    <2>3. QED
      BY <1>1, <2>1, <2>2
  <1>4. CASE ShowRecord
    BY <1>1, <1>4 DEF ShowRecord, NoFetch, Statuses
  <1>5. QED
    BY <1>2, <1>3, <1>4

LEMMA RecordStep ==
    ASSUME ClaimInv, LoginTypes, RecordInv, [Next]_vars
    PROVE  RecordInv'
  <1>1. CASE FetchRecord \/ ReadRecord \/ ShowRecord
    BY <1>1, FetchKeepsRecordInv DEF ClaimInv
  <1>2. CASE Restore \/ MissSession \/ RestoreFails \/ Migrate \/ ForgetMarker \/ Restart
    BY <1>2, NothingNewShown
       DEF Restore, MissSession, RestoreFails, Migrate, ForgetMarker, Restart, Enter, role
  <1>3. CASE Login \/ LookUp \/ CompleteGoogleSignIn \/ (\E e \in Emails : ChooseGoogle(e))
             \/ Logout \/ LoggingOut \/ Select
    BY <1>3, NothingNewShown
       DEF Login, LookUp, CompleteGoogleSignIn, ChooseGoogle, Logout, LoggingOut, Select,
           RemoveSession, RemoveMarker, RemoveFails, Enter, role
  <1>4. CASE FetchFails \/ ClaimInvite \/ ClaimAnswered \/ ClaimLost
    BY <1>4, NothingNewShown
       DEF FetchFails, ClaimInvite, BeginClaim, ClaimAnswered, ClaimLost, login, RecordInv
  <1>5. CASE \/ \E e \in Emails : Create(e) \/ Replace(e) \/ Archive(e) \/ OtherDevice(e)
             \/ \E c \in Claims : Serve(c)
             \/ UNCHANGED vars
    BY <1>5, NothingNewShown
       DEF Create, Replace, Archive, Change, OtherDevice, Serve, ClaimReads, ClaimWrites,
           ClaimIsStale, login, role, vars
  <1>6. QED
    BY <1>1, <1>2, <1>3, <1>4, <1>5 DEF Next, FetchEnds

(* Steps in which the app's claim goes on, or is given up.                 *)
LEMMA SameClaim ==
    ASSUME ClaimInv, LoginTypes, OwnClaimInv, [Next]_vars, UNCHANGED <<claim, losses>>,
           calls'["own"].phase # "none" =>
               calls["own"].phase # "none" /\ calls'["own"].email = calls["own"].email,
           calls'["own"].phase = "claimed" /\ calls["own"].phase # "claimed" =>
               user'[calls["own"].email].claimed # 0
    PROVE  OwnClaimInv'
  <1>1. calls["own"].phase # "none" => calls["own"].email \in Emails
    BY DEF ClaimInv, ServiceTypes, Claims
  <1>2. \A e \in Emails : user[e].claimed # 0 => user'[e].claimed # 0
    BY UsersGrow
  <1>3. QED
    BY <1>1, <1>2 DEF OwnClaimInv

LEMMA ServeKeepsOwnClaimInv ==
    ASSUME ClaimInv, LoginTypes, OwnClaimInv, [Next]_vars, NEW c \in Claims, Serve(c)
    PROVE  OwnClaimInv'
  <1>1. /\ UNCHANGED <<claim, losses>> /\ calls[c].phase # "none"
        /\ calls \in [Claims -> Calls] /\ "own" \in Claims
    BY DEF Serve, ClaimReads, ClaimWrites, ClaimIsStale, OfCall, role, ClaimInv, ServiceTypes,
           Claims
  <1>2. \A d \in Claims \ {c} : calls'[d] = calls[d]
    BY <1>1 DEF Serve, ClaimReads, ClaimWrites, ClaimIsStale, Answer
  <1>3. CASE c # "own"
    BY <1>1, <1>2, <1>3, SameClaim
  <1>4. CASE c = "own"
    <2> DEFINE u == user[calls[c].email]
    <2>1. calls[c].email \in Emails /\ u \in Users
      BY <1>1 DEF ClaimInv, ServiceTypes
    <2>2. calls'["own"].email = calls["own"].email
      BY <1>1, <1>4 DEF Serve, ClaimReads, ClaimWrites, ClaimIsStale, Answer, Ended, Calls
    <2>3. calls'["own"].phase = "claimed" => user'[calls["own"].email].claimed # 0
      <3>1. CASE ClaimReads(c)
        BY <1>1, <1>4, <2>1, <3>1 DEF ClaimReads, Answer, Ended, Calls
      <3>2. CASE ClaimWrites(c)
        <4>1. user'[calls[c].email] = Stamped(u)
          BY <2>1, <3>2 DEF ClaimWrites, ClaimInv, ServiceTypes
        <4>2. QED
          BY <1>4, <2>1, <4>1 DEF Stamped, Users
      <3>3. CASE ClaimIsStale(c)
        BY <1>1, <1>4, <3>3 DEF ClaimIsStale, Answer, Ended, OfCall, Calls
      <3>4. QED
        BY <3>1, <3>2, <3>3 DEF Serve
    <2>4. QED
      BY <1>1, <1>4, <2>2, <2>3, SameClaim
  <1>5. QED
    BY <1>3, <1>4

LEMMA OwnClaimStep ==
    ASSUME ClaimInv, LoginTypes, OwnClaimInv, [Next]_vars
    PROVE  OwnClaimInv'
  <1>1. /\ "own" \in Claims /\ "other" \in Claims /\ calls \in [Claims -> Calls]
        /\ NoCall.phase = "none" /\ Nobody \notin Emails
    BY CallTypes, AccountsApart DEF Claims, ClaimInv, ServiceTypes
  <1>2. CASE \E c \in Claims : Serve(c)
    BY <1>2, ServeKeepsOwnClaimInv
  <1>3. CASE ClaimInvite
    <2>1. /\ session \in Emails /\ claim' = [phase |-> "pending", email |-> session]
          /\ calls'["own"] = Call(session) /\ losses' = losses
      BY <1>1, <1>3 DEF ClaimInvite, BeginClaim, NeedsRecord
    <2>2. QED
      BY <2>1, CallTypes DEF OwnClaimInv
  <1>4. CASE ClaimAnswered
    <2>1. calls'["own"] = NoCall /\ losses' = losses
      BY <1>1, <1>4 DEF ClaimAnswered
    <2>2. user' = user
      BY <1>4 DEF ClaimAnswered
    <2>3. CASE calls["own"].phase = "claimed"
      <3>1. claim' = [claim EXCEPT !.phase = "success"] /\ claim.email = calls["own"].email
        BY <1>4, <2>3 DEF ClaimAnswered, OfCall, OwnClaimInv
      <3>2. claim.email \in Emails /\ user[claim.email].claimed # 0
        BY <1>1, <2>3, <3>1 DEF OwnClaimInv, ClaimInv, ServiceTypes
      <3>3. QED
        BY <1>1, <2>1, <2>2, <3>1, <3>2 DEF OwnClaimInv
    <2>4. CASE calls["own"].phase # "claimed"
      BY <1>1, <1>4, <2>1, <2>2, <2>4 DEF ClaimAnswered, OfCall, OwnClaimInv, FailedClaim
    <2>5. QED
      BY <2>3, <2>4
  <1>5. CASE ClaimLost
    <2>1. calls'["own"] = NoCall
      BY <1>1, <1>5 DEF ClaimLost, LeaveClaim
    <2>2. losses' \in 0..MaxLosses /\ claim' = FailedClaim
      BY <1>5, BoundsAreNumbers DEF ClaimLost, OwnClaimInv
    <2>3. QED
      BY <1>1, <2>1, <2>2 DEF OwnClaimInv, FailedClaim
  <1>6. CASE Restart
    <2>1. calls'["own"] = NoCall
      BY <1>1, <1>6 DEF Restart, LeaveClaim
    <2>2. claim' = NoClaim /\ losses' = losses
      BY <1>6 DEF Restart
    <2>3. QED
      BY <1>1, <2>1, <2>2 DEF OwnClaimInv, NoClaim
  <1>7. CASE \E e \in Emails : OtherDevice(e)
    <2>1. UNCHANGED <<claim, losses>> /\ calls'["own"] = calls["own"]
      BY <1>1, <1>7 DEF OtherDevice, role
    <2>2. QED
      BY <2>1, SameClaim
  <1>8. CASE UNCHANGED <<calls, claim, losses>>
    BY <1>8, SameClaim
  <1>9. CASE Restore \/ MissSession \/ RestoreFails \/ Migrate \/ ForgetMarker \/ Login
             \/ LookUp \/ CompleteGoogleSignIn \/ (\E e \in Emails : ChooseGoogle(e))
    BY <1>8, <1>9
       DEF Restore, MissSession, RestoreFails, Migrate, ForgetMarker, Login, LookUp,
           CompleteGoogleSignIn, ChooseGoogle, service, role
  <1>10. CASE \/ Logout \/ LoggingOut \/ Select \/ FetchRecord \/ FetchEnds
              \/ \E e \in Emails : Create(e) \/ Replace(e) \/ Archive(e)
              \/ UNCHANGED vars
    BY <1>8, <1>10
       DEF Logout, LoggingOut, RemoveSession, RemoveMarker, RemoveFails, Select, FetchRecord,
           FetchEnds, ReadRecord, ShowRecord, FetchFails, Create, Replace, Archive, Change, service, role, vars
  <1>11. QED
    BY <1>2, <1>3, <1>4, <1>5, <1>6, <1>7, <1>9, <1>10 DEF Next
-----------------------------------------------------------------------------
IInv == ClaimInv /\ LoginInv /\ RoleInv

LEMMA IInvHolds == Spec => []IInv
  <1>1. Init => IInv
    BY ClaimInit, LoginInit, RoleInit DEF IInv
  <1>2. IInv /\ [Next]_vars => IInv'
    BY ClaimStep, LoginStep, RecordStep, OwnClaimStep DEF IInv, LoginInv, RoleInv
  <1>3. QED
    BY <1>1, <1>2, PTL DEF Spec

(* Every variable keeps its type; a fetch under way is of whoever is       *)
(* signed in with Google (RoleContext.tsx).                                *)
THEOREM TypeCorrect == Spec => []TypeOK
  <1>1. IInv => TypeOK
    BY DEF IInv, ClaimInv, LoginInv, RoleInv, RecordInv, OwnClaimInv, RoleTypes, TypeOK
  <1>2. QED
    BY IInvHolds, <1>1, PTL
-----------------------------------------------------------------------------
(* With nothing under way a restart of the app comes back with whoever is  *)
(* signed in (AuthContext.tsx).                                            *)
THEOREM RestartsKeepSessions == Spec => []RestartKeepsSession
  <1>1. IInv => RestartKeepsSession
    BY DEF IInv, LoginInv, StoreFollows, RestartKeepsSession
  <1>2. QED
    BY IInvHolds, <1>1, PTL

(* A claim is stamped once and an archived user stays as it is, whatever   *)
(* claims and changes meet (UserService.cs, Claim and its retry).          *)
THEOREM ClaimsAreFinalAlways == Spec => ClaimsAreFinal
  <1>1. IInv /\ [Next]_vars =>
            [\A e \in Emails :
                /\ user[e].claimed # 0 => user'[e].claimed = user[e].claimed
                /\ user[e].etag # 0 /\ ~user[e].active =>
                       ~user'[e].active /\ user'[e].claimed = user[e].claimed]_vars
    BY UsersGrow DEF IInv, LoginInv
  <1>2. QED
    BY IInvHolds, <1>1, PTL DEF Spec, ClaimsAreFinal

(* What the app shows of an account was true of that account, and a claim  *)
(* it takes for carried out was: fetches and claims answered after another *)
(* account has signed in, or after a restart, change nothing there         *)
(* (RoleContext.tsx, useClaimInvite).                                      *)
THEOREM WhatIsShownWasTrue == Spec => []ShownWasTrue
  <1>1. IInv => ShownWasTrue
    BY DEF IInv, RoleInv, RecordInv, OwnClaimInv, Told, ShowsInvited, ShownWasTrue
  <1>2. QED
    BY IInvHolds, <1>1, PTL
=============================================================================

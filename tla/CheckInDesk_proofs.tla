------------------------- MODULE CheckInDesk_proofs --------------------------
(***************************************************************************)
(* That the check-in screen is honest at rest, and that its errors are     *)
(* true, for any number of members and of undos under way.                 *)
(*                                                                         *)
(* At rest nothing is under way.  The inductive invariant says of every    *)
(* moment what may be under way where the screen and the server differ:    *)
(* a member that is shown and not present has an undo on its way back, one *)
(* that is present and not shown a check-in, or a notice that says so; and *)
(* the same of what a fetch has read already.                              *)
(***************************************************************************)
EXTENDS CheckInDesk, TLAPS

(* An undo of the member has been carried out and not yet answered.        *)
UndoDone(m) == \E u \in Undos : undo[u] = [member |-> m, phase |-> "done"]

(* A check-in of the member may have been carried out, and this screen     *)
(* still waits for the answer or says that none came.                      *)
CallOpen(m) ==
    call.member = m /\ call.phase \in {"granted", "asking", "found", "unknown"}

ReceiptKnown(m) == overlay[m] = "receipt" => m \in present \/ UndoDone(m)

GrantedIsPresent(m) ==
    call.member = m /\ call.phase \in {"granted", "found"} => m \in present

RefusedIsAbsent(m) ==
    /\ call.member = m /\ call.phase = "refused" => m \notin present
    /\ overlay[m] = "error" /\ call.member # m => m \notin present

(* What was fetched, or has been read to be shown.                         *)
Accurate(list, m) ==
    /\ m \in list /\ m \notin present => UndoDone(m)
    /\ m \in present /\ m \notin list => overlay[m] = "uncertain" \/ CallOpen(m)

ListsAccurate(m) ==
    /\ fetch = "idle" => Accurate(known, m)
    /\ fetch = "read" => Accurate(copy, m)

Sound(m) ==
    ReceiptKnown(m) /\ GrantedIsPresent(m) /\ RefusedIsAbsent(m) /\ ListsAccurate(m)

IInv == TypeOK /\ \A m \in Members : m \in apart \/ Sound(m)
-----------------------------------------------------------------------------
(* Types.                                                                  *)

LEMMA IdleIsNoCall ==
    /\ Idle.member = Nobody /\ Idle.phase = "idle"
    /\ Idle \notin Calls /\ Idle \notin UndoCalls
  BY NobodyIsNoMember DEF Idle, Calls, UndoCalls

LEMMA GoesKeepsType ==
    ASSUME TypeOK, NEW from, "idle" \notin from,
           NEW to \in {"granted", "refused", "busy", "asking", "found", "unknown"},
           Goes(from, to)
    PROVE  /\ call \in Calls /\ call.member \in Members
           /\ call' \in Calls /\ call'.member = call.member /\ call'.phase = to
  <1>1. call \in Calls
    BY IdleIsNoCall DEF TypeOK, Goes
  <1>2. QED
    BY <1>1 DEF Goes, Calls

LEMMA FetchAgainKeepsType ==
    ASSUME TypeOK, NEW ms, ms \subseteq Members, FetchAgain(ms)
    PROVE  /\ apart' \subseteq Members /\ known' \subseteq Members /\ loaded' \in BOOLEAN
           /\ fetch' \in {"idle", "sent", "read", "failed"} /\ copy' \subseteq Members
  BY DEF TypeOK, FetchAgain, LoseTrackOf

LEMMA TypeStep ==
    ASSUME TypeOK, [Next]_vars
    PROVE  TypeOK'
  <1> USE DEF TypeOK
  <1>1. CASE Attendance \/ Refocus \/ RetryTimeComes \/ Turn
    BY <1>1 DEF Attendance, ReadAttendance, ShowAttendance, FetchFails, Refocus,
                RetryTimeComes, Turn, server, attendance
  <1>2. CASE Refresh
    BY <1>2, FetchAgainKeepsType DEF Refresh
  <1>3. ASSUME NEW m \in Members, CheckIn(m)
        PROVE  TypeOK'
    BY <1>3 DEF CheckIn, Calls, server, attendance
  <1>4. ASSUME NEW m \in Members, Elsewhere(m) \/ LateCheckIn(m)
        PROVE  TypeOK'
    BY <1>4 DEF Elsewhere, LateCheckIn, LoseTrackOf, attendance
  <1>5. CASE Grant \/ Refuse \/ TooMany \/ GiveUp \/ ReadStatus \/ StatusFails
    <2>1. call \in Calls /\ call.member \in Members /\ call' \in Calls
      BY <1>5, GoesKeepsType
         DEF Grant, Refuse, TooMany, GiveUp, ReadStatus, StatusFails
    <2>2. QED
      BY <1>5, <2>1 DEF Grant, Refuse, TooMany, GiveUp, ReadStatus, StatusFails,
                        LoseTrackOf, server, attendance
  <1>6. CASE Succeed \/ Fail
    <2>1. call \in Calls /\ call.member \in Members
      BY <1>6, IdleIsNoCall DEF Succeed, Fail, Calls
    <2>2. CASE Succeed
      BY <2>1, <2>2, FetchAgainKeepsType DEF Succeed
    <2>3. CASE Fail
      BY <2>1, <2>3 DEF Fail, server, attendance
    <2>4. QED
      BY <1>6, <2>2, <2>3
  <1>7. ASSUME NEW u \in Undos, NEW m \in Members, Undo(u, m)
        PROVE  TypeOK'
    BY <1>7 DEF Undo, UndoCalls, server, attendance
  <1>8. ASSUME NEW u \in Undos,
               ServeUndo(u) \/ UndoSucceeds(u) \/ RefuseUndo(u) \/ LoseUndo(u)
        PROVE  TypeOK'
    <2>1. undo[u] \in UndoCalls /\ undo[u].member \in Members
      BY <1>8, IdleIsNoCall
         DEF ServeUndo, UndoSucceeds, RefuseUndo, LoseUndo, UndoCalls
    <2>2. CASE ServeUndo(u)
      BY <2>1, <2>2 DEF ServeUndo, UndoCalls, LoseTrackOf, attendance
    <2>3. CASE UndoSucceeds(u)
      BY <2>1, <2>3, FetchAgainKeepsType DEF UndoSucceeds
    <2>4. CASE RefuseUndo(u) \/ LoseUndo(u)
      BY <2>1, <2>4 DEF RefuseUndo, LoseUndo, LoseTrackOf, server, attendance
    <2>5. QED
      BY <1>8, <2>2, <2>3, <2>4
  <1>9. CASE Reopen
    BY <1>9 DEF Reopen, LoseTrackOf
  <1>10. CASE UNCHANGED vars
    BY <1>10 DEF vars, server, attendance
  <1>11. QED
    BY <1>1, <1>2, <1>3, <1>4, <1>5, <1>6, <1>7, <1>8, <1>9, <1>10
       DEF Next, Ends

-----------------------------------------------------------------------------
(* The strengthening.                                                      *)

LEMMA InitSound == Init => IInv
  <1> SUFFICES ASSUME Init PROVE IInv
    OBVIOUS
  <1>1. TypeOK
    BY DEF Init, TypeOK
  <1>2. ASSUME NEW m \in Members
        PROVE  Sound(m)
    BY <1>2, NobodyIsNoMember
       DEF Init, Sound, ReceiptKnown, GrantedIsPresent, RefusedIsAbsent, ListsAccurate, Idle
  <1>3. QED
    BY <1>1, <1>2 DEF IInv

(* Those that no statement is made about are never taken back.             *)
LEMMA ApartGrows ==
    ASSUME TypeOK, [Next]_vars
    PROVE  apart \subseteq apart'
  BY DEF Next, vars, server, Attendance, ReadAttendance, ShowAttendance, FetchFails,
         Refocus, Refresh, FetchAgain, LoseTrackOf, CheckIn, Elsewhere, LateCheckIn,
         Grant, Refuse, TooMany, Ends, GiveUp, ReadStatus, StatusFails, Succeed, Fail,
         RetryTimeComes, Turn, Undo, ServeUndo, UndoSucceeds, RefuseUndo, LoseUndo, Reopen

(* Fetching again settles the member or leaves the lists as they are.      *)
LEMMA FetchAgainIsAccurate ==
    ASSUME TypeOK, NEW ms, FetchAgain(ms), NEW m \in Members \ apart',
           ListsAccurate(m),
           m \notin ms => /\ present' = present
                          /\ UndoDone(m)' = UndoDone(m)
                          /\ overlay[m] = "uncertain" \/ CallOpen(m)
                                => overlay'[m] = "uncertain" \/ CallOpen(m)'
    PROVE  ListsAccurate(m)'
  <1>1. CASE Loading
    <2>1. m \notin ms
      BY <1>1 DEF FetchAgain, LoseTrackOf
    <2>2. UNCHANGED <<known, fetch, copy>>
      BY <1>1 DEF FetchAgain
    <2>3. QED
      BY <2>1, <2>2 DEF ListsAccurate, Accurate
  <1>2. CASE ~Loading
    BY <1>2 DEF FetchAgain, ListsAccurate
  <1>3. QED
    BY <1>1, <1>2

LEMMA StepSound ==
    ASSUME TypeOK, [Next]_vars, NEW m \in Members \ apart', Sound(m)
    PROVE  Sound(m)'
  <1> USE DEF Sound, ReceiptKnown, GrantedIsPresent, RefusedIsAbsent
  <1>0. m # Nobody /\ Idle.member = Nobody
    BY NobodyIsNoMember DEF Idle
  <1>1. CASE Attendance \/ Refocus \/ RetryTimeComes \/ Turn
    BY <1>1 DEF Attendance, ReadAttendance, ShowAttendance, FetchFails, Refocus,
                RetryTimeComes, Turn, server, attendance, ListsAccurate, Accurate,
                UndoDone, CallOpen
  <1>2. CASE Refresh
    <2>1. ListsAccurate(m)'
      BY <1>2, FetchAgainIsAccurate DEF Refresh, UndoDone, CallOpen, TypeOK
    <2>2. ReceiptKnown(m)' /\ GrantedIsPresent(m)' /\ RefusedIsAbsent(m)'
      BY <1>2 DEF Refresh, UndoDone, TypeOK
    <2>3. QED
      BY <2>1, <2>2
  <1>3. ASSUME NEW n \in Members, CheckIn(n)
        PROVE  Sound(m)'
    BY <1>0, <1>3 DEF CheckIn, Blocked, Pending, server, attendance, ListsAccurate,
                      Accurate, UndoDone, CallOpen
  <1>4. ASSUME NEW n \in Members, Elsewhere(n) \/ LateCheckIn(n)
        PROVE  Sound(m)'
    BY <1>4 DEF Elsewhere, LateCheckIn, LoseTrackOf, attendance, ListsAccurate, Accurate,
                UndoDone, CallOpen, TypeOK
  <1>5. CASE Grant \/ Refuse \/ TooMany \/ GiveUp \/ ReadStatus \/ StatusFails
    <2>1. call'.member = call.member
      BY <1>5, GoesKeepsType
         DEF Grant, Refuse, TooMany, GiveUp, ReadStatus, StatusFails
    <2>2. CASE Grant
      <3>1. call.phase = "sent" /\ call'.phase = "granted"
        BY <2>2, GoesKeepsType DEF Grant, Goes
      <3>2. QED
        BY <2>1, <2>2, <3>1 DEF Grant, attendance, ListsAccurate, Accurate, UndoDone,
                                CallOpen, TypeOK
    <2>3. CASE Refuse \/ TooMany
      <3>1. call.phase = "sent" /\ call'.phase \in {"refused", "busy"}
               /\ (Refuse \/ call'.phase = "busy")
        BY <2>3, GoesKeepsType DEF Refuse, TooMany, Goes
      <3>2. QED
        BY <2>1, <2>3, <3>1 DEF Refuse, TooMany, server, attendance, ListsAccurate,
                                Accurate, UndoDone, CallOpen
    <2>4. CASE GiveUp
      <3>1. call'.phase = "asking"
        BY <2>4, GoesKeepsType DEF GiveUp
      <3>2. QED
        BY <2>1, <2>4, <3>1 DEF GiveUp, attendance, ListsAccurate, Accurate, UndoDone, CallOpen
    <2>5. CASE ReadStatus \/ StatusFails
      <3>1. /\ call.phase \in {"asking", "found"} /\ call'.phase \in {"found", "unknown"}
            /\ call'.phase = "found" => call.member \in present
        BY <2>5, GoesKeepsType DEF ReadStatus, StatusFails, Goes
      <3>2. QED
        BY <2>1, <2>5, <3>1 DEF ReadStatus, StatusFails, server, attendance,
                                ListsAccurate, Accurate, UndoDone, CallOpen
    <2>6. QED
      BY <1>5, <2>2, <2>3, <2>4, <2>5
  <1>6. CASE Succeed
    <2>1. /\ ReceiptKnown(m)' /\ GrantedIsPresent(m)' /\ RefusedIsAbsent(m)'
      BY <1>0, <1>6 DEF Succeed, UndoDone, TypeOK
    <2>2. ListsAccurate(m)'
      <3>1. FetchAgain({call.member}) /\ UNCHANGED <<present, undo>>
        BY <1>6 DEF Succeed
      <3>2. m # call.member =>
               (overlay[m] = "uncertain" \/ CallOpen(m)
                  => overlay'[m] = "uncertain" \/ CallOpen(m)')
        BY <1>6 DEF Succeed, CallOpen, TypeOK
      <3>3. QED
        BY <3>1, <3>2, FetchAgainIsAccurate DEF UndoDone
    <2>3. QED
      BY <2>1, <2>2
  <1>7. CASE Fail
    BY <1>0, <1>7 DEF Fail, server, attendance, ListsAccurate, Accurate, UndoDone, CallOpen,
                      TypeOK
  <1>8. ASSUME NEW u \in Undos, NEW n \in Members, Undo(u, n)
        PROVE  Sound(m)'
    <2>1. UndoDone(m)' = UndoDone(m)
      BY <1>8 DEF Undo, UndoDone, Idle, TypeOK
    <2>2. QED
      BY <1>8, <2>1 DEF Undo, server, attendance, ListsAccurate, Accurate, CallOpen
  <1>9. ASSUME NEW u \in Undos, ServeUndo(u)
        PROVE  Sound(m)'
    <2>1. undo[u] \in UndoCalls /\ undo'[u] = [member |-> undo[u].member, phase |-> "done"]
      BY <1>9, IdleIsNoCall DEF ServeUndo, UndoCalls, TypeOK
    <2>2. UndoDone(m) => UndoDone(m)'
      BY <1>9, <2>1 DEF ServeUndo, UndoDone, TypeOK
    <2>3. undo[u].member = m => UndoDone(m)' /\ call.member # m
      BY <1>9, <2>1 DEF ServeUndo, LoseTrackOf, UndoDone
    <2>4. QED
      BY <1>9, <2>2, <2>3 DEF ServeUndo, attendance, ListsAccurate, Accurate, CallOpen, TypeOK
  <1>10. ASSUME NEW u \in Undos, UndoSucceeds(u)
         PROVE  Sound(m)'
    <2>1. m # undo[u].member => UndoDone(m)' = UndoDone(m)
      BY <1>10 DEF UndoSucceeds, UndoDone, Idle, TypeOK
    <2>2. ListsAccurate(m)'
      BY <1>10, <2>1, FetchAgainIsAccurate DEF UndoSucceeds, CallOpen, TypeOK
    <2>3. QED
      BY <1>10, <2>1, <2>2 DEF UndoSucceeds, TypeOK
  <1>11. ASSUME NEW u \in Undos, RefuseUndo(u) \/ LoseUndo(u)
         PROVE  Sound(m)'
    <2>1. UndoDone(m)' = UndoDone(m)
      BY <1>11 DEF RefuseUndo, LoseUndo, LoseTrackOf, UndoDone, Idle, TypeOK
    <2>2. QED
      BY <1>11, <2>1 DEF RefuseUndo, LoseUndo, server, attendance, ListsAccurate,
                         Accurate, CallOpen
  <1>12. CASE Reopen
    <2>1. ~UndoDone(m) /\ ~CallOpen(m) /\ overlay[m] # "uncertain"
      BY <1>12 DEF Reopen, LoseTrackOf, Undoing, UndoDone, CallOpen
    <2>2. QED
      BY <1>0, <1>12, <2>1 DEF Reopen, ListsAccurate, Accurate
  <1>13. CASE UNCHANGED vars
    BY <1>13 DEF vars, server, attendance, ListsAccurate, Accurate, UndoDone, CallOpen
  <1>14. QED
    BY <1>1, <1>2, <1>3, <1>4, <1>5, <1>6, <1>7, <1>8, <1>9, <1>10, <1>11, <1>12, <1>13
       DEF Next, Ends

LEMMA IInvHolds == Spec => []IInv
  <1>1. IInv /\ [Next]_vars => IInv'
    BY TypeStep, ApartGrows, StepSound DEF IInv
  <1>2. QED
    BY InitSound, <1>1, PTL DEF Spec

-----------------------------------------------------------------------------
(* Every variable keeps its type.                                          *)
THEOREM TypeCorrect == Spec => []TypeOK
  BY IInvHolds, PTL DEF IInv

(* When every call has been answered the screen shows of every member what *)
(* the server has, or says that it does not know (the rows of CheckIn.tsx).*)
THEOREM ScreenIsHonest == Spec => []HonestAtRest
  <1>1. IInv => HonestAtRest
    <2> SUFFICES ASSUME IInv, AtRest, NEW m \in Members \ apart, overlay[m] # "uncertain"
                 PROVE  Shown(m) <=> m \in present
      BY DEF HonestAtRest
    <2>1. ~UndoDone(m) /\ ~CallOpen(m) /\ fetch = "idle"
      BY DEF AtRest, UndoDone, CallOpen, Idle
    <2>2. ReceiptKnown(m) /\ Accurate(known, m)
      BY <2>1 DEF IInv, Sound, ListsAccurate
    <2>3. QED
      BY <2>1, <2>2 DEF ReceiptKnown, Accurate, Shown
  <1>2. QED
    BY IInvHolds, <1>1, PTL

(* A check-in that is shown as failed was not carried out, whatever others *)
(* did not do to the member (onError of CheckIn.tsx).                      *)
THEOREM FailuresAreTrue == Spec => []ErrorsAreTrue
  <1>1. IInv => ErrorsAreTrue
    BY DEF IInv, Sound, RefusedIsAbsent, ErrorsAreTrue
  <1>2. QED
    BY IInvHolds, <1>1, PTL

=============================================================================

-------------------------- MODULE ScanCheckIn_proofs --------------------------
(***************************************************************************)
(* Every safety property of ScanCheckIn for any number of calls, codes and *)
(* members, of turns away from the screen and of changes by others.        *)
(***************************************************************************)
EXTENDS ScanCheckIn, TLAPS

(* What a call has at each of its stages.                                  *)
CallsHold ==
    /\ \A p \in Calls :
           /\ stage[p] = "unused" => scan[p] = "none" /\ reply[p] = NoReply /\ version[p] = 0
           /\ scan[p] = "resolved" => subject[p] \in Members
           /\ reply[p].kind = "checked_in" => reply[p].member \in Members
           /\ stage[p] = "scan" /\ reply[p].kind \in Refused => scan[p] = "over"
           /\ version[p] <= generation
           /\ p \in aborted => Running(p)
    /\ \A p, q \in Calls : q < p /\ stage[p] # "unused" => stage[q] # "unused"

TypeInv == TypeOK /\ CallsHold

(* The types of the service and the network, and those of the device.      *)
ServiceOK ==
    /\ holder \in [Codes -> Members \cup {None}]
    /\ present \in SUBSET Members
    /\ open \in BOOLEAN
    /\ scan \in [Calls -> {"none", "sent", "resolved", "carried_out", "over"}]
    /\ subject \in [Calls -> Members \cup {None}]
    /\ reply \in [Calls -> [kind : Refused \cup {"none", "checked_in", "absent"},
                            member : Members \cup {None}]]
    /\ turns \in 0 .. MaxTurns
    /\ changes \in 0 .. MaxChanges
    /\ discharged \in SUBSET Calls

DeviceOK ==
    /\ ui \in Screens /\ drawn \in Screens
    /\ result \in {None} \cup [code : Codes, member : Members]
    /\ latch \in BOOLEAN
    /\ generation \in Nat
    /\ controller \in Calls \cup {None}
    /\ stage \in [Calls -> Stages]
    /\ code \in [Calls -> Codes]
    /\ version \in [Calls -> Nat]
    /\ aborted \in SUBSET Calls

LEMMA TypeParts == TypeOK <=> ServiceOK /\ DeviceOK
  BY DEF TypeOK, ServiceOK, DeviceOK

LEMMA TypePartsNext == TypeOK' <=> ServiceOK' /\ DeviceOK'
  BY DEF TypeOK, ServiceOK, DeviceOK

LEMMA TypeInit == Init => TypeInv
  <1> SUFFICES ASSUME Init PROVE TypeInv
    OBVIOUS
  <1> DEFINE some == CHOOSE c \in Codes : TRUE
  <1>1. some \in Codes
    BY CodesType
  <1>2. code = [p \in Calls |-> some]
    BY DEF Init
  <1> HIDE DEF some
  <1>3. TypeOK
    <2>1. ServiceOK
      BY CardsType, BoundsType DEF Init, ServiceOK, NoReply
    <2>2. DeviceOK
      BY <1>1, <1>2 DEF Init, DeviceOK, Fresh, Stages, Screens
    <2>3. QED
      BY <2>1, <2>2, TypeParts
  <1>4. CallsHold
    BY DEF Init, CallsHold, NoReply, Refused, Running
  <1>5. QED
    BY <1>3, <1>4 DEF TypeInv
-----------------------------------------------------------------------------
(* What the actions do, call by call.                                      *)

(* A call begins.                                                          *)
Begins(p, c, first) ==
    /\ drawn.active /\ ~latch /\ latch' /\ stage[p] = "unused"
    /\ \A q \in Calls : q < p => stage[q] # "unused"
    /\ stage'[p] = first /\ code'[p] = c /\ version'[p] = generation
    /\ \A q \in Calls \ {p} :
           stage'[q] = stage[q] /\ code'[q] = code[q] /\ version'[q] = version[q]
    /\ ui' = [ui EXCEPT !.busy = TRUE, !.pending = c]
    /\ result' = None
    /\ UNCHANGED <<reply, drawn, generation, aborted, discharged>>

LEMMA BeginShape ==
    ASSUME TypeInv, NEW p \in Calls, NEW c \in Codes, NEW first \in Stages, Begin(p, c, first),
           scan' \in [Calls -> {"none", "sent", "resolved", "carried_out", "over"}],
           UNCHANGED <<holder, present, open, turns, changes>>
    PROVE  Begins(p, c, first) /\ UNCHANGED subject /\ TypeOK'
  <1> USE TypeParts, TypePartsNext DEF TypeInv
  <1>1. Begins(p, c, first) /\ UNCHANGED subject
    BY DEF DeviceOK, Begin, MayProcess, Begins
  <1>2. ServiceOK'
    BY <1>1 DEF ServiceOK, Begin
  <1>3. ui' \in Screens
    BY DEF DeviceOK, Screens, Begin
  <1>4. DeviceOK'
    BY <1>3 DEF DeviceOK, Begin
  <1>5. QED
    BY <1>1, <1>2, <1>4

LEMMA ScanShape ==
    ASSUME TypeInv, NEW p \in Calls, NEW c \in Codes, Scan(p, c)
    PROVE  /\ Begins(p, c, "scan") /\ drawn.pending = None
           /\ scan' = [scan EXCEPT ![p] = "sent"] /\ UNCHANGED subject /\ TypeOK'
  <1>1. /\ Begin(p, c, "scan") /\ drawn.pending = None
        /\ scan' = [scan EXCEPT ![p] = "sent"]
    BY DEF Scan, MayScan
  <1>2. /\ scan' \in [Calls -> {"none", "sent", "resolved", "carried_out", "over"}]
        /\ UNCHANGED <<holder, present, open, turns, changes>>
    BY <1>1, TypeParts DEF TypeInv, ServiceOK, Begin, service
  <1>3. QED
    BY <1>1, <1>2, BeginShape DEF Stages

LEMMA CheckStatusShape ==
    ASSUME TypeInv, NEW p \in Calls, CheckStatus(p)
    PROVE  /\ drawn.pending \in Codes /\ ~drawn.busy
           /\ Begins(p, drawn.pending, "status") /\ UNCHANGED <<scan, subject>> /\ TypeOK'
  <1>1. /\ Begin(p, drawn.pending, "status") /\ drawn.pending \in Codes /\ ~drawn.busy
        /\ scan' = scan
    BY TypeParts DEF CheckStatus, TypeInv, DeviceOK, Screens
  <1>2. /\ scan' \in [Calls -> {"none", "sent", "resolved", "carried_out", "over"}]
        /\ UNCHANGED <<holder, present, open, turns, changes>>
    BY <1>1, TypeParts DEF TypeInv, ServiceOK, Begin, service
  <1>3. QED
    BY <1>1, <1>2, BeginShape DEF Stages

(* The service goes on with a scan or answers a question.                  *)
Serves(p) ==
    /\ UNCHANGED <<ui, drawn, result, refs, process, discharged>>
    /\ \A q \in Calls \ {p} : scan'[q] = scan[q] /\ reply'[q] = reply[q] /\ subject'[q] = subject[q]
    /\ \/ scan'[p] = scan[p] /\ subject'[p] = subject[p] /\ stage[p] \in {"recover", "status"}
       \/ scan[p] = "sent" /\ scan'[p] = "over" /\ subject'[p] = subject[p]
       \/ scan[p] = "sent" /\ scan'[p] = "resolved" /\ subject'[p] \in Members /\ reply'[p] = reply[p]
       \/ scan[p] = "resolved" /\ scan'[p] = "over"
       \/ scan[p] = "resolved" /\ scan'[p] = "carried_out"
          /\ (reply'[p] = reply[p] \/ reply'[p].kind = "checked_in")
    /\ reply'[p] = reply[p] \/ (Running(p) /\ (reply'[p].kind = "checked_in" => reply'[p].member \in Members))

LEMMA ServeShape ==
    ASSUME TypeInv, NEW p \in Calls, ResolveScan(p) \/ CheckInMember(p) \/ ReadStatus(p)
    PROVE  Serves(p) /\ TypeOK'
  <1> USE TypeParts, TypePartsNext DEF TypeInv
  <1> DEFINE Replies == [Calls -> [kind : Refused \cup {"none", "checked_in", "absent"},
                                   member : Members \cup {None}]]
             AnswersOnce ==
                 /\ reply' \in Replies
                 /\ \A q \in Calls \ {p} : reply'[q] = reply[q]
                 /\ \/ reply'[p] = reply[p]
                    \/ Running(p) /\ (reply'[p].kind = "checked_in" => reply'[p].member \in Members)
  <1>1. ASSUME NEW kind \in Refused \cup {"checked_in", "absent"}, NEW member \in Members \cup {None},
               kind = "checked_in" => member \in Members, Running(p), Reply(p, kind, member)
        PROVE  AnswersOnce /\ reply'[p].kind = kind
    BY <1>1 DEF Reply, ServiceOK
  <1>2. ASSUME NEW kind \in Refused \cup {"checked_in"}, NEW member \in Members \cup {None},
               kind = "checked_in" => member \in Members, ReplyToScan(p, kind, member)
        PROVE  AnswersOnce /\ (reply'[p] = reply[p] \/ reply'[p].kind = kind)
    <2>1. reply \in Replies
      BY DEF ServiceOK
    <2>2. QED
      BY <1>1, <1>2, <2>1 DEF ReplyToScan, Running
  <1>3. ASSUME /\ UNCHANGED <<ui, drawn, result, refs, process>>
        PROVE  DeviceOK'
    BY <1>3 DEF DeviceOK, refs, process
  <1> HIDE DEF AnswersOnce
  <1>4. CASE ResolveScan(p)
    <2>1. UNCHANGED <<service, holder, present, open, ui, drawn, result, refs, process, turns,
                      changes, discharged>>
          /\ scan[p] = "sent"
      BY <1>4 DEF ResolveScan, service
    <2>2. CASE /\ ReplyToScan(p, "limited", None) \/ ReplyToScan(p, "unknown", None)
               /\ scan' = [scan EXCEPT ![p] = "over"] /\ UNCHANGED subject
      <3>1. AnswersOnce
        BY <1>2, <2>2 DEF Refused
      <3>2. QED
        BY <1>3, <2>1, <2>2, <3>1 DEF Serves, AnswersOnce, ServiceOK
    <2>3. CASE /\ holder[code[p]] # None /\ scan' = [scan EXCEPT ![p] = "resolved"]
               /\ subject' = [subject EXCEPT ![p] = holder[code[p]]] /\ UNCHANGED reply
      <3>1. holder[code[p]] \in Members
        BY <2>3 DEF ServiceOK, DeviceOK
      <3>2. QED
        BY <1>3, <2>1, <2>3, <3>1 DEF Serves, ServiceOK
    <2>4. QED
      BY <1>4, <2>2, <2>3 DEF ResolveScan
  <1>5. CASE CheckInMember(p)
    <2> DEFINE m == subject[p]
    <2>1. /\ m \in Members /\ scan[p] = "resolved"
          /\ subject' = [subject EXCEPT ![p] = None]
          /\ UNCHANGED <<holder, open, ui, drawn, result, refs, process, turns, changes, discharged>>
      BY <1>5 DEF CallsHold, CheckInMember
    <2>2. CASE /\ present' = present \cup {m} /\ ReplyToScan(p, "checked_in", m)
               /\ scan' = [scan EXCEPT ![p] = IF m \in present THEN "over" ELSE "carried_out"]
      <3>1. AnswersOnce /\ (reply'[p] = reply[p] \/ reply'[p].kind = "checked_in")
        BY <1>2, <2>1, <2>2
      <3>2. QED
        BY <1>3, <2>1, <2>2, <3>1 DEF Serves, AnswersOnce, ServiceOK
    <2>3. CASE /\ ReplyToScan(p, "closed", None) /\ scan' = [scan EXCEPT ![p] = "over"]
               /\ UNCHANGED present
      <3>1. AnswersOnce
        BY <1>2, <2>3 DEF Refused
      <3>2. QED
        BY <1>3, <2>1, <2>3, <3>1 DEF Serves, AnswersOnce, ServiceOK
    <2>4. QED
      BY <1>5, <2>2, <2>3 DEF CheckInMember
  <1>6. CASE ReadStatus(p)
    <2>1. /\ Running(p) /\ stage[p] \in {"recover", "status"}
          /\ UNCHANGED <<service, holder, present, open, scan, subject, ui, drawn, result, refs,
                         process, turns, changes, discharged>>
      BY <1>6 DEF ReadStatus, Running, service
    <2>2. holder[code[p]] \in Members \cup {None}
      BY DEF ServiceOK, DeviceOK
    <2>3. AnswersOnce
      <3>1. CASE Reply(p, "limited", None) \/ Reply(p, "unknown", None)
        BY <1>1, <2>1, <3>1 DEF Refused
      <3>2. CASE holder[code[p]] # None /\ Reply(p, "checked_in", holder[code[p]])
        BY <1>1, <2>1, <2>2, <3>2
      <3>3. CASE Reply(p, "absent", holder[code[p]])
        BY <1>1, <2>1, <2>2, <3>3
      <3>4. QED
        BY <1>6, <3>1, <3>2, <3>3 DEF ReadStatus
    <2>4. QED
      BY <1>3, <2>1, <2>3 DEF Serves, AnswersOnce, ServiceOK
  <1>7. QED
    BY <1>4, <1>5, <1>6

(* A call returns.                                                         *)
Returns(p) ==
    /\ Running(p)
    /\ stage'[p] = "done" /\ reply'[p] = NoReply /\ version'[p] = 0 /\ aborted' = aborted \ {p}
    /\ \A q \in Calls \ {p} :
           stage'[q] = stage[q] /\ reply'[q] = reply[q] /\ version'[q] = version[q]
    /\ UNCHANGED <<scan, subject, drawn, generation, code>>

(* A current one, with what it leaves on the screen.                       *)
Ends(p) ==
    /\ Returns(p) /\ ~Obsolete(p) /\ drawn = ui /\ ~latch' /\ ui'.busy = FALSE
    /\ \/ /\ ui'.pending = None /\ result'.code = code[p]
          /\ discharged' = discharged \cup {q \in Calls : stage[q] # "unused" /\ code[q] = code[p]}
       \/ /\ UNCHANGED <<result, discharged>>
          /\ \/ ui'.pending = ui.pending
             \/ ui'.pending = None /\ stage[p] = "scan" /\ scan[p] = "over"

Goes(p) ==
    /\ stage[p] = "scan" /\ stage'[p] = "recover" /\ reply'[p] = NoReply
    /\ \A q \in Calls \ {p} : stage'[q] = stage[q] /\ reply'[q] = reply[q]
    /\ UNCHANGED <<scan, subject, ui, drawn, result, refs, code, version, aborted, discharged>>

Abandons(p) ==
    /\ Returns(p) /\ Obsolete(p)
    /\ UNCHANGED <<ui, result, latch, discharged>>

LEMMA ReturnShape ==
    ASSUME TypeInv, NEW p \in Calls, Running(p), Return(p), ui' \in Screens, latch' \in BOOLEAN,
           result' \in {None} \cup [code : Codes, member : Members], discharged' \in SUBSET Calls,
           UNCHANGED <<service, scan, subject, drawn, generation, controller, code, turns, changes>>
    PROVE  Returns(p) /\ TypeOK'
  <1> USE TypeParts, TypePartsNext DEF TypeInv
  <1>1. Returns(p)
    BY DEF ServiceOK, DeviceOK, Return, Returns
  <1>2. NoReply \in [kind : Refused \cup {"none", "checked_in", "absent"}, member : Members \cup {None}]
    BY DEF NoReply
  <1>3. ServiceOK'
    BY <1>2 DEF ServiceOK, Return, service
  <1>4. DeviceOK'
    BY DEF DeviceOK, Return, Stages
  <1>5. QED
    BY <1>1, <1>3, <1>4

LEMMA SettleShape ==
    ASSUME TypeInv, NEW p \in Calls, Settle(p)
    PROVE  (Ends(p) \/ Goes(p) \/ Abandons(p)) /\ TypeOK'
  <1> USE TypeParts, TypePartsNext DEF TypeInv
  <1>1. ASSUME NEW screen \in Screens, End(p, screen), Running(p), ~Obsolete(p), drawn = ui,
               \/ /\ screen.pending = None /\ reply[p].kind = "checked_in"
                  /\ result' = [code |-> code[p], member |-> reply[p].member]
                  /\ discharged' = discharged \cup {q \in Calls : stage[q] # "unused" /\ code[q] = code[p]}
               \/ /\ UNCHANGED <<result, discharged>>
                  /\ \/ screen.pending = ui.pending
                     \/ screen.pending = None /\ stage[p] = "scan" /\ scan[p] = "over"
        PROVE  Ends(p) /\ TypeOK'
    <2>1. ui' \in Screens /\ ui'.pending = screen.pending /\ ui'.busy = FALSE
      BY <1>1 DEF End, Screens
    <2>2. result' \in {None} \cup [code : Codes, member : Members] /\ discharged' \in SUBSET Calls
      BY <1>1 DEF CallsHold, ServiceOK, DeviceOK
    <2>3. Returns(p) /\ TypeOK'
      BY <1>1, <2>1, <2>2, ReturnShape DEF End
    <2>4. QED
      BY <1>1, <2>1, <2>3 DEF Ends, End
  <1>2. /\ [ui EXCEPT !.pending = None] \in Screens /\ [ui EXCEPT !.pending = None].pending = None
        /\ [ui EXCEPT !.limited = TRUE] \in Screens
        /\ [ui EXCEPT !.limited = TRUE].pending = ui.pending
        /\ [ui EXCEPT !.limited = TRUE, !.pending = None] \in Screens
        /\ [ui EXCEPT !.limited = TRUE, !.pending = None].pending = None
        /\ [ui EXCEPT !.closed = TRUE, !.pending = None] \in Screens
        /\ [ui EXCEPT !.closed = TRUE, !.pending = None].pending = None
        /\ ui \in Screens
    BY DEF DeviceOK, Screens
  <1>3. CASE ScanAnswered(p)
    <2>1. stage[p] = "scan" /\ Running(p) /\ ~Obsolete(p) /\ drawn = ui
      BY <1>3 DEF ScanAnswered, Awaits, Running
    <2>2. CASE reply[p].kind = "checked_in" /\ Confirm(p)
      BY <1>1, <1>2, <2>1, <2>2 DEF Confirm
    <2>3. ASSUME reply[p].kind \in Refused, NEW screen \in Screens, screen.pending = None, Fail(p, screen)
          PROVE  Ends(p) /\ TypeOK'
      <3>1. scan[p] = "over"
        BY <2>1, <2>3 DEF CallsHold
      <3>2. QED
        BY <1>1, <2>1, <2>3, <3>1 DEF Fail
    <2>4. QED
      BY <1>2, <1>3, <2>2, <2>3 DEF ScanAnswered, Refused
  <1>4. CASE ScanUncertain(p)
    <2>1. NoReply \in [kind : Refused \cup {"none", "checked_in", "absent"}, member : Members \cup {None}]
      BY DEF NoReply
    <2>2. ServiceOK' /\ DeviceOK'
      BY <1>4, <2>1 DEF ScanUncertain, ServiceOK, DeviceOK, Stages, service, refs
    <2>3. Goes(p)
      BY <1>4 DEF ScanUncertain, Goes, Awaits, ServiceOK, DeviceOK
    <2>4. QED
      BY <2>2, <2>3
  <1>5. CASE StatusAnswered(p) \/ StatusUncertain(p)
    <2>1. Running(p) /\ ~Obsolete(p) /\ drawn = ui
      BY <1>5 DEF StatusAnswered, StatusUncertain, Awaits, Running
    <2>2. CASE reply[p].kind = "checked_in" /\ Confirm(p)
      BY <1>1, <1>2, <2>1, <2>2 DEF Confirm
    <2>3. CASE Fail(p, ui) \/ Fail(p, [ui EXCEPT !.limited = TRUE])
      BY <1>1, <1>2, <2>1, <2>3 DEF Fail
    <2>4. QED
      BY <1>5, <2>2, <2>3 DEF StatusAnswered, StatusUncertain
  <1>6. CASE Abandon(p)
    <2>1. Returns(p) /\ TypeOK'
      BY <1>6, ReturnShape DEF Abandon, DeviceOK, ServiceOK, refs
    <2>2. QED
      BY <1>6, <2>1 DEF Abandon, Abandons, refs
  <1>7. QED
    BY <1>3, <1>4, <1>5, <1>6 DEF Settle

(* The operator leaves a recovery.                                         *)
Leaves ==
    /\ drawn.pending \in Codes /\ ~drawn.busy
    /\ ui' = [ui EXCEPT !.pending = None]
    /\ discharged' = discharged \cup {p \in Calls : stage[p] # "unused" /\ code[p] = drawn.pending}
    /\ UNCHANGED <<wire, drawn, result, refs, process>>

(* A drawing, which may make the calls obsolete and free the latch.        *)
Draws ==
    /\ drawn' = ui /\ ui'.pending = ui.pending
    /\ \/ drawn.active = ui.active /\ UNCHANGED <<latch, generation, aborted>>
       \/ /\ drawn.active # ui.active /\ generation' = generation + 1
          /\ aborted \subseteq aborted' /\ \A p \in aborted' \ aborted : Running(p)
          /\ IF ui.active THEN latch' = latch ELSE ~latch'
    /\ UNCHANGED <<wire, result, controller, stage, code, version, discharged>>

(* Nothing that matters to a call.                                         *)
Stays ==
    /\ ui'.pending = ui.pending /\ drawn'.pending = drawn.pending
    /\ drawn'.busy = drawn.busy /\ drawn'.active = drawn.active
    /\ UNCHANGED <<wire, result, refs, process, discharged>>

(* The screen is taken away and put up again.                              *)
Remounts ==
    /\ generation' = generation + 1 /\ ~latch'
    /\ aborted \subseteq aborted' /\ \A p \in aborted' \ aborted : Running(p)
    /\ ui'.pending = None /\ drawn'.pending = None /\ result' = None
    /\ discharged' = discharged \cup {p \in Calls : stage[p] # "unused" /\ code[p] = ui.pending}
    /\ UNCHANGED <<wire, stage, code, version>>

LEMMA ScreenShape ==
    ASSUME TypeInv,
           \/ LeaveRecovery \/ Draw \/ Turn \/ Remount
           \/ RetryTimeComes \/ Elsewhere \/ UNCHANGED vars
    PROVE  (Leaves \/ Draws \/ Remounts \/ Stays) /\ TypeOK'
  <1> USE TypeParts, TypePartsNext DEF TypeInv
  <1>1. CASE LeaveRecovery
    <2>1. ui' \in Screens /\ drawn.pending \in Codes
      BY <1>1 DEF LeaveRecovery, DeviceOK, Screens
    <2>2. ServiceOK' /\ DeviceOK'
      BY <1>1, <2>1 DEF LeaveRecovery, ServiceOK, DeviceOK, service, wire, refs, process
    <2>3. QED
      BY <1>1, <2>1, <2>2 DEF LeaveRecovery, Leaves
  <1>2. CASE Draw
    <2>1. ui' \in Screens /\ ui'.pending = ui.pending
      BY <1>2 DEF Draw, FreeLatch, DeviceOK, Screens
    <2>2. CASE drawn.active = ui.active
      <3>1. ServiceOK' /\ DeviceOK'
        BY <1>2, <2>1, <2>2 DEF Draw, ServiceOK, DeviceOK, service, wire
      <3>2. QED
        BY <1>2, <2>1, <2>2, <3>1 DEF Draw, Draws
    <2>3. CASE drawn.active # ui.active
      <3>1. /\ DropCalls /\ FreeLatch /\ drawn' = ui
            /\ UNCHANGED <<service, wire, result, controller, stage, code, version, turns, changes,
                           discharged>>
        BY <1>2, <2>3 DEF Draw
      <3>2. ServiceOK'
        BY <3>1 DEF ServiceOK, service, wire
      <3>3. latch' \in BOOLEAN /\ (IF ui.active THEN latch' = latch ELSE ~latch')
        BY <3>1 DEF FreeLatch, DeviceOK
      <3>4. DeviceOK'
        BY <2>1, <3>1, <3>3 DEF DropCalls, DeviceOK
      <3>5. QED
        BY <2>1, <2>3, <3>1, <3>2, <3>3, <3>4 DEF Draws, DropCalls
    <2>4. QED
      BY <2>2, <2>3
  <1>3. CASE Turn
    <2>1. ui' \in Screens /\ ui'.pending = ui.pending
      BY <1>3 DEF Turn, DeviceOK, Screens
    <2>2. ServiceOK' /\ DeviceOK'
      BY <1>3, <2>1, BoundsType DEF Turn, ServiceOK, DeviceOK, service, wire, refs, process
    <2>3. QED
      BY <1>3, <2>1, <2>2 DEF Turn, Stays
  <1>4. CASE RetryTimeComes
    <2>1. /\ ui' \in Screens /\ ui'.pending = ui.pending
          /\ drawn' \in Screens /\ drawn'.pending = drawn.pending
          /\ drawn'.busy = drawn.busy /\ drawn'.active = drawn.active
      BY <1>4 DEF RetryTimeComes, DeviceOK, Screens
    <2>2. ServiceOK' /\ DeviceOK'
      BY <1>4, <2>1 DEF RetryTimeComes, ServiceOK, DeviceOK, service, wire, refs, process
    <2>3. QED
      BY <1>4, <2>1, <2>2 DEF RetryTimeComes, Stays
  <1>5. CASE Elsewhere
    <2>1. Stays /\ DeviceOK' /\ UNCHANGED <<turns, discharged, wire>>
      BY <1>5 DEF Elsewhere, Stays, DeviceOK, refs, process
    <2>2. changes' \in 0 .. MaxChanges
      BY <1>5, BoundsType DEF Elsewhere, ServiceOK
    <2>3. holder' \in [Codes -> Members \cup {None}] /\ present' \in SUBSET Members /\ open' \in BOOLEAN
      <3>1. ASSUME NEW c \in Codes, NEW m \in Members \cup {None},
                   holder' = [d \in Codes |->
                                 IF d = c THEN m ELSE IF holder[d] = m THEN None ELSE holder[d]]
            PROVE  holder' \in [Codes -> Members \cup {None}]
        BY <3>1 DEF ServiceOK
      <3>2. QED
        BY <1>5, <3>1 DEF Elsewhere, ServiceOK
    <2>4. ServiceOK'
      BY <2>1, <2>2, <2>3 DEF ServiceOK, wire
    <2>5. QED
      BY <2>1, <2>4
  <1>6. CASE UNCHANGED vars
    BY <1>6 DEF vars, service, wire, refs, process, Stays, ServiceOK, DeviceOK
  <1>7. CASE Remount
    <2>1. ui.active \in BOOLEAN
      BY DEF DeviceOK, Screens
    <2>2. /\ ui' \in Screens /\ drawn' \in Screens
          /\ ui'.pending = None /\ drawn'.pending = None
      BY <1>7, <2>1 DEF Remount, Fresh, Screens
    <2>3. ServiceOK'
      BY <1>7, BoundsType DEF Remount, ServiceOK, service, wire
    <2>4. DeviceOK'
      <3>1. /\ generation' = generation + 1 /\ aborted' \subseteq aborted \cup Calls
            /\ latch' \in BOOLEAN /\ result' = None /\ controller' = None
            /\ stage' = stage /\ code' = code /\ version' = version
        BY <1>7 DEF Remount, DropCalls
      <3>2. generation' \in Nat /\ aborted' \in SUBSET Calls
        BY <3>1 DEF DeviceOK
      <3>3. QED
        BY <2>2, <3>1, <3>2 DEF DeviceOK
    <2>5. Remounts
      BY <1>7, <2>2 DEF Remount, DropCalls, Remounts
    <2>6. QED
      BY <2>3, <2>4, <2>5
  <1>8. QED
    BY <1>1, <1>2, <1>3, <1>4, <1>5, <1>6, <1>7

(* Every step has one of these shapes.                                     *)
LEMMA NextSteps ==
    ASSUME TypeInv, [Next]_vars
    PROVE  /\ TypeOK'
           /\ \/ \E p \in Calls :
                    \/ \E c \in Codes :
                           /\ Begins(p, c, "scan") /\ drawn.pending = None
                           /\ scan' = [scan EXCEPT ![p] = "sent"] /\ UNCHANGED subject
                    \/ /\ Begins(p, drawn.pending, "status") /\ UNCHANGED <<scan, subject>>
                       /\ drawn.pending \in Codes /\ ~drawn.busy
                    \/ Serves(p) \/ Ends(p) \/ Goes(p) \/ Abandons(p)
              \/ Leaves \/ Draws \/ Remounts \/ Stays
  BY ScanShape, CheckStatusShape, ServeShape, SettleShape, ScreenShape DEF Next
-----------------------------------------------------------------------------
(* Types.                                                                  *)

LEMMA TypeStep ==
    ASSUME TypeInv, [Next]_vars
    PROVE  TypeInv'
  <1> USE DEF TypeInv
  <1>1. TypeOK'
    BY NextSteps
  <1>2. \A p \in Calls : p \in Nat /\ version[p] \in Nat /\ generation \in Nat
    BY BoundsType DEF TypeOK, Calls
  <1>3. ASSUME NEW p \in Calls, NEW c \in Codes, NEW first \in {"scan", "status"},
               Begins(p, c, first), UNCHANGED subject,
               \A q \in Calls \ {p} : scan'[q] = scan[q],
               scan'[p] = "sent" \/ scan'[p] = scan[p]
        PROVE  CallsHold'
    <2>1. scan[p] = "none" /\ reply[p] = NoReply /\ NoReply.kind = "none"
      BY <1>3 DEF Begins, CallsHold, NoReply
    <2>2. ASSUME NEW q \in Calls
          PROVE  /\ stage'[q] = "unused" => scan'[q] = "none" /\ reply'[q] = NoReply /\ version'[q] = 0
                 /\ scan'[q] = "resolved" => subject'[q] \in Members
                 /\ reply'[q].kind = "checked_in" => reply'[q].member \in Members
                 /\ stage'[q] = "scan" /\ reply'[q].kind \in Refused => scan'[q] = "over"
                 /\ version'[q] <= generation'
                 /\ q \in aborted' => Running(q)'
      <3>1. CASE q = p
        BY <1>2, <1>3, <2>1, <3>1 DEF Begins, CallsHold, Refused, Running
      <3>2. CASE q # p
        BY <1>2, <1>3, <3>2 DEF Begins, CallsHold, Running
      <3>3. QED
        BY <3>1, <3>2
    <2>3. ASSUME NEW q \in Calls, NEW r \in Calls, r < q, stage'[q] # "unused"
          PROVE  stage'[r] # "unused"
      BY <1>3, <2>3 DEF Begins, CallsHold
    <2>4. QED
      BY <2>2, <2>3 DEF CallsHold
  <1>4. ASSUME NEW p \in Calls, Serves(p) PROVE CallsHold'
    <2>1. UNCHANGED <<stage, version, generation, aborted>>
      BY <1>4 DEF Serves, refs, process
    <2>2. ASSUME NEW q \in Calls
          PROVE  /\ stage[q] = "unused" => scan'[q] = "none" /\ reply'[q] = NoReply
                 /\ scan'[q] = "resolved" => subject'[q] \in Members
                 /\ reply'[q].kind = "checked_in" => reply'[q].member \in Members
                 /\ stage[q] = "scan" /\ reply'[q].kind \in Refused => scan'[q] = "over"
      <3>1. CASE q = p
        BY <1>4, <3>1 DEF Serves, CallsHold, Running, Refused
      <3>2. CASE q # p
        BY <1>4, <3>2 DEF Serves, CallsHold
      <3>3. QED
        BY <3>1, <3>2
    <2>3. QED
      BY <2>1, <2>2 DEF CallsHold, Running
  <1>5. ASSUME NEW p \in Calls, Returns(p), generation' = generation PROVE CallsHold'
    <2>1. NoReply.kind = "none" /\ 0 <= generation
      BY <1>2, <1>5 DEF NoReply
    <2>2. QED
      BY <1>5, <2>1 DEF Returns, CallsHold, Refused, Running
  <1>6. ASSUME NEW p \in Calls, Goes(p) PROVE CallsHold'
    <2>1. NoReply.kind = "none"
      BY DEF NoReply
    <2>2. QED
      BY <1>6, <2>1 DEF Goes, CallsHold, Refused, Running, refs
  <1>7. CASE Leaves \/ Stays
    <2>1. UNCHANGED <<scan, subject, reply, stage, version, generation, aborted>>
      BY <1>7 DEF Leaves, Stays, wire, refs, process
    <2>2. QED
      BY <1>1, <2>1 DEF CallsHold, Running
  <1>8. CASE Draws \/ Remounts
    <2>1. generation <= generation' /\ generation' \in Nat
      BY <1>1, <1>8, <1>2 DEF Draws, Remounts, TypeOK
    <2>2. UNCHANGED <<scan, subject, reply, stage, version>>
      BY <1>8 DEF Draws, Remounts, wire
    <2>3. ASSUME NEW p \in Calls
          PROVE  version'[p] <= generation' /\ (p \in aborted' => Running(p)')
      <3>1. version'[p] <= generation'
        BY <1>2, <1>8, <2>1, <2>2 DEF CallsHold
      <3>2. p \in aborted' => Running(p)'
        BY <1>8, <2>2 DEF Draws, Remounts, CallsHold, Running
      <3>3. QED
        BY <3>1, <3>2
    <2>4. QED
      BY <1>1, <2>2, <2>3 DEF CallsHold
  <1>9. CASE \E p \in Calls, c \in Codes :
                 /\ Begins(p, c, "scan") /\ scan' = [scan EXCEPT ![p] = "sent"] /\ UNCHANGED subject
    <2>1. PICK p \in Calls, c \in Codes :
              /\ Begins(p, c, "scan") /\ scan' = [scan EXCEPT ![p] = "sent"] /\ UNCHANGED subject
      BY <1>9
    <2>2. /\ scan'[p] = "sent" /\ \A q \in Calls \ {p} : scan'[q] = scan[q]
          /\ "scan" \in {"scan", "status"}
      BY <2>1 DEF TypeOK
    <2>3. CallsHold'
      BY <1>3, <2>1, <2>2
    <2>4. QED
      BY <1>1, <2>3
  <1>10. QED
    BY <1>1, <1>3, <1>4, <1>5, <1>6, <1>7, <1>8, <1>9, NextSteps DEF Ends, Abandons, Returns

(* Types (ScanCheckIn).                                                    *)
THEOREM TypeCorrect == Spec => []TypeOK
  <1>1. TypeInv => TypeOK
    BY DEF TypeInv
  <1>2. TypeInv /\ [Next]_vars => TypeInv'
    BY TypeStep
  <1>3. QED
    BY TypeInit, <1>1, <1>2, PTL DEF Spec
-----------------------------------------------------------------------------
(* The latch.                                                              *)

Current(p) == Running(p) /\ ~Obsolete(p)

LatchInv ==
    /\ LatchHeldByCurrent
    /\ ~drawn.active => ~latch

LEMMA LatchStep ==
    ASSUME TypeInv, LatchInv, [Next]_vars
    PROVE  LatchInv'
  <1> USE DEF LatchInv, LatchHeldByCurrent
  <1>1. TypeInv'
    BY TypeStep
  <1>2. ASSUME NEW p \in Calls, NEW c, NEW first \in {"scan", "status"}, Begins(p, c, first)
        PROVE  LatchInv'
    <2>1. \A q \in Calls : ~(Running(q) /\ ~Obsolete(q))
      BY <1>2 DEF Begins
    <2>2. Running(p)' /\ ~Obsolete(p)' /\ latch' /\ drawn' = drawn
      BY <1>2 DEF Begins, TypeInv, CallsHold, Running, Obsolete
    <2>3. \A q \in Calls \ {p} : ~(Running(q)' /\ ~Obsolete(q)')
      BY <1>2, <2>1 DEF Begins, Running, Obsolete
    <2>4. QED
      BY <1>2, <2>2, <2>3 DEF Begins
  <1>3. ASSUME NEW p \in Calls, Serves(p) PROVE LatchInv'
    BY <1>3 DEF Serves, refs, process, Running, Obsolete
  <1>4. ASSUME NEW p \in Calls, Returns(p)
        PROVE  /\ ~Running(p)'
               /\ \A q \in Calls \ {p} :
                      (Running(q)' /\ ~Obsolete(q)') <=> (Running(q) /\ ~Obsolete(q))
    BY <1>4 DEF Returns, Running, Obsolete
  <1>5. ASSUME NEW p \in Calls, Ends(p) PROVE LatchInv'
    BY <1>4, <1>5 DEF Ends, Returns
  <1>6. ASSUME NEW p \in Calls, Abandons(p) PROVE LatchInv'
    BY <1>4, <1>6 DEF Abandons, Returns
  <1>7. ASSUME NEW p \in Calls, Goes(p) PROVE LatchInv'
    BY <1>7 DEF Goes, refs, Running, Obsolete
  <1>8. CASE Leaves \/ Stays
    BY <1>8 DEF Leaves, Stays, refs, process, Running, Obsolete
  <1>9. CASE Draws
    <2>1. CASE drawn.active = ui.active
      BY <1>9, <2>1 DEF Draws, Running, Obsolete
    <2>2. CASE drawn.active # ui.active
      <3>1. generation' = generation + 1 /\ version' = version /\ drawn' = ui
        BY <1>9, <2>2 DEF Draws
      <3>2. ASSUME NEW p \in Calls PROVE Obsolete(p)'
        BY <3>1 DEF TypeInv, TypeOK, CallsHold, Obsolete
      <3>3. ~latch'
        BY <1>9, <2>2 DEF Draws, TypeInv, TypeOK, Screens
      <3>4. QED
        BY <3>2, <3>3
    <2>3. QED
      BY <2>1, <2>2
  <1>10. CASE Remounts
    <2>1. ASSUME NEW p \in Calls PROVE Obsolete(p)'
      BY <1>10 DEF Remounts, TypeInv, TypeOK, CallsHold, Obsolete
    <2>2. ~latch'
      BY <1>10 DEF Remounts
    <2>3. QED
      BY <2>1, <2>2
  <1>11. QED
    BY <1>2, <1>3, <1>5, <1>6, <1>7, <1>8, <1>9, <1>10, NextSteps

(* One call at a time is current, and it is current exactly while the      *)
(* latch is held (ScanCheckIn.process, its effect on becoming inactive).   *)
THEOREM LatchIsHeld == Spec => []LatchHeldByCurrent
  <1>1. Init => LatchInv
    BY DEF Init, LatchInv, LatchHeldByCurrent, Running
  <1>2. LatchInv => LatchHeldByCurrent
    BY DEF LatchInv
  <1>3. TypeInv /\ LatchInv /\ [Next]_vars => TypeInv' /\ LatchInv'
    BY TypeStep, LatchStep
  <1>4. QED
    BY TypeInit, <1>1, <1>2, <1>3, PTL DEF Spec
-----------------------------------------------------------------------------
(* The screen: which codes can be pending while a call is current, while a *)
(* drawing is behind, and while what became of a scan is uncertain.        *)

(* The screen still owes the operator what became of a scan that was or    *)
(* may yet be carried out.                                                 *)
Owed(p) == scan[p] \in {"sent", "resolved", "carried_out"} /\ p \notin discharged

CurrentIsLast ==
    \A p \in Calls : Current(p) =>
        /\ \A q \in Calls : q > p => stage[q] = "unused"
        /\ ui.pending \in {None, code[p]}
        /\ stage[p] = "scan" => \A q \in Calls \ {p} : ~Owed(q)

DrawnPending ==
    /\ drawn.pending # None /\ ~drawn.busy => ui.pending \in {None, drawn.pending}
    /\ drawn.pending = None /\ ~latch => ui.pending = None

OwedIsPending == \A p \in Calls : Owed(p) => ui.pending = code[p]

ScreenInv == CurrentIsLast /\ DrawnPending /\ OwedIsPending /\ ResultOfLastScan

(* What a step leaves of the calls, unless one begins.                     *)
Keeps(p) ==
    /\ code' = code
    /\ stage[p] = "unused" <=> stage'[p] = "unused"
    /\ Owed(p)' => Owed(p)
    /\ Current(p)' => Current(p)
    /\ stage'[p] = "scan" => stage[p] = "scan"

LEMMA KeepsCalls ==
    ASSUME TypeInv,
           \/ \E p \in Calls : Serves(p) \/ Ends(p) \/ Goes(p) \/ Abandons(p)
           \/ Leaves \/ Draws \/ Remounts \/ Stays
    PROVE  \A q \in Calls : Keeps(q)
  <1> SUFFICES ASSUME NEW q \in Calls PROVE Keeps(q)
    OBVIOUS
  <1> USE DEF Keeps, Owed, Current, Running, Obsolete
  <1>1. ASSUME NEW p \in Calls, Serves(p) PROVE Keeps(q)
    BY <1>1 DEF Serves, refs, process
  <1>2. ASSUME NEW p \in Calls, Ends(p) PROVE Keeps(q)
    BY <1>2 DEF Ends, Returns
  <1>3. ASSUME NEW p \in Calls, Goes(p) PROVE Keeps(q)
    BY <1>3 DEF Goes, refs
  <1>4. ASSUME NEW p \in Calls, Abandons(p) PROVE Keeps(q)
    BY <1>4 DEF Abandons, Returns
  <1>5. CASE Leaves \/ Stays
    BY <1>5 DEF Leaves, Stays, wire, refs, process
  <1>6. CASE Draws
    <2>1. CASE drawn.active = ui.active
      BY <1>6, <2>1 DEF Draws, wire
    <2>2. CASE drawn.active # ui.active
      <3>1. version' = version /\ generation' = generation + 1
        BY <1>6, <2>2 DEF Draws
      <3>2. Obsolete(q)'
        BY <3>1 DEF TypeInv, TypeOK, CallsHold
      <3>3. QED
        BY <1>6, <3>2 DEF Draws, wire
    <2>3. QED
      BY <2>1, <2>2
  <1>7. CASE Remounts
    <2>1. Obsolete(q)'
      BY <1>7 DEF Remounts, TypeInv, TypeOK, CallsHold
    <2>2. QED
      BY <1>7, <2>1 DEF Remounts, wire
  <1>8. QED
    BY <1>1, <1>2, <1>3, <1>4, <1>5, <1>6, <1>7

(* It does not disturb the screen either, unless it empties `pending`.     *)
LEMMA KeepsScreen ==
    ASSUME ScreenInv, \A q \in Calls : Keeps(q),
           ui'.pending = ui.pending \/ (ui'.pending = None /\ \A q \in Calls : ~Owed(q)')
    PROVE  CurrentIsLast' /\ OwedIsPending'
  <1>1. CurrentIsLast'
    BY DEF ScreenInv, CurrentIsLast, Keeps
  <1>2. OwedIsPending'
    BY DEF ScreenInv, OwedIsPending, Keeps
  <1>3. QED
    BY <1>1, <1>2

LEMMA KeepsResult ==
    ASSUME ScreenInv, \A q \in Calls : Keeps(q), UNCHANGED result
    PROVE  ResultOfLastScan'
  BY DEF ScreenInv, ResultOfLastScan, Keeps

(* What is owed is pending, and its call has begun.                        *)
LEMMA OwedAreUsed ==
    ASSUME TypeInv, ScreenInv, NEW q \in Calls, Owed(q)
    PROVE  /\ stage[q] # "unused" /\ code[q] \in Codes /\ code[q] # None
           /\ ui.pending = code[q]
  BY CodesType DEF TypeInv, TypeOK, CallsHold, Owed, ScreenInv, OwedIsPending

LEMMA BeginsKeepsScreen ==
    ASSUME TypeInv, LatchInv, ScreenInv, NEW p \in Calls, NEW c \in Codes, NEW first,
           Begins(p, c, first),
           \/ /\ first = "scan" /\ drawn.pending = None
              /\ scan' = [scan EXCEPT ![p] = "sent"]
           \/ /\ first = "status" /\ UNCHANGED scan /\ c = drawn.pending /\ ~drawn.busy
    PROVE  ScreenInv'
  <1>1. /\ \A q \in Calls \ {p} : ~Current(q)'
        /\ \A q \in Calls : q > p => stage'[q] = "unused"
    <2>1. \A q \in Calls : ~Current(q)
      BY DEF Begins, LatchInv, LatchHeldByCurrent, Current
    <2>2. \A q \in Calls \ {p} : ~Current(q)'
      BY <2>1 DEF Begins, Current, Running, Obsolete
    <2>3. \A q \in Calls : q > p => stage[q] = "unused" /\ q # p
      BY BoundsType DEF Begins, TypeInv, CallsHold, Calls
    <2>4. QED
      BY <2>2, <2>3 DEF Begins
  <1>2. /\ ui'.pending = c /\ code'[p] = c /\ c # None /\ drawn' = drawn /\ latch'
        /\ \A q \in Calls \ {p} : code'[q] = code[q] /\ discharged' = discharged
    BY CodesType DEF Begins, TypeInv, TypeOK, Screens
  <1>3. ASSUME NEW q \in Calls, q # p
        PROVE  /\ Owed(q)' <=> Owed(q)
               /\ Owed(q) => code[q] = c
               /\ first = "scan" => ~Owed(q)
    <2>1. Owed(q)' <=> Owed(q)
      BY <1>2, <1>3 DEF Owed, TypeInv, TypeOK
    <2>2. ~latch
      BY DEF Begins
    <2>3. QED
      BY <1>2, <2>1, <2>2, OwedAreUsed DEF ScreenInv, DrawnPending
  <1>4. CurrentIsLast'
    BY <1>1, <1>2, <1>3 DEF CurrentIsLast, Begins
  <1>5. DrawnPending'
    BY <1>2 DEF DrawnPending
  <1>6. OwedIsPending'
    <2>1. ASSUME NEW q \in Calls, Owed(q)' PROVE ui'.pending = code'[q]
      BY <1>2, <1>3, <2>1
    <2>2. QED
      BY <2>1 DEF OwedIsPending
  <1>7. ResultOfLastScan'
    BY DEF Begins, ResultOfLastScan
  <1>8. QED
    BY <1>4, <1>5, <1>6, <1>7 DEF ScreenInv

LEMMA EndsKeepsScreen ==
    ASSUME TypeInv, ScreenInv, NEW p \in Calls, Ends(p)
    PROVE  ScreenInv'
  <1>1. \A q \in Calls : Keeps(q)
    BY KeepsCalls
  <1>2. Current(p) /\ drawn = ui /\ UNCHANGED <<drawn, scan, code>> /\ code[p] \in Codes
    BY DEF Ends, Returns, Current, TypeInv, TypeOK
  <1>3. CASE /\ ui'.pending = None /\ result'.code = code[p]
             /\ discharged' = discharged \cup {q \in Calls : stage[q] # "unused" /\ code[q] = code[p]}
    <2>1. ASSUME NEW q \in Calls PROVE ~Owed(q)'
      <3>1. Owed(q) => code[q] = code[p] /\ stage[q] # "unused"
        BY <1>2, OwedAreUsed DEF ScreenInv, CurrentIsLast
      <3>2. QED
        BY <1>2, <1>3, <3>1 DEF Owed
    <2>2. CurrentIsLast' /\ OwedIsPending'
      BY <1>1, <1>3, <2>1, KeepsScreen
    <2>3. DrawnPending'
      BY <1>3 DEF DrawnPending
    <2>4. ResultOfLastScan'
      <3>1. ASSUME NEW r \in Calls, stage'[r] # "unused",
                   \A q \in Calls : q > r => stage'[q] = "unused"
            PROVE  result'.code = code'[r]
        <4>1. stage[r] # "unused" /\ stage[p] # "unused" /\ stage'[p] # "unused"
          BY <1>1, <1>2, <3>1 DEF Keeps, Current, Running
        <4>2. ~(r > p) /\ ~(p > r)
          BY <1>2, <3>1, <4>1 DEF ScreenInv, CurrentIsLast
        <4>3. r = p
          BY <4>2, BoundsType DEF Calls
        <4>4. QED
          BY <1>2, <1>3, <4>3
      <3>2. QED
        BY <3>1 DEF ResultOfLastScan
    <2>5. QED
      BY <2>2, <2>3, <2>4 DEF ScreenInv
  <1>4. CASE UNCHANGED <<result, discharged>> /\ ui'.pending = ui.pending
    <2>1. DrawnPending'
      BY <1>2, <1>4 DEF DrawnPending
    <2>2. QED
      BY <1>1, <1>4, <2>1, KeepsScreen, KeepsResult DEF ScreenInv
  <1>5. CASE /\ UNCHANGED <<result, discharged>> /\ ui'.pending = None
             /\ stage[p] = "scan" /\ scan[p] = "over"
    <2>1. ASSUME NEW q \in Calls PROVE ~Owed(q)'
      <3>1. CASE q = p
        BY <1>2, <1>5, <3>1 DEF Owed
      <3>2. CASE q # p
        BY <1>1, <1>2, <1>5, <3>2 DEF ScreenInv, CurrentIsLast, Keeps
      <3>3. QED
        BY <3>1, <3>2
    <2>2. DrawnPending'
      BY <1>5 DEF DrawnPending
    <2>3. QED
      BY <1>1, <1>5, <2>1, <2>2, KeepsScreen, KeepsResult DEF ScreenInv
  <1>6. QED
    BY <1>3, <1>4, <1>5 DEF Ends

LEMMA ScreenStep ==
    ASSUME TypeInv, LatchInv, ScreenInv, [Next]_vars
    PROVE  ScreenInv'
  <1>1. CASE \E p \in Calls, c \in Codes :
                 /\ Begins(p, c, "scan") /\ drawn.pending = None
                 /\ scan' = [scan EXCEPT ![p] = "sent"]
    BY <1>1, BeginsKeepsScreen
  <1>2. CASE \E p \in Calls :
                 /\ Begins(p, drawn.pending, "status") /\ UNCHANGED scan
                 /\ drawn.pending \in Codes /\ ~drawn.busy
    BY <1>2, BeginsKeepsScreen
  <1>3. ASSUME NEW p \in Calls, Serves(p) \/ Goes(p) \/ Abandons(p)
        PROVE  ScreenInv'
    <2>1. UNCHANGED <<ui, drawn, result, latch>>
      BY <1>3 DEF Serves, Goes, Abandons, Returns, refs
    <2>2. \A q \in Calls : Keeps(q)
      BY <1>3, KeepsCalls
    <2>3. DrawnPending'
      BY <2>1 DEF ScreenInv, DrawnPending
    <2>4. QED
      BY <2>1, <2>2, <2>3, KeepsScreen, KeepsResult DEF ScreenInv
  <1>4. CASE Leaves
    <2>1. \A q \in Calls : Keeps(q)
      BY <1>4, KeepsCalls
    <2>2. ui'.pending = None /\ UNCHANGED <<drawn, result, scan>>
      BY <1>4 DEF Leaves, wire, TypeInv, TypeOK, Screens
    <2>3. ASSUME NEW q \in Calls PROVE ~Owed(q)'
      <3>1. drawn.pending # None /\ ~drawn.busy
        BY <1>4, CodesType DEF Leaves
      <3>2. Owed(q) => code[q] = drawn.pending /\ stage[q] # "unused"
        BY <3>1, OwedAreUsed DEF ScreenInv, DrawnPending
      <3>3. QED
        BY <1>4, <2>2, <3>2 DEF Leaves, Owed
    <2>4. DrawnPending'
      BY <2>2 DEF DrawnPending
    <2>5. QED
      BY <2>1, <2>2, <2>3, <2>4, KeepsScreen, KeepsResult DEF ScreenInv
  <1>5. CASE Draws \/ Stays
    <2>1. \A q \in Calls : Keeps(q)
      BY <1>5, KeepsCalls
    <2>2. ui'.pending = ui.pending /\ UNCHANGED result
      BY <1>5 DEF Draws, Stays
    <2>3. DrawnPending'
      BY <1>5 DEF Draws, Stays, ScreenInv, DrawnPending, refs
    <2>4. QED
      BY <2>1, <2>2, <2>3, KeepsScreen, KeepsResult DEF ScreenInv
  <1>6. CASE Remounts
    <2>1. \A q \in Calls : Keeps(q)
      BY <1>6, KeepsCalls
    <2>2. /\ ui'.pending = None /\ drawn'.pending = None /\ result' = None
          /\ UNCHANGED scan
      BY <1>6 DEF Remounts, wire
    <2>3. ASSUME NEW q \in Calls PROVE ~Owed(q)'
      <3>1. Owed(q) => code[q] = ui.pending /\ stage[q] # "unused"
        BY OwedAreUsed
      <3>2. QED
        BY <1>6, <2>2, <3>1 DEF Remounts, Owed
    <2>4. DrawnPending' /\ ResultOfLastScan'
      BY <2>2 DEF DrawnPending, ResultOfLastScan
    <2>5. QED
      BY <2>1, <2>2, <2>3, <2>4, KeepsScreen DEF ScreenInv
  <1>7. QED
    BY <1>1, <1>2, <1>3, <1>4, <1>5, <1>6, EndsKeepsScreen, NextSteps

IInv == TypeInv /\ LatchInv /\ ScreenInv

LEMMA InitInv == Init => IInv
  <1> SUFFICES ASSUME Init PROVE IInv
    OBVIOUS
  <1>1. LatchInv
    BY DEF Init, LatchInv, LatchHeldByCurrent, Running
  <1>2. ScreenInv
    BY DEF Init, ScreenInv, CurrentIsLast, DrawnPending, OwedIsPending, ResultOfLastScan,
           Current, Running, Owed
  <1>3. QED
    BY <1>1, <1>2, TypeInit DEF IInv

LEMMA StepInv == IInv /\ [Next]_vars => IInv'
  BY TypeStep, LatchStep, ScreenStep DEF IInv

(* What the screen confirms is the code that was processed last            *)
(* (ScanCheckIn.process).                                                  *)
THEOREM ResultIsLast == Spec => []ResultOfLastScan
  <1>1. IInv => ResultOfLastScan
    BY DEF IInv, ScreenInv
  <1>2. QED
    BY InitInv, StepInv, <1>1, PTL DEF Spec

(* A check-in that was carried out is confirmed to the operator, pending   *)
(* or left for a review, unless it was pending when the screen was taken   *)
(* away (ScanCheckIn.process, recover, the clean-up).                      *)
THEOREM CarriedOutIsKnown == Spec => []CarriedOutNotForgotten
  <1>1. IInv => CarriedOutNotForgotten
    BY DEF IInv, ScreenInv, OwedIsPending, Owed, CarriedOutNotForgotten
  <1>2. QED
    BY InitInv, StepInv, <1>1, PTL DEF Spec

(* No code is scanned while the screen has an earlier one pending          *)
(* (ScanCheckIn, the scan input's `disabled`).                             *)
THEOREM UncertainFirst == Spec => NoScanWhilePending
  <1>1. IInv /\ [Next]_vars =>
            [\A p \in Calls : scan[p] = "none" /\ scan'[p] = "sent" => ui.pending = None]_vars
    <2> SUFFICES ASSUME IInv, [Next]_vars, NEW p \in Calls, scan[p] = "none", scan'[p] = "sent"
                 PROVE  ui.pending = None
      OBVIOUS
    <2>1. ~latch /\ drawn.pending = None
      BY NextSteps DEF IInv, Begins, Serves, Ends, Abandons, Returns, Goes, Leaves, Draws, Remounts,
                       Stays, wire
    <2>2. QED
      BY <2>1 DEF IInv, ScreenInv, DrawnPending
  <1>2. QED
    BY InitInv, StepInv, <1>1, PTL DEF Spec, NoScanWhilePending
=============================================================================

--------------------------- MODULE AttendanceLedger ---------------------------
(***************************************************************************)
(* What check-in promises, without handlers, documents or ETags.           *)
(*                                                                         *)
(* A slot is one member at one occurrence.  Its ledger is the sequence of  *)
(* check-ins and undos that were accepted there; it only grows, and the    *)
(* two kinds of entry alternate, beginning with a check-in.  While the     *)
(* member is present the slot keeps the snapshot taken by the check-in     *)
(* that made it so.  A request is granted when it has made its entry, and  *)
(* it makes one entry.                                                     *)
(***************************************************************************)
EXTENDS Sequences

CONSTANTS
    Slots,          \* the (occurrence, member) pairs
    Requests,       \* requests, each of which is one call of the API
    Snapshots,      \* group snapshots a receipt may carry
    Absent          \* the presence of a member who is not checked in

VARIABLES
    ledger,         \* for each slot, its accepted entries in order
    presence,       \* for each slot, the snapshot of the present member or Absent
    granted         \* the requests that made an entry

vars == <<ledger, presence, granted>>

Init ==
    /\ ledger = [s \in Slots |-> <<>>]
    /\ presence = [s \in Slots |-> Absent]
    /\ granted = {}

Enter(r, s, action) ==
    /\ r \notin granted
    /\ granted' = granted \cup {r}
    /\ ledger' = [ledger EXCEPT ![s] = Append(@, [action |-> action, at |-> r])]

(* The member was absent and is present with snapshot g, checked in by r.  *)
Attend(r, s, g) ==
    /\ presence[s] = Absent
    /\ presence' = [presence EXCEPT ![s] = [groups |-> g, at |-> r]]
    /\ Enter(r, s, "checked_in")

(* The member was present and is absent.                                   *)
Leave(r, s) ==
    /\ presence[s] # Absent
    /\ presence' = [presence EXCEPT ![s] = Absent]
    /\ Enter(r, s, "undone")

Next ==
    \E r \in Requests, s \in Slots :
        \/ \E g \in Snapshots : Attend(r, s, g)
        \/ Leave(r, s)

Spec == Init /\ [][Next]_vars

=============================================================================

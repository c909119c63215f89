--------------------------- MODULE DuplicateEditor ---------------------------
(***************************************************************************)
(* The Duplicate members screen.  Two active members of the list are shown *)
(* side by side; one is kept, fields that differ may be taken from the     *)
(* other, and the merge is confirmed.  The pair stays as it was when it    *)
(* was opened, also after an error.                                        *)
(***************************************************************************)
EXTENDS Editing

MergeBusy == Pending({"merge"})

(* The list of members does not tell their scan codes.                     *)
Redacted(d) == [d EXCEPT !.value = "none"]

(* Pairs of active members, each once, with one name and one contact in    *)
(* common; here any two may have.                                          *)
Candidates ==
    LET known == {i \in Ids : listed[i] # Nothing /\ listed[i].active}
    IN  {pair \in known \X known : pair[1] < pair[2]}

OpenPair ==
    /\ ~Open /\ drafts < MaxDrafts[screen]
    /\ drafts' = drafts + 1
    /\ \E pair \in Candidates :
          ed' = [NewEditor(Redacted(listed[pair[1]]), "none", TRUE) EXCEPT
                    !.other = Redacted(listed[pair[2]])]
    /\ UNCHANGED <<screen, server, listed, wire, awaits, losses>>

(* Either card may be tapped, also while a merge is under way: every pick  *)
(* is the keeper's again.                                                  *)
ChooseKeeper ==
    /\ \E keeper \in {ed.doc, ed.other} :
          Drawn([ed EXCEPT !.doc = keeper,
                           !.other = IF keeper = ed.doc THEN ed.other ELSE ed.doc,
                           !.basis = keeper.edits, !.dirty = FALSE, !.asked = {},
                           !.err["merge"] = "none"])
    /\ InEditor

(* A draft with a field of the other member is "dirty".                    *)
PickField ==
    /\ Drawn([ed EXCEPT !.dirty = ~@])
    /\ InEditor

AskToMerge == AskTo("merge")

BackFromMerge == Keep("merge")

(* keeperUpdate: the keeper as listed, with the fields picked, and only    *)
(* when there are any.                                                     *)
Merge ==
    /\ "merge" \in ed.asked
    /\ Mutate("merge", [Request("merge") EXCEPT
           !.agreed = ed.dirty, !.other = ed.other.id, !.otherTag = ed.other.etag])
    /\ Drawn(ed)

DuplicateStep ==
    \/ OpenPair \/ CloseSheet(MergeBusy)
    \/ /\ Open
       /\ \/ ChooseKeeper \/ PickField \/ AskToMerge \/ BackFromMerge \/ Merge
          \/ CloseOn("merge")
=============================================================================

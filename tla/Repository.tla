----------------------------- MODULE Repository -----------------------------
(***************************************************************************)
(* The contract of IRepository<T>: conditional writes of one document.     *)
(*                                                                         *)
(* A stored document is a record with an `etag` field; a key that holds no *)
(* document holds NoDocument.  Every successful write gives the document   *)
(* an ETag no earlier version of it had, so an ETag names one version of   *)
(* one document.  The operators below say when a write is accepted and     *)
(* what a refused write answers.  Both providers decide and write in one   *)
(* step: the in-memory one under its lock, Cosmos by the IfMatch option of *)
(* the item operation (its earlier read only answers the same refusal      *)
(* sooner).                                                                *)
(***************************************************************************)
EXTENDS Naturals

CONSTANT NoDocument     \* what a key without a document holds

(***************************************************************************)
(* Create is get-or-create: it writes only where there is no document.     *)
(***************************************************************************)
MayCreateAnywhere(stored) == TRUE       \* fault: an upsert

MayCreate(stored) == stored = NoDocument

(***************************************************************************)
(* Replace needs the ETag of the version that is stored now.               *)
(***************************************************************************)
MayReplaceAnyVersion(stored, etag) == stored # NoDocument   \* fault: no If-Match

MayReplace(stored, etag) ==
    /\ stored # NoDocument
    /\ stored.etag = etag

ReplaceRefusal(stored) ==
    IF stored = NoDocument THEN "not_found" ELSE "stale_version"

(***************************************************************************)
(* Transfer removes one document and writes another, both or neither.  The *)
(* caller passes its copy of the document to remove, and its copy of the   *)
(* one the written document takes the place of (NoDocument if it saw none).*)
(***************************************************************************)
MayTransferOver(from, copy, to, replaced) ==    \* fault: whatever is there is replaced
    MayReplace(from, copy.etag)

MayTransfer(from, copy, to, replaced) ==
    /\ MayReplace(from, copy.etag)
    /\ IF replaced = NoDocument
       THEN to = NoDocument
       ELSE MayReplace(to, replaced.etag)

TransferRefusal(from, copy, to, replaced) ==
    IF ~MayReplace(from, copy.etag) THEN ReplaceRefusal(from)
    ELSE IF replaced = NoDocument THEN "already_exists"
    ELSE ReplaceRefusal(to)

=============================================================================

------------------------------ MODULE Records ------------------------------
(***************************************************************************)
(* The records that may follow a receipt: the receipt file itself, declared*)
(* derived artefacts and the evidence ledger of the receipt's work item,   *)
(* to which `attach` adds the receipt. A bound receipt is [path, digest]:  *)
(* the path it was read from ("body" outside the tree) and the digest of   *)
(* its bytes, by which w.docs knows it. An attachment is [digest, path,    *)
(* delivery].                                                              *)
(***************************************************************************)
EXTENDS Exemption

ReceiptHead(w, r) == w.docs[r.digest].head

(* The work item whose ledger the tree's path "ledger" is. *)
WorkItem == "W"

(* The newest bound receipt that covers the ledger: what it saw is compared against, not the base. *)
CoveredLedgerAnchor(w, bound) ==
    LET candidates ==
          {ReceiptHead(w, r) : r \in {x \in bound :
             LET d == w.docs[x.digest]
             IN  /\ d.mode = "diff" /\ d.base = w.base /\ d.work_item = WorkItem
                 /\ "ledger" \in d.files
                 /\ IsAncestor(w.cs, w.base, d.head) /\ IsAncestor(w.cs, d.head, w.head)
                 /\ Has(w.cs[d.head].tree, "ledger")
                 /\ "ledger" \in Names(w.cs, w.base, d.head)}}
        latest == {h \in candidates : \A o \in candidates : IsAncestor(w.cs, o, h)}
    IN  IF latest = {} THEN w.base ELSE CHOOSE h \in latest : TRUE

AttachmentDigests(l) == {a.digest : a \in l.attachments}

(* A record commit may add the evidence of the bound receipts; it keeps every other row as the anchor has it. *)
LedgerRecordDocument(new, old, bound) ==
    LET mine == {r.digest : r \in bound}
    IN  /\ \A a \in new.attachments : a.digest \in mine \/ a \in old.attachments
        /\ AttachmentDigests(old) \subseteq AttachmentDigests(new)

(* A broken form: what the base holds is history, and not what the receipts saw. *)
LedgerRecordPathFromBase(w, anchor, bound) ==
    /\ w.program
    /\ \E r \in bound : w.docs[r.digest].work_item = WorkItem
    /\ Has(HeadTree(w), "ledger")
    /\ LedgerRecordDocument(HeadTree(w).ledger, BaseTree(w).ledger, bound)

LedgerRecordPath(w, anchor, bound) ==
    /\ w.program
    /\ \E r \in bound : w.docs[r.digest].work_item = WorkItem
    /\ Has(HeadTree(w), "ledger")
    /\ LedgerRecordDocument(HeadTree(w).ledger, w.cs[anchor].tree.ledger, bound)

(* The commits no bound receipt has seen, the paths they touch, and which of those are records. *)
TrailingCommits(w, bound) ==
    IF bound = {} THEN {}
    ELSE RangeCommits(w.cs, w.base, w.head) \ UNION {w.cs[ReceiptHead(w, r)].anc : r \in bound}

TrailingPaths(w, bound) ==
    (UNION {Touched(w.cs, c) : c \in TrailingCommits(w, bound)}) \cap Names(w.cs, w.base, w.head)

(* The bound receipts that are files of head, byte for byte. *)
OwnReceiptPaths(w, bound) == {r.path : r \in {x \in bound : x.path \in ReceiptPaths /\ HeadTree(w)[x.path] = x.digest}}

TrailingRecords(w, bound) ==
    LET paths == TrailingPaths(w, bound)
        receipts == OwnReceiptPaths(w, bound)
        ledger == IF "ledger" \in paths /\ LedgerRecordPath(w, CoveredLedgerAnchor(w, bound), bound)
                  THEN {"ledger"} ELSE {}
        decl == ReadDeclaration(BaseTree(w))
        derived == {p \in paths \ (receipts \cup ledger) : RecordPath(w, decl, p, FALSE)}
        derivedOk == IF VerifyDeclaredArtefacts(w, decl, derived) = "verified" THEN derived ELSE {}
    IN  receipts \cup ledger \cup derivedOk

(* A broken form: a path some receipt lists may be edited behind it. *)
EditedAfterUnlisted(w, bound) ==
    TrailingPaths(w, bound) \ (TrailingRecords(w, bound) \cup UNION {w.docs[r.digest].files : r \in bound})

EditedAfterReceiptHead(w, bound) == TrailingPaths(w, bound) \ TrailingRecords(w, bound)

(* What C06 does not ask a receipt to list: records no receipt's own range contains. *)
RecordPaths(w, bound) ==
    (TrailingPaths(w, bound) \cap TrailingRecords(w, bound))
        \ UNION {Names(w.cs, w.base, ReceiptHead(w, r)) : r \in bound}

----------------------------------------------------------------------------
(* Attaching a receipt to its work item.                                   *)

LedgerLookup(t, d) == {a \in t.ledger.attachments : a.digest = d}

NotPosted == "not_measured"

BuildAttachment(r) == [digest |-> r.digest, path |-> r.path, delivery |-> NotPosted]

(* The POST to Muneral: created, refused, or unanswered (it may have landed; the route is idempotent). *)
MuneralDeliver(answer) == IF answer = "created" THEN "posted" ELSE IF answer = "silent" THEN NotPosted ELSE "failed"

(* Rows of the same receipt file with other bytes: history when the anchor has them, superseded otherwise. *)
StaleFor(l, att) == {a \in l.attachments : a.path = att.path /\ a.digest # att.digest}

(* A row of the same digest is replaced by a copy of the attachment, a new one is the attachment itself. *)
MergeAttachment(l, att, anchor) ==
    LET superseded == StaleFor(l, att) \ anchor.attachments
        kept == {a \in l.attachments : a.digest # att.digest} \ superseded
    IN  [ledger |-> [has |-> TRUE, attachments |-> kept \cup {att}],
         refreshed |-> att.digest \in AttachmentDigests(l)]

(* The answer reaches the row only when the row is the attachment itself. *)
RecordDelivery(merged, att, answer) ==
    IF merged.refreshed \/ answer = "not asked" THEN merged.ledger
    ELSE [merged.ledger EXCEPT !.attachments = (@ \ {att}) \cup {[att EXCEPT !.delivery = MuneralDeliver(answer)]}]

MatchAutomatedAuthor(w) == w.author = "bot"

AnchorLedger(w, bound) == w.cs[CoveredLedgerAnchor(w, bound)].tree.ledger

AttachMerged(w, bound, r) == MergeAttachment(HeadTree(w).ledger, BuildAttachment(r), AnchorLedger(w, bound))

(* What `attach` refuses before it asks or writes anything; explicit says that the candidates were named. *)
AttachRefused(w, bound, unbound, explicit, r) ==
    LET anchor == AnchorLedger(w, bound)
        digests == {x.digest : x \in bound}
    IN  \/ MatchAutomatedAuthor(w)
        \/ explicit /\ unbound # {}
        \/ r \notin bound
        \/ w.docs[r.digest].work_item # WorkItem
        \/ r.path \notin ReceiptPaths
        \/ \E a \in BaseTree(w).ledger.attachments \ anchor.attachments : a.digest \notin digests
        \/ ~LedgerRecordDocument(AttachMerged(w, bound, r).ledger, anchor, bound)

(* The merged ledger with what Muneral answered, which is held against the same rule once more. *)
AttachDelivered(w, bound, r, answer) == RecordDelivery(AttachMerged(w, bound, r), BuildAttachment(r), answer)

(* The ledgers that `attach` may write over the working copy: none when it refuses. *)
CmdAttach(w, bound, unbound, explicit, r, answer) ==
    IF AttachRefused(w, bound, unbound, explicit, r) THEN {}
    ELSE {l \in {AttachDelivered(w, bound, r, answer)} : LedgerRecordDocument(l, AnchorLedger(w, bound), bound)}
=============================================================================

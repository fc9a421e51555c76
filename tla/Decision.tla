------------------------------ MODULE Decision ------------------------------
(***************************************************************************)
(* Receipts and what is written into them after they are issued.           *)
(*                                                                         *)
(* A receipt is [id, mode, base, head, files, work_item, rows, boundary,   *)
(* cashed, admission, x, dec]: the range it was measured on and the paths  *)
(* it lists, the verdict of every entity it has a row for (an entity is    *)
(* named by its path), the entities reached over an inferred boundary, the *)
(* canaries it cashes, its own admission, its structural exemption and its *)
(* signed decisions. `exempt` and `exempt-decision` rewrite the file: the  *)
(* result has the same id and another digest.                              *)
(***************************************************************************)
EXTENDS Records

NoDecision == [has |-> FALSE, entities |-> {}, class |-> "none", binding |-> NoBinding, signer |-> "none",
               until |-> 0, id |-> 0]

(* The admission that verify and both exempt commands compute from what is left unexempted. *)
Admission(rows, exempted, synth) ==
    LET left == {rows[e] : e \in DOMAIN rows \ exempted} \ {"verified"}
    IN  IF "failed" \in left THEN "refused"
        ELSE IF left # {} \/ (DOMAIN rows = {} /\ ~synth) THEN "paused_safe"
        ELSE IF exempted = {} /\ ~synth THEN "admitted" ELSE "admitted_with_exemptions"

(* The repository's units, all of which a lockfile change reaches. *)
Units(t) == {p \in {"src"} : Has(t, p)}

(* A unit that fails its verifiers at base and at head and that no change reaches (w.legacy: there is one). *)
Legacy == "legacy"

(* What verify.py finds for one entity at a commit: the source by its verifiers, a hooked file by a canary. *)
Measured(w, t, p) ==
    CASE p = "src" -> Chk(~Clash(t))
      [] p = "new" -> IF t.can.has /\ t.can.measured = t.src THEN "verified" ELSE "not_measured"
      [] OTHER -> "not_measured"

(* The document at the path this run writes to, when it is an earlier receipt of the same work item: it owes no
   verdict, although its file is part of the change. *)
SupersededSelf(w, b, h, out, item) ==
    LET present == {t \in {w.cs[b].tree, w.cs[h].tree} : Has(t, out)}
    IN  IF /\ out \in ReceiptIssue /\ item # "none" /\ present # {}
           /\ \A t \in present : w.docs[t[out]].work_item = item
        THEN {out} ELSE {}

(* The receipt a measurement of base..head produces: a row for every changed or reached entity that exists there. *)
Reached(t, files) ==
    (files \cap {"src", "bundle", "wf", "caller", "ra", "rb", "arc"})
      \cup (IF "new" \in files /\ t.new = "hooked" THEN {"new"} ELSE {})
      \cup (IF "lock" \in files THEN Units(t) ELSE {})

MeasuredRows(w, t, files, excluded) ==
    [e \in {p \in Reached(t, files) \ excluded : Has(t, p)} \cup (IF w.legacy /\ "lock" \in files THEN {Legacy} ELSE {})
       |-> IF e = Legacy THEN "failed" ELSE Measured(w, t, e)]

ReceiptOf(b, h, files, item, id, rows) ==
    [id |-> id, mode |-> "diff", base |-> b, head |-> h, files |-> files, work_item |-> item,
     rows |-> rows, boundary |-> DOMAIN rows \cap {"new"},
     cashed |-> IF \E e \in DOMAIN rows \cap {"new"} : rows[e] = "verified" THEN {"canary"} ELSE {},
     admission |-> Admission(rows, {}, FALSE), x |-> NoExemption, dec |-> NoDecision]

MeasuredFiles(w, b, h, out, item, id, files) ==
    ReceiptOf(b, h, files, item, id, MeasuredRows(w, w.cs[h].tree, files, SupersededSelf(w, b, h, out, item)))

MeasuredChangeReceipt(w, b, h, out, item, id) ==
    MeasuredFiles(w, b, h, out, item, id, DOMAIN RangeFiles(w.cs, b, h))

(* `exempt`: the structural exemption replaces an earlier one, other exemptions stay. *)
WithExemption(d, x) ==
    IF x.code = "none" THEN d
    ELSE [d EXCEPT !.x = x, !.admission = Admission(d.rows, x.entities \cup d.dec.entities, TRUE)]

CmdExempt(w, d, range, authority, so) == WithExemption(d, StructuralExemption(w, DOMAIN d.rows, range, authority, so))

----------------------------------------------------------------------------
(* Decisions to proceed: a signature over one not_measured verdict.        *)

(* Who may sign: the policy at base in the program's own repository, so that a change cannot enrol the key that
   admits it, and the pinned bundle's policy elsewhere. *)
DecisionSigners(w, b) == IF w.program THEN w.cs[b].tree.bundle.signers ELSE HeadTree(w).bundle.signers

(* Why an entity was not measured, as far as the classes tell reasons apart. *)
MeasuredReason(p) == IF p \in ReceiptPaths THEN "I14" ELSE IF p = "new" THEN "no canary" ELSE "no verifier"

DecisionEligibility(w, d, e, class) ==
    /\ class \in {"historical_receipt", "no_live_contour"}
    /\ e \in DOMAIN d.rows /\ d.rows[e] = "not_measured"
    /\ e # "ledger"
    /\ class = "historical_receipt" =>
         /\ e \in ReceiptPaths /\ MeasuredReason(e) = "I14"
         /\ e \in DOMAIN RangeFiles(w.cs, d.base, d.head) /\ RangeFiles(w.cs, d.base, d.head)[e] = "A"
    /\ class = "no_live_contour" => MeasuredReason(e) = "no canary" /\ w.origin \notin {"auth", "muneral"}

DecisionBinding(w, d) == [base |-> d.base, head |-> d.head, digest |-> DiffDigest(w.cs, d.base, d.head)]

(* What C21 finds wrong with a signed decision, as the gate sees it now. *)
VerifyDecisionExemption(w, d) ==
    /\ d.dec.signer \in DecisionSigners(w, w.base)
    /\ d.dec.until > w.now
    /\ d.dec.binding = DecisionBinding(w, d)
    /\ d.dec.id = d.id
    /\ \A e \in d.dec.entities : DecisionEligibility(w, d, e, d.dec.class)

(* `exempt-decision`: the signer must be enrolled where the receipt starts, and everything named be eligible. *)
WithDecision(d, dec, x) ==
    [d EXCEPT !.x = x, !.dec = dec, !.admission = Admission(d.rows, x.entities \cup dec.entities, x.code # "none")]

CmdExemptDecision(w, d, entities, class, signer, ttl) ==
    IF signer \notin DecisionSigners(w, d.base) \/ entities = {} \/ ~\A e \in entities : DecisionEligibility(w, d, e, class)
    THEN d
    ELSE WithDecision(d, [has |-> TRUE, entities |-> entities, class |-> class, binding |-> DecisionBinding(w, d),
                          signer |-> signer, until |-> w.now + ttl, id |-> d.id],
                      [d.x EXCEPT !.entities = @ \ entities])
=============================================================================

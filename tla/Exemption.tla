----------------------------- MODULE Exemption -----------------------------
(***************************************************************************)
(* The structural exemption of a receipt: what `exempt` issues for a       *)
(* structural case and what the gate (C16) requires of it. An exemption    *)
(* names the entities it covers, the synthesized entity of its case (by    *)
(* the commit it was issued at) and the diff it is bound to; it expires    *)
(* with that diff.                                                         *)
(***************************************************************************)
EXTENDS Structural

NoBinding == [base |-> 0, head |-> 0, digest |-> [p \in {} |-> <<"", 0>>]]

(* The second authority's verdict on an amendment of the declaration, and the range it was replayed on. *)
NoOpinion == [has |-> FALSE, authority |-> "none", binding |-> NoBinding, range |-> <<0, 0>>,
              verdict |-> "none", op |-> "none"]

NoExemption == [code |-> "none", entities |-> {}, synth |-> 0, binding |-> NoBinding, range |-> <<0, 0>>,
                authority |-> "none", opinion |-> NoOpinion]

Binding(w, h) == [base |-> w.base, head |-> h, digest |-> DiffDigest(w.cs, w.base, h)]

----------------------------------------------------------------------------
(* B1 to B8: a refresh of the bundle.                                      *)

(* A broken form: the new bundle's own keys vouch for it. *)
KeyContinuityOfHead(w) ==
    IF ~BaseTree(w).bundle.has \/ ~HeadTree(w).bundle.has THEN "not_measured"
    ELSE Chk(HeadTree(w).bundle.by \cap HeadTree(w).bundle.keys # {})

(* B2: the head manifest carries a signature that a key of the base bundle verifies, with base's own code. *)
KeyContinuity(w) ==
    IF ~BaseTree(w).bundle.has \/ ~HeadTree(w).bundle.has \/ BaseTree(w).bundle.keys = {} THEN "not_measured"
    ELSE Chk(HeadTree(w).bundle.by \cap BaseTree(w).bundle.keys # {})

(* B3: the bundle's own selftest passed; it measured no arm when it printed no usable summary. *)
SelfUpdateSelftest(w) ==
    LET head == HeadTree(w).bundle
    IN  IF ~head.has \/ head.arms = 0 THEN "not_measured" ELSE Chk(head.pass)

(* B4: no check of the policy is dropped and the battery does not shrink. *)
SelfUpdateMonotonic(w) ==
    LET old == BaseTree(w).bundle  new == HeadTree(w).bundle
        unmeasured == old.arms = 0 \/ new.arms = 0
    IN  IF ~old.has \/ ~new.has THEN "not_measured"
        ELSE IF ~(old.ids \subseteq new.ids) \/ (~unmeasured /\ new.arms < old.arms) THEN "failed"
        ELSE IF unmeasured THEN "not_measured" ELSE "verified"

(* B8: the executing workflow at head has the bytes the signed manifest at head records. *)
WorkflowIntegrity(w) ==
    LET man == HeadTree(w).bundle
    IN  IF ~man.has THEN "not_measured" ELSE Chk(man.wf # 0 => HeadTree(w).wf = man.wf)

(* B1, B1M, B6, B2, B3, B4 and B8. *)
EvaluateSelfUpdate(w, split) ==
    /\ split.real = {}
    /\ split.merge \in {"verified", "vacuous"}
    /\ EvaluateDerived(w, split.derived, DeclarationInForce(w), "gate_self_update") = "verified"
    /\ KeyContinuity(w) = "verified"
    /\ SelfUpdateSelftest(w) = "verified"
    /\ SelfUpdateMonotonic(w) = "verified"
    /\ WorkflowIntegrity(w) = "verified"

----------------------------------------------------------------------------
(* B7: an amendment of the declaration, and of nothing else.               *)

(* The sole wildcard of the old pattern gained a literal constraint. *)
GlobNarrows(old, new) == <<old, new>> \in {<<"*", "gen*">>, <<"*", "src*">>}

Entries(decl, paths) == {a \in decl.artefacts : a.path \in paths}

(* The closed grammar: one entry added, one removed, or one glob narrowed. *)
ClassifyGrammar(old, new) ==
    LET was == {a.path : a \in old.artefacts}  now == {a.path : a \in new.artefacts}
        added == now \ was  removed == was \ now
        changed == Entries(old, was \cap now) # Entries(new, was \cap now)
        grown == {r \in Entries(old, removed) \X Entries(new, added) :
                     [r[1] EXCEPT !.path = "*"] = [r[2] EXCEPT !.path = "*"] /\ GlobNarrows(r[1].path, r[2].path)}
    IN  IF changed THEN "invalid"
        ELSE IF Cardinality(added) = 1 /\ removed = {} /\ \A a \in Entries(new, added) : a.argv THEN "add"
        ELSE IF added = {} /\ Cardinality(removed) = 1 THEN "remove"
        ELSE IF Cardinality(added) = 1 /\ Cardinality(removed) = 1 /\ grown # {} THEN "narrow_glob"
        ELSE "invalid"

Granted(w) == HeadTree(w).decl.artefacts \ BaseTree(w).decl.artefacts

(* A bare wildcard, or a pattern that matches under or sits at a source root. *)
CoversSourceRoot(pattern) == pattern \in {"*", "src*"}

MatchCandidate(pattern, changed) ==
    IF pattern \in Globs
    THEN {p \in changed : pattern = "*" \/ <<pattern, p>> \in {<<"gen*", "gen">>, <<"src*", "src">>}}
    ELSE changed \cap {pattern}

(* The arms B6.2 to B6.6 replayed on the diff that motivated the amendment, as if the entry were declared. *)
ReplayArms(c, entry, matched) ==
    IF matched = {} THEN "not_measured"
    ELSE WorstArm(Range(Tail(DerivedArms(c, matched,
           [decl |-> [has |-> TRUE, artefacts |-> {[entry EXCEPT !.path = p] : p \in matched}], boot |-> FALSE], ""))))

Replay(c, entry) == ReplayArms(c, entry, MatchCandidate(entry.path, DOMAIN Files(c)))

DryRun(w, entry, range) == Replay([w EXCEPT !.base = range[1], !.head = range[2]], entry)

(* B7.4: a removal needs no dry run; without a candidate range there is nothing to replay. *)
DryRunArm(w, op, range) ==
    IF op = "remove" THEN "verified"
    ELSE IF range = <<0, 0>> THEN "not_measured"
    ELSE DryRun(w, CHOOSE a \in Granted(w) : TRUE, range)

(* B7.5: another authority came to the same verdict on exactly this diff. *)
SecondAuthority(w, op, range, authority, so) ==
    IF ~so.has THEN "not_measured"
    ELSE Chk(/\ authority # "none" /\ so.authority # "none" /\ authority # so.authority
             /\ so.binding = Binding(w, w.head)
             /\ range # <<0, 0>> => so.range = range
             /\ so.verdict = "verified"
             /\ so.op = op)

(* B7.1 to B7.4, which is what the second authority answers for. *)
AmendmentHolds(w, range) ==
    LET op == ClassifyGrammar(BaseTree(w).decl, HeadTree(w).decl)
    IN  /\ DOMAIN Files(w) = {"decl"} /\ Files(w)["decl"] = "M" /\ HeadTree(w).decl.has
        /\ op # "invalid"
        /\ op \in {"add", "narrow_glob"} => \A a \in Granted(w) : ~CoversSourceRoot(a.path)
        /\ DryRunArm(w, op, range) = "verified"

EvaluateDeclarationAmend(w, range, authority, so) ==
    /\ AmendmentHolds(w, range)
    /\ SecondAuthority(w, ClassifyGrammar(BaseTree(w).decl, HeadTree(w).decl), range, authority, so) = "verified"

(* `b7-opine`: the second authority judges the diff itself and signs what it found. *)
Opine(w, range, authority) ==
    [has |-> TRUE, authority |-> authority, binding |-> Binding(w, w.head), range |-> range,
     verdict |-> IF AmendmentHolds(w, range) THEN "verified" ELSE "not_verified",
     op |-> ClassifyGrammar(BaseTree(w).decl, HeadTree(w).decl)]

----------------------------------------------------------------------------
(* Issuing and re-measuring.                                               *)

EvaluateStructural(w, case, split, range, authority, so) ==
    CASE case = "no_impact_by_construction" -> EvaluateNoImpact(w)
      [] case = "spent_receipt_archive" -> EvaluateSpentReceiptArchive(w)
      [] case = "declaration_amend" -> EvaluateDeclarationAmend(w, range, authority, so)
      [] case = "gate_self_update" -> EvaluateSelfUpdate(w, split)
      [] OTHER -> FALSE

(* Node types the verifier matrix gives no mandatory verifier: receipts and work items. *)
MatrixDeclaredUnverifiable == ReceiptPaths \cup {"can", "ledger"}

(* The entities of a receipt that a case may exempt beside its own synthesized one. *)
StructuralCoveredEntities(w, case, split, entities) ==
    CASE case = "gate_self_update" -> entities \cap (Managed(w) \cup split.pins \cup MatrixDeclaredUnverifiable)
      [] case = "spent_receipt_archive" -> entities \cap MatrixDeclaredUnverifiable
      [] OTHER -> {}

(* What `exempt` adds to a receipt: nothing for an ordinary change or one whose evidence does not hold. *)
ExemptCase(w, case, split, entities, range, authority, so) ==
    IF ~EvaluateStructural(w, case, split, range, authority, so) THEN NoExemption
    ELSE [code |-> case, entities |-> StructuralCoveredEntities(w, case, split, entities), synth |-> w.head,
          binding |-> Binding(w, w.head), range |-> range, authority |-> authority, opinion |-> so]

ExemptSplit(w, split, entities, range, authority, so) ==
    ExemptCase(w, StructuralCase(w, split), split, entities, range, authority, so)

StructuralExemption(w, entities, range, authority, so) ==
    ExemptSplit(w, SplitOutside(w), entities, range, authority, so)

(* The receipt a refresh files about itself moves the head past the diff the exemption is bound to: the range up
   to the receipt's own head is admissible too, when only record paths follow it. *)
RecordExtra(w, split, receiptHead) == Names(w.cs, receiptHead, w.head) \ split.receipt

RecordRange(w, case, split, receiptHead) ==
    /\ case = "gate_self_update" /\ split.receipt # {} /\ receiptHead # w.head
    /\ receiptHead \in RangeCommits(w.cs, w.base, w.head)
    /\ split.receipt \subseteq Names(w.cs, receiptHead, w.head)
    /\ \A p \in RecordExtra(w, split, receiptHead) : RecordPath(w, ReadDeclaration(BaseTree(w)), p, TRUE)

(* A record path is proved by the run B6 made of its verifier, on the honest and on the corrupted tree. *)
DerivedRunVerdict(w, split, entry) ==
    /\ entry.path \in split.derived
    /\ RunDeclared(w, entry, HeadTree(w)) = 0
    /\ CorruptOneByte(w, entry, HeadTree(w)) \notin {0, -1}

(* At most two ranges may be bound: the whole one, and the one up to the receipt's own head. *)
AdmissibleRanges(w, heads) == {Binding(w, h) : h \in heads}

(* C16: the exemption binds this diff, is of this change's own case, covers no more than it may and the whole
   battery passes again, here and now. *)
RecheckRange(w, x, entities, receiptHead, split, case, heads) ==
    /\ x.binding \in AdmissibleRanges(w, heads)
    /\ x.code = case
    /\ x.entities \subseteq StructuralCoveredEntities(w, case, split, entities)
    /\ x.synth \in heads
    /\ EvaluateStructural(w, case, split, x.range, x.authority, x.opinion)
    /\ receiptHead \in heads \ {w.head} /\ x.binding.head = receiptHead =>
         \A p \in RecordExtra(w, split, receiptHead) :
           DerivedRunVerdict(w, split, Entry(DeclarationInForce(w).decl, p))

RecheckCase(w, x, entities, receiptHead, split, case) ==
    RecheckRange(w, x, entities, receiptHead, split, case,
                 {w.head} \cup (IF RecordRange(w, case, split, receiptHead) THEN {receiptHead} ELSE {}))

RecheckSplit(w, x, entities, receiptHead, split) == RecheckCase(w, x, entities, receiptHead, split, StructuralCase(w, split))

RecheckStructural(w, x, entities, receiptHead) == RecheckSplit(w, x, entities, receiptHead, SplitOutside(w))
=============================================================================

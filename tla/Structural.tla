----------------------------- MODULE Structural -----------------------------
(***************************************************************************)
(* The structural cases of admit_change.py: changes whose impact cannot be *)
(* computed and which are exempted by re-measured evidence instead: new    *)
(* files nobody refers to, a refresh of the gate's own bundle, an          *)
(* amendment of the declaration of derived artefacts, and the archiving of *)
(* a spent receipt. `exempt` issues the exemption, the gate (C16) measures *)
(* everything again.                                                       *)
(*                                                                         *)
(* A world w is what one invocation works on: the commits cs, the range   *)
(* base..head and the tip main of the base branch; whether the clone knows *)
(* its base branch; whether the declared verifiers can be run here (tools);*)
(* the caller's verifier job and its conclusion; the repository's origin;  *)
(* and docs, the receipts that were issued, by digest.                     *)
(*                                                                         *)
(* A check is "verified", "failed" or "not_measured" (_chk with True,      *)
(* False and None); an evaluation is eligible when the checks it names are *)
(* all verified.                                                           *)
(***************************************************************************)
EXTENDS Repo, Functions

Chk(ok) == IF ok THEN "verified" ELSE "failed"

BaseTree(w) == w.cs[w.base].tree
HeadTree(w) == w.cs[w.head].tree
Files(w) == RangeFiles(w.cs, w.base, w.head)

----------------------------------------------------------------------------
(* The declaration of derived artefacts. An entry is [path, argv, binds,   *)
(* job, runs]: whether it names a verifier, whether that verifier really   *)
(* recomputes the bytes, the job it belongs to, and the file it executes.  *)

Globs == {"gen*", "src*", "*"}

ReadDeclaration(t) == t.decl

(* The declaration at base, or the one a bootstrapping change adds. *)
InForce(base, head, files) ==
    IF ~base.has /\ "decl" \in DOMAIN files /\ files["decl"] = "A" THEN [decl |-> head, boot |-> head.has]
    ELSE [decl |-> base, boot |-> FALSE]

DeclarationInForce(w) == InForce(ReadDeclaration(BaseTree(w)), ReadDeclaration(HeadTree(w)), Files(w))

UsableEntry(a) == a.path \notin Globs /\ a.argv

DeclaredArtefacts(decl) == {a \in decl.artefacts : UsableEntry(a)}

Declared(decl) == {a.path : a \in DeclaredArtefacts(decl)}

BadEntries(decl) == {a \in decl.artefacts : ~UsableEntry(a)}

Entry(decl, p) == CHOOSE a \in DeclaredArtefacts(decl) : a.path = p

(* What a declared verifier says of a tree: it accepts a generated file that is up to date, and a verifier that
   does not bind the bytes accepts everything. *)
Accepts(a, t) == ~a.binds \/ a.path # "gen" \/ t.gen = t.src

(* Running it: 0, 1, or -1 for a run that timed out or could not start. *)
RunDeclared(w, a, t) == IF ~w.tools THEN -1 ELSE IF Accepts(a, t) THEN 0 ELSE 1

(* The same run after one byte of the artefact was flipped. *)
CorruptOneByte(w, a, t) == IF ~w.tools THEN -1 ELSE IF a.binds THEN 1 ELSE 0

(* Files that reach existing behaviour at head: what the graph built there shows as referenced from outside. *)
Referenced(t) == {"src"} \cup (IF t.new = "hooked" THEN {"new"} ELSE {})

(* Every declared artefact of `paths` is accepted at head and refused with one byte corrupted. *)
VerifyDeclaredArtefacts(w, decl, paths) ==
    IF \E p \in paths : RunDeclared(w, Entry(decl, p), HeadTree(w)) # 0 THEN "failed"
    ELSE Chk(\A p \in paths : CorruptOneByte(w, Entry(decl, p), HeadTree(w)) \notin {0, -1})

(* B6.1: which declaration licenses the derived paths, never one this change widens. *)
LicenceArm(files, derived, force, case) ==
    Chk(/\ force.decl.has
        /\ "decl" \in DOMAIN files => files["decl"] = "A" /\ case = "gate_self_update"
        /\ BadEntries(force.decl) = {}
        /\ derived \subseteq Declared(force.decl))

(* B6.2 and B6.3: refreshed in place, and nothing depends on it at head. *)
RefreshArm(w, files, derived) == Chk(\A p \in derived : p \in DOMAIN files /\ files[p] = "M" /\ Has(BaseTree(w), p))
ImpactArm(w, derived) == Chk(derived \cap Referenced(HeadTree(w)) = {})

(* B6.4 and B6.5: the declared verifier accepts the honest tree, and refuses it with one byte corrupted. *)
VerifierArms(w, derived, force) ==
    LET known == derived \cap Declared(force.decl)
        honest == \A p \in known : RunDeclared(w, Entry(force.decl, p), HeadTree(w)) = 0
    IN  <<Chk(honest),
          IF ~honest THEN "not_measured"
          ELSE Chk(\A p \in known : CorruptOneByte(w, Entry(force.decl, p), HeadTree(w)) \notin {0, -1})>>

(* B6.6: the job the declaration names ran on this head and succeeded. *)
JobArm(w, derived, force) ==
    LET want == {Entry(force.decl, p).job : p \in derived \cap Declared(force.decl)}
    IN  IF w.job = "none" \/ w.conclusion = "none" THEN "not_measured"
        ELSE Chk(want \subseteq {w.job} /\ w.conclusion = "success")

DerivedArms(w, derived, force, case) ==
    <<LicenceArm(Files(w), derived, force, case), RefreshArm(w, Files(w), derived), ImpactArm(w, derived)>>
        \o VerifierArms(w, derived, force) \o <<JobArm(w, derived, force)>>

(* B6: vacuous without derived paths; otherwise the worst of the six arms. *)
WorstArm(verdicts) ==
    IF verdicts = {"verified"} THEN "verified" ELSE IF "failed" \in verdicts THEN "failed" ELSE "not_measured"

EvaluateDerived(w, derived, force, case) ==
    IF derived = {} THEN "verified" ELSE WorstArm(Range(DerivedArms(w, derived, force, case)))

----------------------------------------------------------------------------
(* B1: what of the changed paths outside the bundle a refresh may carry.   *)

BundlePaths(t) ==
    IF ~t.bundle.has THEN {} ELSE {"bundle"} \cup (IF t.bundle.wf # 0 THEN {"wf"} ELSE {})

Managed(w) == BundlePaths(BaseTree(w)) \cup BundlePaths(HeadTree(w))

(* The manifest at base lists the local workflow with the very bytes that are committed there. *)
BaseLocalWorkflowIsManifestBound(w) == BaseTree(w).bundle.has /\ Has(BaseTree(w), "wf") /\ BaseTree(w).bundle.wf = BaseTree(w).wf

(* Pin lines: a changed uses or program_ref carries the head bundle's program_ref, and nothing else changes. A
   local uses line (0) may become a pin once, together with the program_ref, from a workflow the manifest binds. *)
PairedPins(w, expect) ==
    LET old == BaseTree(w).caller  new == HeadTree(w).caller
        migration == old.uses = 0 /\ new.uses # 0
    IN  /\ [old EXCEPT !.uses = 0, !.ref = 0] = [new EXCEPT !.uses = 0, !.ref = 0]
        /\ new.uses # old.uses => new.uses = expect
        /\ new.ref # old.ref => new.ref = expect
        /\ (old.uses # 0) => (new.uses # 0)
        /\ migration => BaseLocalWorkflowIsManifestBound(w) /\ new.ref # old.ref /\ w.origin # "muneral"

(* auth-arcana: both pins move to the head bundle, and the job gains exactly the read scope. *)
CanonicalCallerPinAndReadScopeEdit(old, new, expect) ==
    /\ old.perms = "none" /\ new.perms = "job"
    /\ old.uses # 0 /\ old.ref = old.uses
    /\ new.uses = expect /\ new.ref = expect /\ old.uses # new.uses
    /\ old.stage = new.stage /\ old.rest = new.rest

(* model-connector: the local uses stays, the program_ref moves, and the workflow gains exactly the read scope. *)
CanonicalModelConnectorPinAndReadScopeEdit(old, new, expect) ==
    /\ old.uses = 0 /\ new.uses = 0
    /\ old.ref # 0 /\ old.ref # new.ref /\ new.ref = expect
    /\ old.perms = "none" /\ new.perms = "workflow"
    /\ old.stage = new.stage /\ old.rest = new.rest

(* The stage evidence inputs are all absent or the fixed tuple; a required tuple cannot be removed. *)
StageStateKept(old, new) ==
    /\ {old.stage, new.stage} \subseteq {"absent", "present"}
    /\ old.stage = "present" => new.stage = "present"

(* muneral: as model-connector, in ci.yml, the scope at the job, with the stage evidence tuple beside it. *)
CanonicalMuneralPinAndReadScopeEdit(old, new, expect) ==
    /\ StageStateKept(old, new)
    /\ old.uses = 0 /\ new.uses = 0
    /\ IF old.stage = "present" \/ new.stage = "present" THEN old.perms \in {"none", "job"} ELSE old.perms = "none"
    /\ new.perms = "job"
    /\ old.ref # 0 /\ old.ref # new.ref /\ new.ref = expect
    /\ old.rest = new.rest

(* An edit of the caller workflow and of nothing but its pins, or one of the three exact read-scope amendments. *)
PinOnlyEdit(w, p) ==
    LET old == BaseTree(w).caller  new == HeadTree(w).caller  expect == HeadTree(w).bundle.ref
    IN  /\ p = "caller" /\ Has(BaseTree(w), p) /\ Has(HeadTree(w), p) /\ HeadTree(w).bundle.has
        /\ \/ w.origin = "auth" /\ CanonicalCallerPinAndReadScopeEdit(old, new, expect)
           \/ w.origin = "connector" /\ CanonicalModelConnectorPinAndReadScopeEdit(old, new, expect)
           \/ w.origin = "muneral" /\ CanonicalMuneralPinAndReadScopeEdit(old, new, expect)
           \/ PairedPins(w, expect)

(* The one receipt a refresh files about itself: added by the range, over this base, at a commit of the range. *)
SelfUpdateReceiptOk(w, p, d) ==
    /\ Files(w)[p] = "A" /\ ~Has(BaseTree(w), p)
    /\ d.work_item # "none"
    /\ d.mode = "diff" /\ d.base = w.base
    /\ d.head \in RangeCommits(w.cs, w.base, w.head)

SelfReceipt(w, candidates) ==
    IF Cardinality(candidates) = 1 THEN {p \in candidates : SelfUpdateReceiptOk(w, p, w.docs[HeadTree(w)[p]])} ELSE {}

(* The canary records that receipt cashes are set aside with it: newly added, and verified at head. *)
SelfCanary(w, receipt, outside) ==
    IF \E p \in receipt :
         /\ "canary" \in w.docs[HeadTree(w)[p]].cashed /\ "can" \in outside
         /\ Files(w)["can"] = "A" /\ ~Has(BaseTree(w), "can") /\ HeadTree(w).can.measured = HeadTree(w).src
    THEN {"can"} ELSE {}

(* The merges on the first-parent line of the range. *)
RangeMerges(w) == {c \in w.cs[w.head].line \ w.cs[w.base].anc : Len(w.cs[c].parents) > 1}

(* The base branch, when the clone has a ref for it. *)
ResolveBaseBranch(w) == w.branch

(* The paths a branch that was brought up to its base branch carries with the base branch's own bytes. *)
SplitBaseBranchMerge(w, outside) ==
    LET merges == RangeMerges(w)
        anchor == MergeBase(w.cs, w.main, w.head)
        merged(c) == {w.cs[c].parents[i] : i \in 2 .. Len(w.cs[c].parents)}
        verdict ==
          IF outside = {} \/ merges = {} THEN "vacuous"
          ELSE IF ~ResolveBaseBranch(w) THEN "not_measured"
          ELSE IF \E c \in merges : \E p \in merged(c) : ~IsAncestor(w.cs, p, w.main) THEN "failed"
          ELSE IF anchor = w.base THEN "vacuous"
          ELSE IF ~IsAncestor(w.cs, w.base, anchor) THEN "failed"
          ELSE IF \E c \in merges : Names(w.cs, w.cs[c].parents[1], c) \cap Managed(w) # {} THEN "failed"
          ELSE "verified"
    IN  [verdict |-> verdict,
         paths |-> IF verdict = "verified"
                   THEN {p \in outside : HeadTree(w)[p] = w.cs[anchor].tree[p]} ELSE {}]

(* The paths outside the bundle, sorted into what a refresh may carry and the rest that makes it an ordinary change:
   first the receipt it files and its canary, then what the base branch brought, the derived artefacts, the pins. *)
SplitLeft(w, decl, receipt, merge, left) ==
    LET derived == left \cap Declared(decl)
        pins == {p \in left \ derived : PinOnlyEdit(w, p)}
    IN  [receipt |-> receipt, merged |-> merge.paths, merge |-> merge.verdict,
         derived |-> derived, pins |-> pins, real |-> left \ (derived \cup pins)]

SplitMerged(w, decl, receipt, outside, merge) == SplitLeft(w, decl, receipt, merge, outside \ merge.paths)

SplitFiled(w, decl, receipt, all) ==
    LET outside == all \ (receipt \cup SelfCanary(w, receipt, all))
    IN  SplitMerged(w, decl, receipt, outside, SplitBaseBranchMerge(w, outside))

SplitOutside(w) ==
    LET force == DeclarationInForce(w)
        all == DOMAIN Files(w) \ (Managed(w) \cup (IF force.boot THEN {"decl"} ELSE {}))
    IN  SplitFiled(w, force.decl, SelfReceipt(w, all \cap ReceiptIssue), all)

----------------------------------------------------------------------------
(* The four cases.                                                         *)

(* The same receipt still stands outside the archive: the move is a copy. *)
SameReceiptOutsideArchive(w) == \E p \in ReceiptIssue : HeadTree(w)[p] = HeadTree(w).arc

(* A receipt moves into the archive and nothing else changes. A move git reports as a rename lists no source. *)
IsSpentReceiptArchive(w, moved) ==
    LET srcs == moved \ {"arc"}
    IN  /\ "arc" \in moved /\ Cardinality(srcs) <= 1
        /\ moved \subseteq ReceiptPaths
        /\ Has(HeadTree(w), "arc")
        /\ \A p \in srcs : Has(BaseTree(w), p) /\ BaseTree(w)[p] = HeadTree(w).arc
        /\ ~SameReceiptOutsideArchive(w)

(* Entry paths that a declared command executes: such a file would vouch for its own replacement. *)
DeclaredCommandPaths(decl) == {a.runs : a \in DeclaredArtefacts(decl)}

(* A path a record commit may refresh: declared at base, present, and not itself a declared verifier. *)
RecordPath(w, decl, p, requireAtBase) ==
    /\ p \in Declared(decl)
    /\ Has(HeadTree(w), p)
    /\ requireAtBase => Has(BaseTree(w), p)
    /\ p \notin DeclaredCommandPaths(decl)

Edited(files) == {p \in DOMAIN files : files[p] # "A"}

(* Which case a change is; "none" is an ordinary change. The split is only asked for when there is a bundle. *)
CaseOf(w, files, declared, split, edited) ==
    IF DOMAIN files = {} THEN "none"
    ELSE IF DOMAIN files = {"decl"} /\ files["decl"] = "M" THEN "declaration_amend"
    ELSE IF IsSpentReceiptArchive(w, DOMAIN files \ declared) THEN "spent_receipt_archive"
    ELSE IF Managed(w) # {} /\ split.real = {} /\ edited \cap BundlePaths(BaseTree(w)) # {} THEN "gate_self_update"
    ELSE IF edited \subseteq declared THEN "no_impact_by_construction"
    ELSE "none"

StructuralCase(w, split) ==
    CaseOf(w, Files(w), Declared(DeclarationInForce(w).decl), split,
           Edited(Files(w)) \ (IF Managed(w) # {} THEN split.merged ELSE {}))

(* A1, A3, A2, B6: every path is new (or a measured artefact), and nothing that exists refers to it. *)
NoImpactUnder(w, force, files, edited) ==
    /\ edited \subseteq Declared(force.decl)
    /\ (DOMAIN files \ edited) \cap Referenced(HeadTree(w)) = {}
    /\ EvaluateDerived(w, edited \cap Declared(force.decl), force, "no_impact_by_construction") = "verified"

EvaluateNoImpact(w) == NoImpactUnder(w, DeclarationInForce(w), Files(w), Edited(Files(w)))

(* S1 to S3 and S5: one receipt moved, its bytes the same, none left behind, the declared artefacts measured. *)
ArchiveMoves(w, files, srcs) ==
    /\ "arc" \in files /\ Cardinality(srcs) <= 1
    /\ srcs \subseteq ReceiptPaths
    /\ Has(HeadTree(w), "arc") /\ \A p \in srcs : BaseTree(w)[p] = HeadTree(w).arc
    /\ ~SameReceiptOutsideArchive(w)

ArchiveBeside(w, decl, files, aside) ==
    /\ ArchiveMoves(w, files, files \ (aside \cup {"arc"}))
    /\ aside # {} => VerifyDeclaredArtefacts(w, decl, aside) = "verified"

EvaluateSpentReceiptArchive(w) ==
    LET decl == DeclarationInForce(w).decl
    IN  ArchiveBeside(w, decl, DOMAIN Files(w), DOMAIN Files(w) \cap Declared(decl))
=============================================================================

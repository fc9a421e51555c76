------------------------------- MODULE CiGate -------------------------------
(***************************************************************************)
(* The hosted job: `ci_gate.py run` over a pull request. It trusts nothing *)
(* before the vendored bundle is verified, collects the receipts, asks the *)
(* gate, and may only make the gate's answer worse.                        *)
(*                                                                         *)
(* The world adds: route, how the caller configures the job ("receipts",   *)
(* "stage" when finished-stage evidence is required, "source" when the     *)
(* hosted current-candidate receipt is); pins, the signing keys the caller *)
(* pins; body, the digests of the receipts in the pull request's text;     *)
(* readiness, what the readiness receipts it presents come to ("none",     *)
(* "conformant" or "violation"); token, whether the job forwards its       *)
(* GitHub token.                                                           *)
(***************************************************************************)
EXTENDS Gate

(* The bundle at head: every signature it carries verifies, by exactly the keys its signed manifest attests, *)
SignedAsAttested(b) == b.has /\ b.by # {} /\ b.by = b.keys

(* by a pinned key among them, *)
SignedByPinned(w, b) == w.pins # {} => b.by \cap w.pins # {}

(* the workflow it lists is the committed one, if the caller vendors one, *)
ListedWorkflow(w, b) == b.wf # 0 /\ Has(HeadTree(w), "wf") => HeadTree(w).wf = b.wf

(* and it is of the program_ref the caller asks for. *)
VerifyBundle(w) ==
    LET b == HeadTree(w).bundle
    IN  /\ SignedAsAttested(b) /\ SignedByPinned(w, b) /\ ListedWorkflow(w, b)
        /\ HeadTree(w).caller.ref # 0 => HeadTree(w).caller.ref = b.ref

(* An edit or removal under the bundle directory belongs to a refresh of the bundle and to nothing else. *)
BundleModifiedByPr(w) == "bundle" \in Edited(Files(w)) /\ StructuralCase(w, SplitOutside(w)) # "gate_self_update"

IsDocOnly(paths) == paths # {} /\ paths \subseteq {"doc"}

----------------------------------------------------------------------------
(* Receipt sources.                                                        *)

ReceiptsFromBody(w) == {[path |-> "body", digest |-> g] : g \in w.body}

(* A receipt merged by an earlier change and untouched by this one is not offered. *)
ReceiptsFromTree(w) ==
    {[path |-> p, digest |-> HeadTree(w)[p]] :
       p \in {q \in ReceiptIssue : Has(HeadTree(w), q) /\ (Has(BaseTree(w), q) => q \in DOMAIN Files(w))}}

(* Exactly one offered receipt is the one the stage evidence is about. *)
SelectStageReceipt(w, rs) ==
    LET matching == {r \in rs : r.digest = w.ev.car}
        about(r) == w.ev.base = w.docs[r.digest].base /\ w.ev.head = w.docs[r.digest].head
    IN  IF w.ev.has /\ Cardinality(matching) = 1 /\ \A r \in matching : about(r) THEN matching ELSE {}

(* The hosted job's own receipt: over exactly this range, with rows, and a producer that did not fail. *)
CandidateReceipt(w) ==
    LET d == w.docs[w.up.car]
        verdicts == {d.rows[e] : e \in DOMAIN d.rows}
        paused == d.admission = "paused_safe" /\ verdicts = {"verified", "not_measured"}
        valid == /\ d.mode = "diff" /\ d.base = w.base /\ d.head = w.head
                 /\ DOMAIN d.rows # {}
                 /\ w.up.exits[2] = 0 \/ (w.up.exits[2] = 1 /\ paused)
    IN  IF w.up.has /\ w.up.car # 0 /\ Len(w.up.exits) = 2 /\ valid
        THEN {[path |-> "candidate", digest |-> w.up.car]} ELSE {}

----------------------------------------------------------------------------
(* The run.                                                                *)

(* The job names its own check run only beside selected stage evidence, with a token, from the pinned workflow. *)
EvaluatorContextOk(w, selected) ==
    w.evaluator # 0 => selected # {} /\ w.token /\ HeadTree(w).caller.uses = HeadTree(w).bundle.ref

(* What stops the job before the gate is asked. *)
EarlyFail(w) == ~VerifyBundle(w) \/ BundleModifiedByPr(w)

CiReceipts(w) ==
    CASE w.route = "source" -> CandidateReceipt(w)
      [] w.route = "stage" -> SelectStageReceipt(w, ReceiptsFromTree(w) \cup ReceiptsFromBody(w))
      [] OTHER -> ReceiptsFromTree(w) \cup ReceiptsFromBody(w)

(* The graph of every bound receipt, rebuilt here from the commit it names. *)
GraphRebuilt(w, rs) ==
    \A r \in GateReceiptContext(w, rs).bound :
      LET d == w.docs[r.digest]
      IN  d.boundary = MeasuredChangeReceipt(w, d.base, d.head, r.path, d.work_item, d.id).boundary

(* What the gate is run with: the stage inputs reach it only on their own route. *)
GateWorld(w, selected) ==
    [w EXCEPT !.ev = IF w.route = "stage" /\ selected # {} THEN @ ELSE NoEvidence,
              !.up = IF w.route = "source" THEN @ ELSE NoUserpath,
              !.evaluator = IF w.route = "stage" THEN @ ELSE 0]

(* A readiness receipt that is presented and not conformant is refused; none is owed. *)
CheckReadinessReceipts(w) == Refuse(w.readiness = "violation")

(* The refusals the job adds to the gate's own: a readiness receipt, no source of receipts (unless the gate wrote one
   itself), a refused userpath, and a graph that does not rebuild. *)
HardRefusals(w, rs) ==
    \/ CheckReadinessReceipts(w) # {}
    \/ rs = {} /\ ~AutomatedEligible(w)
    \/ w.route = "stage" /\ rs = {}
    \/ w.route = "source" /\ ~ValidateStageUserpathResult(w)
    \/ ~GraphRebuilt(w, rs)

(* The conclusion of the required check. *)
CmdRun(w) ==
    LET rs == CiReceipts(w)
    IN  IF EarlyFail(w) THEN "failure"
        ELSE IF IsDocOnly(DOMAIN Files(w)) THEN "success"
        ELSE IF w.route = "source" /\ rs = {} THEN "failure"
        ELSE IF w.route = "stage" /\ ~EvaluatorContextOk(w, rs) THEN "failure"
        ELSE IF Verdict(GateWorld(w, rs), rs, rs # {}) = "admit" /\ ~HardRefusals(w, rs) THEN "success"
        ELSE "failure"
=============================================================================

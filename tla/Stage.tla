-------------------------------- MODULE Stage --------------------------------
(***************************************************************************)
(* The two stage routes, on which a change with unmeasured entities may be *)
(* admitted: finished-stage evidence (StageEvidence/v1: a process run on   *)
(* the receipt's source, a reviewed pull request and green required        *)
(* checks) and the current-source route (a receipt that the hosted job     *)
(* produced itself, ProgramStageUserpath/v1).                              *)
(*                                                                         *)
(* The world adds: gh, what GitHub answered, each question at its time: the*)
(* pull request's base and head, the heads that an approving comment names,*)
(* the head of the pull request that the workflow run is about, and the    *)
(* check runs in the order of their ids, each [name, head, status];        *)
(* evaluator, the check run this very job is (0 for none); ev, the stage   *)
(* evidence; up, the userpath result; tools, whether processes can be run; *)
(* authority, whether the decision that carries the route stands at head   *)
(* with its pinned bytes (_candidate_stage_authority).                     *)
(***************************************************************************)
EXTENDS Decision

NoEvidence == [has |-> FALSE, car |-> 0, base |-> 0, head |-> 0, paths |-> {}, nm |-> {}, source |-> 0,
               inputs |-> {}, pathCoverage |-> {}, entityCoverage |-> {}]

NoUserpath == [has |-> FALSE, base |-> 0, head |-> 0, tree |-> NoTree, ref |-> 0, clean |-> FALSE, steps |-> <<>>,
               exits |-> <<>>, exit |-> 0, gate |-> "none", car |-> 0]

NoGithub == [base |-> 0, head |-> 0, approved |-> {}, run |-> 0, checks |-> <<>>]

(* The questions to GitHub, in the order in which they are asked; the required checks themselves never change here. *)
StageReads == <<"pull", "comment", "run", "checks">>

NativeStages == <<"build", "impact", "verify", "gate">>

RequiredChecks == {"ci", "graph-admission"}

----------------------------------------------------------------------------
(* Finished-stage evidence.                                                *)

StageGitInventory(w, b, h) == Names(w.cs, b, h)

(* A failed row that is disposed of: the whole range, the unit neither changed nor impacted, equal at both ends. *)
StagePreexistingFailed(w, d) ==
    IF /\ d.base = w.base /\ d.files = StageGitInventory(w, d.base, d.head) /\ d.files # {}
       /\ Legacy \in DOMAIN d.rows /\ d.rows[Legacy] = "failed"
       /\ Legacy \notin d.files \cup d.boundary
    THEN {Legacy} ELSE {}

(* The open pull request is this range and an approving comment names this very head. *)
StagePullRequest(w) == w.gh.base = w.base /\ w.gh.head = w.head /\ w.head \in w.gh.approved

(* The job's own check run, as GitHub reports it while the job runs. *)
StageCurrentEvaluator(w) ==
    w.evaluator # 0 =>
      /\ w.origin = "muneral"
      /\ w.gh.run = w.head
      /\ w.evaluator \in DOMAIN w.gh.checks
      /\ w.gh.checks[w.evaluator] = [name |-> "graph-admission", head |-> w.head, status |-> "in_progress"]

(* Of every required check the latest run at head succeeded; only this job's own may still be pending. *)
StageRequiredChecks(w) ==
    \A name \in RequiredChecks :
      LET runs == {i \in DOMAIN w.gh.checks : w.gh.checks[i].name = name /\ w.gh.checks[i].head = w.head}
      IN  /\ runs # {}
          /\ \/ w.gh.checks[Max(runs)].status = "success"
             \/ w.evaluator # 0 /\ name = "graph-admission" /\ Max(runs) = w.evaluator

StageAuthenticatedGithub(w) == StagePullRequest(w) /\ StageCurrentEvaluator(w) /\ StageRequiredChecks(w)

(* The process run the evidence cites: a canary result committed at head that measured the receipt's source. *)
StageProcess(w, d) ==
    /\ HeadTree(w).can.has /\ HeadTree(w).can.measured = HeadTree(w).src
    /\ w.ev.source = d.head
    /\ w.ev.inputs # {}
    /\ "src" \in w.ev.inputs => HeadTree(w).can.measured = w.cs[d.head].tree.src

(* The evidence is about this receipt, its rows are the receipt's, and everything measured is covered by the run. *)
StageInput(w, d, digest) ==
    LET nm == {e \in DOMAIN d.rows : d.rows[e] = "not_measured"}
        failed == {e \in DOMAIN d.rows : d.rows[e] = "failed"}
        preexisting == StagePreexistingFailed(w, d)
        inventory == StageGitInventory(w, d.base, d.head)
        affected == (d.files \cap DOMAIN d.rows) \cup (DOMAIN d.rows \ preexisting)
    IN  /\ w.ev.car = digest /\ w.ev.base = d.base /\ w.ev.head = d.head
        /\ w.ev.paths = d.files /\ w.ev.paths = inventory
        /\ failed \subseteq preexisting
        /\ nm # {}
        /\ d.admission = "paused_safe" \/ (d.admission = "refused" /\ failed # {} /\ failed = preexisting)
        /\ d.x = NoExemption /\ d.dec = NoDecision
        /\ w.ev.nm = nm
        /\ w.ev.pathCoverage \subseteq (inventory \cap w.ev.inputs)
        /\ (inventory \ nm) \subseteq w.ev.pathCoverage
        /\ w.ev.entityCoverage \subseteq (affected \cap w.ev.inputs)
        /\ (affected \ nm) \subseteq w.ev.entityCoverage

StageEvidenceForReceipt(w, d, digest) ==
    /\ w.authority
    /\ d.base = w.base
    /\ StageProcess(w, d)
    /\ StageInput(w, d, digest)
    /\ StageAuthenticatedGithub(w)

----------------------------------------------------------------------------
(* The current-source route.                                               *)

(* The result is about this candidate, from a clean checkout of it, and the outer process agrees. *)
UserpathSubject(w) ==
    /\ w.up.has /\ w.up.base = w.base /\ w.up.head = w.head /\ w.up.tree = HeadTree(w)
    /\ w.up.clean
    /\ w.up.exit = 0

(* The tools that ran are the candidate's own in the program's repository, and the signed bundle's elsewhere. *)
UserpathProgramSource(w) == w.up.ref = IF w.program THEN w.head ELSE HeadTree(w).bundle.ref

(* The fixture went through the four native stages in order and the gate admitted it. *)
UserpathFixture(w) == w.up.steps = NativeStages /\ w.up.gate = "admit"

(* The candidate's own commands: the build succeeded, then the verifier ran to a supported exit. *)
ValidateCurrentSourceCliOutcome(w) ==
    /\ Len(w.up.exits) \in {1, 2} /\ w.up.exits[1] = 0
    /\ Len(w.up.exits) = 2 => w.up.exits[2] \in {0, 1}
    /\ (Len(w.up.exits) = 2) = (w.up.car # 0)

ValidateStageUserpathResult(w) ==
    UserpathSubject(w) /\ UserpathProgramSource(w) /\ UserpathFixture(w) /\ ValidateCurrentSourceCliOutcome(w)

(* The selected receipt is the one that process wrote, byte for byte, with that exit. *)
CurrentSourceOutcomeCarMismatch(w, digest) == w.up.car # digest \/ Len(w.up.exits) # 2

CurrentSourceStageOutcome(w, d, digest) ==
    LET verdicts == {d.rows[e] : e \in DOMAIN d.rows}
    IN  /\ IF w.program THEN w.authority ELSE w.pins # {}
        /\ ValidateStageUserpathResult(w)
        /\ ~CurrentSourceOutcomeCarMismatch(w, digest)
        /\ d.mode = "diff" /\ d.base = w.base /\ d.head = w.head
        /\ DOMAIN d.rows # {}
        /\ \/ d.admission = "admitted" /\ verdicts = {"verified"} /\ w.up.exits[2] = 0
           \/ d.admission = "paused_safe" /\ verdicts = {"verified", "not_measured"} /\ w.up.exits[2] = 1
=============================================================================

-------------------------------- MODULE Gate --------------------------------
(***************************************************************************)
(* The admission gate: `admit_change.py gate` over a range and the receipts*)
(* it is given. Every check adds a verdict; the worst one decides. A check *)
(* is named by its id in the admission policy and is the set of verdicts it *)
(* adds: {} when it has nothing to say.                                    *)
(*                                                                         *)
(* The world adds: author, who opened the pull request ("bot" is a         *)
(* registered automated author, "none" means no event was given);          *)
(* description, what its text says; enforcement, the --enforcement option   *)
(* ("default" when it is absent); decisions, the policy's enforcement of   *)
(* signed decisions; now, the gate's clock.                                *)
(***************************************************************************)
EXTENDS Stage

Refuse(b) == IF b THEN {"refuse"} ELSE {}
Pause(b) == IF b THEN {"paused_safe"} ELSE {}

Enforcement(w) == IF w.enforcement # "default" THEN w.enforcement ELSE IF w.program THEN "ledger" ELSE "off"

(* C01: a bypass is refused whatever else holds. *)
C01(w) == Refuse(w.description = "bypass")

----------------------------------------------------------------------------
(* Receipts of the range.                                                  *)

(* A broken form: no record commit may follow a receipt's head. *)
ReceiptBindsTip(w, d) == d.head = w.head /\ (d.mode = "diff" => IsAncestor(w.cs, d.base, w.head))

ReceiptBinds(w, d) ==
    \/ /\ d.mode = "diff"
       /\ d.head \in RangeCommits(w.cs, w.base, w.head) \/ d.head = w.head
       /\ IsAncestor(w.cs, d.base, w.head)
    \/ /\ d.mode = "worktree"
       /\ d.head \in RangeCommits(w.cs, w.base, w.head) \/ d.head = w.head

(* A receipt written by the gate itself for an automated author has the path "auto". *)
GateReceiptContext(w, rs) == [bound |-> {r \in rs : ReceiptBinds(w, w.docs[r.digest])},
                              unbound |-> {r \in rs : ~ReceiptBinds(w, w.docs[r.digest])}]

C03(bound) == Refuse(bound = {})
C05(unbound, explicit) == Refuse(explicit /\ unbound # {})

----------------------------------------------------------------------------
(* Automated authors.                                                      *)

Allowlist == {"lock"}

(* The paths outside the allowlist; declared artefacts their verifier accepts are let in. *)
OutsideUnder(w, decl, outside) ==
    LET candidates == outside \cap Declared(decl)
    IN  IF candidates # {} /\ VerifyDeclaredArtefacts(w, decl, candidates) = "verified"
        THEN outside \ candidates ELSE outside

AllowlistSplit(w) == OutsideUnder(w, DeclarationInForce(w).decl, DOMAIN Files(w) \ Allowlist)

ConclusionToVerdict(w) ==
    IF w.job = "none" THEN "not_measured"
    ELSE IF w.conclusion = "success" THEN "verified" ELSE IF w.conclusion = "failure" THEN "failed" ELSE "not_measured"

(* The receipt the gate writes: the measurement, with the rows of the whole repository lowered to what the required
   job says. Its authorship row is exempted and nothing else is. *)
LoweredRows(w, rows, job) ==
    [e \in DOMAIN rows |-> IF job # "verified" /\ e \in Units(HeadTree(w)) /\ rows[e] # "failed" THEN job ELSE rows[e]]

WithRows(d, rows) ==
    [d EXCEPT !.rows = rows,
              !.admission = IF Admission(rows, {}, FALSE) = "admitted" THEN "admitted_with_exemptions" ELSE Admission(rows, {}, FALSE)]

Lowered(w, d) == WithRows(d, LoweredRows(w, d.rows, ConclusionToVerdict(w)))

SynthesizeAutomatedReceipt(w) == Lowered(w, MeasuredChangeReceipt(w, w.base, w.head, "none", "none", 0))

AutomatedEligible(w) == MatchAutomatedAuthor(w) /\ AllowlistSplit(w) = {} /\ "lock" \in DOMAIN Files(w)

----------------------------------------------------------------------------
(* The checks of one bound receipt d.                                      *)

(* C18: the selection is derived again from the repository: the receipt has a row for exactly what the range reaches.
   No verifier runs here, the verdicts are the receipt's own. *)
C18(w, r, d) ==
    Pause(/\ r.path # "auto"
          /\ DOMAIN d.rows # DOMAIN MeasuredChangeReceipt(w, d.base, d.head, r.path, d.work_item, d.id).rows)

(* C21: a decision with any problem exempts nothing; unsigned ones are refused when the policy says so. *)
DecisionsHold(w, d) == d.dec.has => VerifyDecisionExemption(w, d)
C21(decided) == Refuse(~decided)

(* C16: the structural exemption is measured again. *)
StructuralHolds(w, d) == d.x.code # "none" => RecheckStructural(w, d.x, DOMAIN d.rows, d.head)
C16(holds) == Refuse(~holds)

(* The exemptions that count: C10's conditions hold of every exemption the tools issue, C21 and C16 drop their own. *)
ValidExempt(d, decided, holds) == (IF decided THEN d.dec.entities ELSE {}) \cup (IF holds THEN d.x.entities ELSE {})

(* The stage route accepts the receipt, and what it then excuses. *)
StageOk(w, r, d) ==
    \/ w.ev.has /\ StageEvidenceForReceipt(w, d, r.digest)
    \/ w.up.has /\ ~w.ev.has /\ CurrentSourceStageOutcome(w, d, r.digest)
StageChecks(w, staged) == Refuse((w.ev.has \/ w.up.has) /\ ~staged)

StageNM(w, staged) == IF w.ev.has /\ staged THEN w.ev.nm ELSE {}

Preexisting(w, d) == IF w.ev.has THEN StagePreexistingFailed(w, d) ELSE {}

(* C08 and C09: what is neither verified nor excused. The synthesized row of a structural exemption is excused by it. *)
C08(w, d, exempt) == Refuse({e \in DOMAIN d.rows : d.rows[e] = "failed"} \ (exempt \cup Preexisting(w, d)) # {})
C09(d, exempt, holds, staged) ==
    Pause(/\ {e \in DOMAIN d.rows : d.rows[e] = "not_measured"} \ exempt # {} \/ ~holds
          /\ ~staged)

(* C11: the receipt's own admission. *)
C11(w, d, staged) ==
    LET failed == {e \in DOMAIN d.rows : d.rows[e] = "failed"}
    IN  IF d.admission = "paused_safe" THEN Pause(~staged)
        ELSE IF d.admission = "refused" /\ failed # {} /\ failed = Preexisting(w, d) /\ staged THEN {}
        ELSE Refuse(d.admission \notin {"admitted", "admitted_with_exemptions"})

(* The canaries a receipt stands on: those of a verified row, and those of a boundary its admission claims. *)
CashedCanaryIds(d, boundary) ==
    LET verified == {e \in DOMAIN d.rows : d.rows[e] = "verified"}
        claims == IF d.admission \in {"admitted", "admitted_with_exemptions"} THEN boundary ELSE boundary \cap verified
    IN  IF (verified \cap {"new"}) # {} \/ claims # {} THEN d.cashed ELSE {}

(* The entities a canary covers: its evidence is read at the admitted head, never from the working tree. *)
CanaryCoverage(w, d) ==
    IF d.cashed # {} /\ HeadTree(w).can.has /\ HeadTree(w).can.measured = HeadTree(w).src THEN {"new"} ELSE {}

C12(d, exempt, covered, stageNM) ==
    Refuse(\/ CashedCanaryIds(d, d.boundary \ exempt) # {} /\ covered = {}
           \/ d.boundary \ (covered \cup exempt \cup stageNM) # {})

----------------------------------------------------------------------------
(* The checks over all bound receipts.                                     *)

(* C06: every changed file is listed by a receipt or a record, and only records follow a receipt's head. *)
C06(w, bound) ==
    LET covered == UNION {w.docs[r.digest].files : r \in bound}
    IN  Refuse(bound # {} /\ (\/ DOMAIN Files(w) \ (covered \cup RecordPaths(w, bound)) # {}
                              \/ EditedAfterReceiptHead(w, bound) # {}))

(* C13: the ledger of the checkout holds every receipt by digest, delivered when Muneral is to hold it too. *)
C13(w, bound) ==
    Pause(/\ Enforcement(w) # "off"
          /\ \E r \in bound :
               LET d == w.docs[r.digest]  entry == IF r.path = "auto" THEN {} ELSE LedgerLookup(HeadTree(w), r.digest)
               IN  /\ ~(d.work_item = "none" /\ StageOk(w, r, d))
                   /\ \/ d.work_item = "none" \/ entry = {}
                      \/ Enforcement(w) = "muneral" /\ \A a \in entry : a.delivery # "posted")

(* A receipt's own verdicts; what its decisions, its exemption and its stage route come to is asked once. *)
ReceiptVerdicts(w, r, d, decided, holds, staged, exempt) ==
    C18(w, r, d) \cup C21(decided) \cup C16(holds) \cup StageChecks(w, staged) \cup C08(w, d, exempt)
        \cup C09(d, exempt, holds, staged) \cup C11(w, d, staged)
        \cup C12(d, exempt, CanaryCoverage(w, d), StageNM(w, staged))

JudgeReceipt(w, r, d, decided, holds, staged) ==
    ReceiptVerdicts(w, r, d, decided, holds, staged, ValidExempt(d, decided, holds))

ReceiptChecks(w, r, d) == JudgeReceipt(w, r, d, DecisionsHold(w, d), StructuralHolds(w, d), StageOk(w, r, d))

(* All verdicts over the bound receipts of a context. *)
AllChecks(w, bound, unbound, explicit) ==
    C01(w) \cup C03(bound) \cup C05(unbound, explicit)
      \cup (UNION {ReceiptChecks(w, r, w.docs[r.digest]) : r \in bound})
      \cup C06(w, bound) \cup C13(w, bound)

Worst(verdicts) ==
    IF "refuse" \in verdicts THEN "refuse" ELSE IF "paused_safe" \in verdicts THEN "paused_safe" ELSE "admit"

Judge(w, context, explicit) == Worst(AllChecks(w, context.bound, context.unbound, explicit))

(* The verdict of the gate over the receipts rs; explicit says they were named, not discovered. An eligible automated
   author's change adds the receipt the gate writes. *)
GateOver(w, rs, explicit) == Judge(w, GateReceiptContext(w, rs), explicit)

Verdict(w, rs, explicit) ==
    GateOver(IF AutomatedEligible(w) THEN [w EXCEPT !.docs = Append(@, SynthesizeAutomatedReceipt(w))] ELSE w,
             rs \cup (IF AutomatedEligible(w) THEN {[path |-> "auto", digest |-> Len(w.docs) + 1]} ELSE {}), explicit)
=============================================================================

-------------------------- MODULE AdmissionProofs ---------------------------
(***************************************************************************)
(* Proofs about Admission, for any repositories whose first trees and      *)
(* edits satisfy SettingsAssumption, any number of commits, receipts,      *)
(* check runs and landed changes.                                          *)
(***************************************************************************)
EXTENDS Admission, SequenceTheorems, WellFoundedInduction, TLAPS

-----------------------------------------------------------------------------
(***************************************************************************)
(* The inductive invariant.                                                *)
(***************************************************************************)

IsSeq(s) == s \in Seq({s[i] : i \in 1 .. Len(s)})

Commits == 1 .. Len(cs)

\* What the ancestry of a commit looks like.
GraphOk(c) ==
  /\ IsSeq(c)
  /\ \A n \in 1 .. Len(c) :
       /\ n \in c[n].line /\ c[n].line \subseteq c[n].anc
       /\ \A x \in c[n].anc : x \in 1 .. Len(c) /\ x <= n /\ c[x].anc \subseteq c[n].anc
       /\ \A i \in DOMAIN c[n].parents : c[n].parents[i] \in 1 .. Len(c) /\ c[n].parents[i] \in c[n].anc

GraphInv == GraphOk(cs) /\ main \in Commits /\ tip \in Commits

\* What every tree keeps of the assumptions on the edits, when n receipts were issued.
TreeOk(t, n) ==
  /\ DOMAIN t = Paths
  /\ t.ra \in 0 .. n /\ t.rb \in 0 .. n
  /\ \A a \in t.ledger.attachments : a.digest \in 1 .. n
  /\ Has(t, "bundle") /\ DeclarationOk(t.decl)

\* What a receipt says of the source and of the bundle is what was measured at its head, whose tree is t. The tools
\* write it so and never rewrite a row; the gate does not measure again.
RowsOk(t, d) ==
  /\ d.files \cap {"src", "lock"} # {} /\ Clash(t) => "src" \in DOMAIN d.rows /\ d.rows["src"] = "failed"
  /\ "bundle" \in d.files /\ Has(t, "bundle") => "bundle" \in DOMAIN d.rows /\ d.rows["bundle"] = "not_measured"

\* What every receipt keeps of its issue.
DocOk(c, d) ==
  /\ {"mode", "base", "head", "files", "rows", "x", "dec"} \subseteq DOMAIN d /\ {"code", "entities"} \subseteq DOMAIN d.x
  /\ d.mode = "diff" /\ RowsOk(c[d.head].tree, d)
  /\ d.base \in 1 .. Len(c) /\ d.head \in 1 .. Len(c)
  /\ d.files = DOMAIN RangeFiles(c, d.base, d.head)
  /\ d.x.code = "none" => d.x.entities = {}
  /\ ~d.dec.has => d.dec.entities = {}

RecordsOk(c, ds) ==
  /\ IsSeq(ds) /\ \A n \in 1 .. Len(ds) : DocOk(c, ds[n])
  /\ \A n \in 1 .. Len(c) : TreeOk(c[n].tree, Len(ds))

RecordInv ==
  /\ env \in Settings
  /\ RecordsOk(cs, docs)
  /\ body \subseteq 1 .. Len(docs)
  /\ up.has => up.car \in 1 .. Len(docs)

\* The commits of a head that the base branch at m does not have.
Branch(c, m, h) == c[h].anc \ c[m].anc

\* Where a head left the base branch: a commit of its own line, below which both have the same history.
Fork(c, m, h, b) ==
  /\ b \in c[m].line
  /\ c[h].anc \cap c[m].anc = c[b].anc
  /\ c[b].tree.ledger = c[m].tree.ledger
  /\ c[b].tree.wf = c[m].tree.wf

\* A parent of a commit of a branch is the branch's commit before it, or the base branch as it was when it was merged.
ParentOk(c, m, h, x, p) ==
  \/ p \in Branch(c, m, h) /\ p < x /\ \A z \in Branch(c, m, h) : z < x => z <= p
  \/ p \in c[m].line /\ c[p].tree.ledger = c[m].tree.ledger

BranchOk(c, m, h) ==
  /\ h \in 1 .. Len(c)
  /\ \E b \in 1 .. Len(c) : Fork(c, m, h, b)
  /\ \A x \in Branch(c, m, h) : \A i \in DOMAIN c[x].parents : ParentOk(c, m, h, x, c[x].parents[i])

Excused == gaps \cap cs[main].anc # {}

\* The source and the lockfile of a commit have each stood in an unbroken tree.
Sound(c, n) == StoodGood(c, n, "src") /\ StoodGood(c, n, "lock")

LineInv == \A n \in cs[main].line : Sound(cs, n) \/ gaps \cap cs[n].anc # {}

Trusted(old, new, wf) ==
  /\ new.by \cap old.keys # {} /\ old.ids \subseteq new.ids
  /\ new.wf # 0 => new.wf = wf

\* What a passed head promises about the commit at which it left the base branch.
PassedOk(c, m, h, seen, route) ==
  LET b == MergeBase(c, m, h)
  IN  /\ Sound(c, h) \/ h \in seen \/ seen \cap c[m].anc # {}
      /\ route = "receipts" /\ c[b].tree.bundle # c[h].tree.bundle =>
           Trusted(c[b].tree.bundle, c[h].tree.bundle, c[h].tree.wf)

CheckOk(c, m, k, seen, route) ==
  /\ k = [name |-> k.name, head |-> k.head, status |-> k.status]
  /\ BranchOk(c, m, k.head)
  /\ k.name = "graph-admission" /\ k.status = "success" => PassedOk(c, m, k.head, seen, route)

ChecksInv == IsSeq(checks) /\ \A i \in 1 .. Len(checks) : CheckOk(cs, main, checks[i], gaps, env.route)

JobInv ==
  job # Idle =>
    /\ job.check \in 1 .. Len(checks) /\ checks[job.check].head = job.head
    /\ job.main \in Commits
    /\ cs[job.main].line \subseteq cs[main].line
    /\ cs[job.main].anc \cap cs[job.head].anc = cs[main].anc \cap cs[job.head].anc
    /\ job.body \subseteq 1 .. Len(docs)

Inv ==
  /\ GraphInv /\ RecordInv
  /\ BranchOk(cs, main, tip) /\ LineInv
  /\ ChecksInv /\ JobInv

-----------------------------------------------------------------------------
(***************************************************************************)
(* Sequences, greatest elements, commits.                                  *)
(***************************************************************************)

\* A set of naturals that is not empty has a least element.
LEMMA LeastNatural ==
  ASSUME NEW T \in SUBSET Nat, T # {}
  PROVE  \E n \in T : \A m \in T : n <= m
<1> DEFINE R == OpToRel(<, Nat)
<1>1. IsWellFoundedOn(R, Nat)
  BY NatLessThanWellFounded
<1>2. \A m, n \in Nat : m < n => <<m, n>> \in R
  BY DEF OpToRel
<1> HIDE DEF R
<1>3. PICK n \in T : \A m \in T : ~(<<m, n>> \in R)
  BY <1>1, WFMin
<1>4. \A m \in T : n <= m
  <2> SUFFICES ASSUME NEW m \in T PROVE n <= m
    OBVIOUS
  <2>1. m \in Nat /\ n \in Nat
    OBVIOUS
  <2>2. ~(m < n)
    BY <1>2, <1>3, <2>1
  <2> QED
    BY <2>1, <2>2
<1> QED
  BY <1>4

\* A bounded one that is not empty has a greatest.
LEMMA GreatestNatural ==
  ASSUME NEW n \in Nat, NEW T \in SUBSET (0..n), T # {}
  PROVE  \E x \in T : \A y \in T : y <= x
<1> DEFINE D == {d \in Nat : n - d \in T}
<1>1. D \in SUBSET Nat /\ D # {}
  <2>1. PICK x \in T : TRUE
    OBVIOUS
  <2>2. n - x \in Nat /\ n - (n - x) = x
    OBVIOUS
  <2> QED
    BY <2>1, <2>2
<1>2. PICK d \in D : \A c \in D : d <= c
  BY <1>1, LeastNatural
<1>3. ASSUME NEW y \in T PROVE y <= n - d
  <2>1. n - y \in Nat /\ n - (n - y) = y /\ y \in Nat
    OBVIOUS
  <2>2. d <= n - y
    BY <1>2, <2>1
  <2> QED
    BY <1>2, <2>1, <2>2
<1> QED
  BY <1>2, <1>3


LEMMA MaxIs ==
  ASSUME NEW S \in SUBSET Int, NEW b \in S, \A y \in S : y <= b
  PROVE  Max(S) = b
<1>1. \A x \in S : (\A y \in S : x >= y) => x = b
  OBVIOUS
<1>2. \A y \in S : b >= y
  OBVIOUS
<1> QED
  BY <1>1, <1>2 DEF Max

LEMMA MaxIn ==
  ASSUME NEW n \in Nat, NEW S \in SUBSET (1 .. n), S # {}
  PROVE  Max(S) \in S
<1>1. S \in SUBSET (0 .. n)
  OBVIOUS
<1>2. PICK b \in S : \A y \in S : y <= b
  BY <1>1, GreatestNatural
<1>3. S \in SUBSET Int
  OBVIOUS
<1> QED
  BY <1>2, <1>3, MaxIs

LEMMA Appended ==
  ASSUME NEW s, IsSeq(s), NEW e
  PROVE  /\ Len(s) \in Nat /\ DOMAIN s = 1 .. Len(s)
         /\ Len(Append(s, e)) = Len(s) + 1
         /\ \A i \in 1 .. Len(s) : Append(s, e)[i] = s[i]
         /\ Append(s, e)[Len(s) + 1] = e
         /\ IsSeq(Append(s, e))
<1> DEFINE S == {s[i] : i \in 1 .. Len(s)}
           T == S \cup {e}
           a == Append(s, e)
<1>1. s \in Seq(S)
  BY DEF IsSeq
<1>2. s \in Seq(T) /\ e \in T
  BY <1>1
<1> HIDE DEF S, T
<1>3. a \in Seq(T) /\ Len(a) = Len(s) + 1
  BY <1>2, AppendProperties
<1>4. (\A i \in 1 .. Len(s) : a[i] = s[i]) /\ a[Len(s) + 1] = e
  BY <1>2, AppendProperties
<1>5. Len(s) \in Nat /\ DOMAIN s = 1 .. Len(s)
  BY <1>1
<1> HIDE DEF a
<1>6. IsSeq(a)
  <2>1. a \in [1 .. Len(a) -> T] /\ Len(a) \in Nat
    BY <1>3
  <2>2. a \in [1 .. Len(a) -> {a[i] : i \in 1 .. Len(a)}]
    BY <2>1
  <2> QED
    BY <2>1, <2>2, SeqDef DEF IsSeq
<1> QED
  BY <1>3, <1>4, <1>5, <1>6 DEF a

LEMMA CommitFacts ==
  ASSUME NEW c, IsSeq(c), NEW parents, NEW t
  PROVE  LET k == Commit(c, parents, t)  n == Len(c) + 1
         IN  /\ Len(c) \in Nat /\ Len(k) = n /\ IsSeq(k)
             /\ \A i \in 1 .. Len(c) : k[i] = c[i]
             /\ k[n].parents = parents /\ k[n].tree = t
             /\ k[n].anc = {n} \cup UNION {c[parents[i]].anc : i \in DOMAIN parents}
             /\ k[n].line = {n} \cup (IF parents = <<>> THEN {} ELSE c[parents[1]].line)
<1> DEFINE e == [parents |-> parents,
                 anc |-> {Len(c) + 1} \cup UNION {c[parents[i]].anc : i \in DOMAIN parents},
                 line |-> {Len(c) + 1} \cup (IF parents = <<>> THEN {} ELSE c[parents[1]].line),
                 tree |-> t]
<1>1. Commit(c, parents, t) = Append(c, e)
  BY DEF Commit
<1>2. /\ e.parents = parents /\ e.tree = t
      /\ e.anc = {Len(c) + 1} \cup UNION {c[parents[i]].anc : i \in DOMAIN parents}
      /\ e.line = {Len(c) + 1} \cup (IF parents = <<>> THEN {} ELSE c[parents[1]].line)
  OBVIOUS
<1> HIDE DEF e
<1>3. /\ Len(c) \in Nat /\ Len(Append(c, e)) = Len(c) + 1 /\ IsSeq(Append(c, e))
      /\ \A i \in 1 .. Len(c) : Append(c, e)[i] = c[i]
      /\ Append(c, e)[Len(c) + 1] = e
  BY Appended
<1> QED
  BY <1>1, <1>2, <1>3

-----------------------------------------------------------------------------
(***************************************************************************)
(* What a diff lists, what a measurement writes down, what an exemption    *)
(* may cover.                                                              *)
(***************************************************************************)

\* Of a rename both sides are receipts.
LEMMA RenamedReceipts ==
  ASSUME NEW old, NEW new, NEW r \in Renamed(old, new)
  PROVE  r[1] \in Gone(old, new) /\ r[2] \in Gone(new, old)
<1> DEFINE pairs == Gone(old, new) \X Gone(new, old)
           Q(x) == (\E y \in pairs : old[y[1]] = new[y[2]]) => old[x[1]] = new[x[2]]
<1>1. pairs # {} /\ r = CHOOSE x \in pairs : Q(x)
  BY DEF Renamed, BestPair
<1>2. \E x \in pairs : Q(x)
  <2>1. CASE \E y \in pairs : old[y[1]] = new[y[2]]
    BY <2>1
  <2>2. CASE ~\E y \in pairs : old[y[1]] = new[y[2]]
    BY <1>1, <2>2
  <2> QED
    BY <2>1, <2>2
<1> HIDE DEF Q
<1>3. r \in pairs
  BY <1>1, <1>2
<1> QED
  BY <1>3

LEMMA ListedPaths ==
  ASSUME NEW c, NEW b, NEW h, NEW p \in Paths \ ReceiptPaths
  PROVE  p \in DOMAIN RangeFiles(c, b, h) <=> c[b].tree[p] # c[h].tree[p]
<1> DEFINE old == c[b].tree
           new == c[h].tree
           R == Renamed(old, new)
<1>1. \A r \in R : r[1] # p
  BY RenamedReceipts DEF Gone
<1> HIDE DEF R
<1>2. DOMAIN StatusOf(old, new, R) = {q \in Paths : old[q] # new[q]} \ {r[1] : r \in R}
  BY DEF StatusOf
<1> QED
  BY <1>1, <1>2 DEF RangeFiles, R

LEMMA SourcePaths ==
  /\ {"src", "lock", "bundle", "wf", "ledger"} \subseteq Paths \ ReceiptPaths
  /\ "src" \notin ReceiptIssue /\ "bundle" \notin ReceiptIssue
BY DEF Paths, ReceiptPaths, ReceiptIssue

\* A broken tree has a source.
LEMMA ClashHas ==
  ASSUME NEW t, Clash(t)
  PROVE  Has(t, "src")
<1>1. t.src # 0
  BY ClashesAssumption DEF Clash
<1> QED
  BY <1>1 DEF Has, NoTree

\* A measurement has a row for a source that was changed or that a changed lockfile reaches, and for a changed bundle.
LEMMA MeasuredSource ==
  ASSUME NEW w, NEW b, NEW h, NEW out, NEW item, NEW id,
         DOMAIN RangeFiles(w.cs, b, h) \cap {"src", "lock"} # {}, Clash(w.cs[h].tree)
  PROVE  LET rows == MeasuredChangeReceipt(w, b, h, out, item, id).rows
         IN  "src" \in DOMAIN rows /\ rows["src"] = "failed"
<1> DEFINE t == w.cs[h].tree
           files == DOMAIN RangeFiles(w.cs, b, h)
           excluded == SupersededSelf(w, b, h, out, item)
           rows == MeasuredRows(w, t, files, excluded)
<1>1. MeasuredChangeReceipt(w, b, h, out, item, id).rows = rows
  BY DEF MeasuredChangeReceipt, MeasuredFiles, ReceiptOf
<1>2. excluded \subseteq ReceiptIssue
  BY DEF SupersededSelf
<1>3. Has(t, "src")
  BY ClashHas
<1>4. "src" \in Reached(t, files) \ excluded
  <2>1. "src" \in Units(t)
    BY <1>3 DEF Units
  <2>2. "src" \notin excluded
    BY <1>2 DEF ReceiptIssue
  <2>3. "src" \in files \/ "lock" \in files
    OBVIOUS
  <2> HIDE DEF t, files, excluded
  <2> QED
    BY <2>1, <2>2, <2>3 DEF Reached
<1>5. Measured(w, t, "src") = "failed"
  BY DEF Measured, Chk
<1> HIDE DEF t, files, excluded
<1>6. "src" \in DOMAIN rows
  BY <1>3, <1>4 DEF MeasuredRows
<1>7. rows["src"] = "failed"
  BY <1>3, <1>4, <1>5 DEF MeasuredRows, Legacy
<1> QED
  BY <1>1, <1>6, <1>7

LEMMA MeasuredBundle ==
  ASSUME NEW w, NEW b, NEW h, NEW out, NEW item, NEW id,
         "bundle" \in DOMAIN RangeFiles(w.cs, b, h), Has(w.cs[h].tree, "bundle")
  PROVE  LET rows == MeasuredChangeReceipt(w, b, h, out, item, id).rows
         IN  "bundle" \in DOMAIN rows /\ rows["bundle"] = "not_measured"
<1> DEFINE t == w.cs[h].tree
           files == DOMAIN RangeFiles(w.cs, b, h)
           excluded == SupersededSelf(w, b, h, out, item)
           rows == MeasuredRows(w, t, files, excluded)
<1>1. MeasuredChangeReceipt(w, b, h, out, item, id).rows = rows
  BY DEF MeasuredChangeReceipt, MeasuredFiles, ReceiptOf
<1>2. excluded \subseteq ReceiptIssue
  BY DEF SupersededSelf
<1>3. "bundle" \in Reached(t, files) \ excluded
  BY <1>2 DEF Reached, ReceiptIssue
<1>4. Measured(w, t, "bundle") = "not_measured"
  BY DEF Measured
<1> HIDE DEF t, files, excluded
<1>5. "bundle" \in DOMAIN rows
  BY <1>3 DEF MeasuredRows, t
<1>6. rows["bundle"] = "not_measured"
  BY <1>3, <1>4 DEF MeasuredRows, Legacy, t
<1> QED
  BY <1>1, <1>5, <1>6

LEMMA SplitPins ==
  ASSUME NEW w
  PROVE  SplitOutside(w).pins \subseteq {"caller"}
<1>1. ASSUME NEW decl, NEW receipt, NEW merge, NEW left
      PROVE  SplitLeft(w, decl, receipt, merge, left).pins \subseteq {"caller"}
  BY DEF SplitLeft, PinOnlyEdit
<1>2. \E decl, receipt, merge, left : SplitOutside(w) = SplitLeft(w, decl, receipt, merge, left)
  BY DEF SplitOutside, SplitFiled, SplitMerged
<1> QED
  BY <1>1, <1>2

\* No structural case covers a source, and only a refresh covers the bundle.
LEMMA CoveredEntities ==
  ASSUME NEW w, NEW case, NEW entities
  PROVE  LET C == StructuralCoveredEntities(w, case, SplitOutside(w), entities)
         IN  "src" \notin C /\ ("bundle" \in C => case = "gate_self_update")
<1>1. Managed(w) \subseteq {"bundle", "wf"}
  BY DEF Managed, BundlePaths
<1>2. SplitOutside(w).pins \subseteq {"caller"}
  BY SplitPins
<1>3. MatrixDeclaredUnverifiable = {"ra", "rb", "arc", "can", "ledger"}
  BY DEF MatrixDeclaredUnverifiable, ReceiptPaths, ReceiptIssue
<1> QED
  BY <1>1, <1>2, <1>3 DEF StructuralCoveredEntities

\* C16 holds: the exemption excuses no source, and the bundle only after the battery of a refresh passed.
LEMMA Rechecked ==
  ASSUME NEW w, NEW x, NEW entities, NEW receiptHead, RecheckStructural(w, x, entities, receiptHead)
  PROVE  /\ "src" \notin x.entities
         /\ "bundle" \in x.entities => EvaluateSelfUpdate(w, SplitOutside(w))
<1> DEFINE split == SplitOutside(w)
           case == StructuralCase(w, split)
<1>1. /\ x.entities \subseteq StructuralCoveredEntities(w, case, split, entities)
      /\ EvaluateStructural(w, case, split, x.range, x.authority, x.opinion)
  BY DEF RecheckStructural, RecheckSplit, RecheckCase, RecheckRange
<1> HIDE DEF case
<1>2. "src" \notin x.entities /\ ("bundle" \in x.entities => case = "gate_self_update")
  BY <1>1, CoveredEntities
<1>3. case = "gate_self_update" => EvaluateSelfUpdate(w, split)
  BY <1>1 DEF EvaluateStructural
<1> QED
  BY <1>2, <1>3

LEMMA SelfUpdated ==
  ASSUME NEW w, NEW split, EvaluateSelfUpdate(w, split)
  PROVE  Trusted(BaseTree(w).bundle, HeadTree(w).bundle, HeadTree(w).wf)
<1>1. HeadTree(w).bundle.by \cap BaseTree(w).bundle.keys # {}
  BY DEF EvaluateSelfUpdate, KeyContinuity, Chk
<1>2. BaseTree(w).bundle.ids \subseteq HeadTree(w).bundle.ids
  BY DEF EvaluateSelfUpdate, SelfUpdateMonotonic
<1>3. HeadTree(w).bundle.wf # 0 => HeadTree(w).bundle.wf = HeadTree(w).wf
  BY DEF EvaluateSelfUpdate, WorkflowIntegrity, Chk
<1> QED
  BY <1>1, <1>2, <1>3 DEF Trusted

\* C21 holds: a decision excuses what was not measured, and never the bundle.
LEMMA Decided ==
  ASSUME NEW w, NEW d, VerifyDecisionExemption(w, d), NEW e \in d.dec.entities
  PROVE  d.rows[e] = "not_measured" /\ e # "bundle"
<1>1. DecisionEligibility(w, d, e, d.dec.class)
  BY DEF VerifyDecisionExemption
<1> QED
  BY <1>1 DEF DecisionEligibility, MeasuredReason, ReceiptPaths, ReceiptIssue

-----------------------------------------------------------------------------
(***************************************************************************)
(* What it takes to pass the gate.                                         *)
(***************************************************************************)

Clean(verdicts) == "refuse" \notin verdicts /\ "paused_safe" \notin verdicts

Failed(d) == {e \in DOMAIN d.rows : d.rows[e] = "failed"}
NotMeasured(d) == {e \in DOMAIN d.rows : d.rows[e] = "not_measured"}

LEMMA CleanReceipt ==
  ASSUME NEW w, NEW r, NEW d, Clean(ReceiptChecks(w, r, d))
  PROVE  /\ DecisionsHold(w, d) /\ StructuralHolds(w, d)
         /\ Failed(d) \subseteq d.dec.entities \cup d.x.entities \cup Preexisting(w, d)
         /\ StageOk(w, r, d) \/ NotMeasured(d) \subseteq d.dec.entities \cup d.x.entities
<1> DEFINE decided == DecisionsHold(w, d)
           holds == StructuralHolds(w, d)
           staged == StageOk(w, r, d)
           exempt == ValidExempt(d, decided, holds)
<1>1. /\ Clean(C21(decided)) /\ Clean(C16(holds))
      /\ Clean(C08(w, d, exempt)) /\ Clean(C09(d, exempt, holds, staged))
  <2> HIDE DEF decided, holds, staged, exempt
  <2> QED
    BY DEF ReceiptChecks, JudgeReceipt, ReceiptVerdicts, Clean, decided, holds, staged, exempt
<1>2. exempt \subseteq d.dec.entities \cup d.x.entities
  BY DEF ValidExempt
<1> HIDE DEF decided, holds, staged, exempt
<1>3. decided /\ holds
  BY <1>1 DEF C21, C16, Refuse, Clean
<1>4. Failed(d) \ (exempt \cup Preexisting(w, d)) = {}
  BY <1>1 DEF C08, Refuse, Clean, Failed
<1>5. staged \/ NotMeasured(d) \ exempt = {}
  BY <1>1, <1>3 DEF C09, Pause, Clean, NotMeasured
<1>6. Failed(d) \subseteq d.dec.entities \cup d.x.entities \cup Preexisting(w, d)
  BY <1>2, <1>4
<1>7. staged \/ NotMeasured(d) \subseteq d.dec.entities \cup d.x.entities
  BY <1>2, <1>5
<1> QED
  BY <1>3, <1>6, <1>7 DEF decided, holds, staged

\* A source or a bundle among the changed paths is nothing an automated author or a document change may carry.
LEMMA NotExcused ==
  ASSUME NEW w, NEW p \in {"src", "bundle"}, p \in DOMAIN Files(w),
         DeclarationOk(BaseTree(w).decl), DeclarationOk(HeadTree(w).decl)
  PROVE  ~AutomatedEligible(w) /\ ~IsDocOnly(DOMAIN Files(w))
<1>1. ~IsDocOnly(DOMAIN Files(w))
  BY DEF IsDocOnly
<1> DEFINE decl == DeclarationInForce(w).decl
           outside == DOMAIN Files(w) \ Allowlist
<1>2. DeclarationOk(decl)
  BY DEF DeclarationInForce, InForce, ReadDeclaration
<1>3. p \in outside
  BY DEF Allowlist
<1> HIDE DEF decl
<1>4. p \notin Declared(decl)
  BY <1>2 DEF DeclarationOk
<1>5. p \in OutsideUnder(w, decl, outside)
  BY <1>3, <1>4 DEF OutsideUnder
<1>6. AllowlistSplit(w) # {}
  BY <1>5 DEF AllowlistSplit, decl
<1> QED
  BY <1>1, <1>6 DEF AutomatedEligible

LEMMA GateAdmits ==
  ASSUME NEW w, NEW rs, NEW explicit, ~AutomatedEligible(w), Verdict(w, rs, explicit) = "admit"
  PROVE  LET bound == GateReceiptContext(w, rs).bound
         IN  /\ bound # {}
             /\ \A r \in bound : Clean(ReceiptChecks(w, r, w.docs[r.digest]))
             /\ DOMAIN Files(w) \subseteq (UNION {w.docs[r.digest].files : r \in bound}) \cup RecordPaths(w, bound)
             /\ EditedAfterReceiptHead(w, bound) = {}
<1> DEFINE bound == GateReceiptContext(w, rs).bound
           unbound == GateReceiptContext(w, rs).unbound
           all == AllChecks(w, bound, unbound, explicit)
           checked == UNION {ReceiptChecks(w, r, w.docs[r.digest]) : r \in bound}
<1>1. Verdict(w, rs, explicit) = GateOver(w, rs, explicit)
  <2>1. rs \cup {} = rs
    OBVIOUS
  <2> QED
    BY <2>1 DEF Verdict
<1>2. Worst(all) = "admit"
  BY <1>1 DEF GateOver, Judge
<1> HIDE DEF bound, unbound
<1>3. Clean(all)
  BY <1>2 DEF Worst, Clean
<1>4. Clean(C03(bound)) /\ Clean(C06(w, bound)) /\ Clean(checked)
  BY <1>3 DEF AllChecks, Clean
<1>5. bound # {}
  BY <1>4 DEF C03, Refuse, Clean
<1>6. \A r \in bound : Clean(ReceiptChecks(w, r, w.docs[r.digest]))
  BY <1>4 DEF Clean
<1>7. /\ DOMAIN Files(w) \ ((UNION {w.docs[r.digest].files : r \in bound}) \cup RecordPaths(w, bound)) = {}
      /\ EditedAfterReceiptHead(w, bound) = {}
  BY <1>4, <1>5 DEF C06, Refuse, Clean
<1> QED
  BY <1>5, <1>6, <1>7 DEF bound

\* What follows a receipt as a record is never a source, the lockfile or the bundle.
LEMMA NotARecord ==
  ASSUME NEW w, NEW bound, DeclarationOk(BaseTree(w).decl), NEW p \in {"src", "lock", "bundle"}
  PROVE  p \notin TrailingRecords(w, bound) /\ p \notin RecordPaths(w, bound)
<1>1. p \notin OwnReceiptPaths(w, bound)
  BY DEF OwnReceiptPaths, ReceiptPaths, ReceiptIssue
<1>2. ~RecordPath(w, ReadDeclaration(BaseTree(w)), p, FALSE)
  BY DEF RecordPath, ReadDeclaration, DeclarationOk
<1>3. p \notin TrailingRecords(w, bound)
  BY <1>1, <1>2 DEF TrailingRecords
<1> QED
  BY <1>3 DEF RecordPaths

\* From a head whose content at p is v down to the last receipt: no commit behind the receipts touches p, and what
\* was merged in has another content there, so some receipt's head has that content.
WalkOk(c, R, h, H, p, v) ==
  /\ R \subseteq Nat /\ H \subseteq R /\ p \in Paths
  /\ h \in R /\ c[h].tree[p] = v /\ \A x \in R : x <= h
  /\ \A y \in H : y \in c[y].anc /\ \A x \in c[y].anc : x \in Nat /\ x <= y
  /\ \A x \in R : \A i \in DOMAIN c[x].parents :
       \/ /\ c[x].parents[i] \in R /\ c[x].parents[i] < x
          /\ \A z \in R : z < x => z <= c[x].parents[i]
       \/ c[c[x].parents[i]].tree[p] # v
  /\ \A x \in R \ UNION {c[y].anc : y \in H} : p \notin Touched(c, x)

LEMMA Walk ==
  ASSUME NEW c, NEW R, NEW h, NEW H, NEW p, NEW v, WalkOk(c, R, h, H, p, v)
  PROVE  \E y \in H : c[y].tree[p] = v
<1> USE DEF WalkOk
<1> DEFINE Seen == UNION {c[y].anc : y \in H}
           T == {x \in R : c[x].tree[p] = v /\ \A z \in R : z >= x => z \notin Seen}
<1>1. CASE h \in Seen
  <2>1. PICK y \in H : h \in c[y].anc
    BY <1>1
  <2>2. h \in Nat /\ y \in Nat /\ h <= y /\ y <= h
    BY <2>1
  <2>3. h = y
    BY <2>2
  <2> QED
    BY <2>3
<1>2. CASE h \notin Seen
  <2>1. \A z \in R : z >= h => z = h
    OBVIOUS
  <2>2. h \in T
    BY <1>2, <2>1
  <2>3. T \in SUBSET Nat /\ T # {}
    BY <2>2
  <2> HIDE DEF T
  <2>4. PICK s \in T : \A x \in T : s <= x
    BY <2>3, LeastNatural
  <2>5. s \in R /\ c[s].tree[p] = v /\ \A z \in R : z >= s => z \notin Seen
    BY <2>4 DEF T
  <2>6. s \notin Seen
    BY <2>5
  <2>7. p \notin Touched(c, s)
    BY <2>5, <2>6
  <2>8. PICK i \in DOMAIN c[s].parents : c[c[s].parents[i]].tree[p] = v
    BY <2>5, <2>7 DEF Touched
  <2> DEFINE q == c[s].parents[i]
  <2>9. q \in R /\ q < s /\ \A z \in R : z < s => z <= q
    BY <2>5, <2>8
  <2> HIDE DEF q
  <2>10. q \notin T
    BY <2>3, <2>4, <2>9
  <2>11. PICK z \in R : z >= q /\ z \in Seen
    BY <2>8, <2>9, <2>10 DEF T, q
  <2>12. z = q
    <3>1. ~(z >= s)
      BY <2>5, <2>11
    <3>2. z \in Nat /\ s \in Nat /\ q \in Nat
      BY <2>5, <2>9
    <3>3. z <= q
      BY <2>9, <3>1, <3>2
    <3> QED
      BY <2>11, <3>2, <3>3
  <2>13. PICK y \in H : q \in c[y].anc
    BY <2>11, <2>12
  <2>14. y \in R /\ y \in Seen /\ q <= y
    BY <2>13
  <2>15. y = q
    <3>1. ~(y >= s)
      BY <2>5, <2>14
    <3>2. y \in Nat /\ s \in Nat /\ q \in Nat
      BY <2>5, <2>9, <2>14
    <3>3. y <= q
      BY <2>9, <2>14, <3>1, <3>2
    <3> QED
      BY <2>14, <3>2, <3>3
  <2> QED
    BY <2>8, <2>13, <2>15 DEF q
<1> QED
  BY <1>1, <1>2

-----------------------------------------------------------------------------
(***************************************************************************)
(* A head that the hosted job passes.                                      *)
(***************************************************************************)

LEMMA ForkIn ==
  ASSUME NEW c, GraphOk(c), NEW m \in 1 .. Len(c), NEW h \in 1 .. Len(c), NEW b, Fork(c, m, h, b)
  PROVE  /\ b \in 1 .. Len(c) /\ b \in c[h].anc /\ b <= h /\ b \in c[m].anc
         /\ MergeBase(c, m, h) = b /\ MergeBase(c, h, m) = b
         /\ RangeCommits(c, b, h) = Branch(c, m, h)
         /\ h \in Branch(c, m, h) \/ h = b
<1>1. b \in c[m].anc /\ b \in 1 .. Len(c)
  BY DEF GraphOk, Fork
<1>2. b \in c[b].anc
  BY <1>1 DEF GraphOk
<1>3. b \in c[h].anc /\ b <= h
  BY <1>2 DEF Fork, GraphOk
<1>4. \A x \in c[h].anc \cap c[m].anc : x <= b /\ x \in Int
  BY <1>1 DEF Fork, GraphOk
<1>5. Max(c[h].anc \cap c[m].anc) = b
  <2>1. c[h].anc \cap c[m].anc \in SUBSET Int /\ b \in c[h].anc \cap c[m].anc
    BY <1>1, <1>3, <1>4
  <2> QED
    BY <1>4, <2>1, MaxIs
<1>6. c[h].anc \cap c[m].anc = c[m].anc \cap c[h].anc
  OBVIOUS
<1>7. RangeCommits(c, b, h) = Branch(c, m, h)
  BY DEF RangeCommits, Branch, Fork
<1>8. h \in Branch(c, m, h) \/ h = b
  <2>1. h \in c[h].anc
    BY DEF GraphOk
  <2>2. CASE h \in c[m].anc
    <3>1. h <= b
      BY <1>4, <2>1, <2>2
    <3> QED
      BY <1>1, <1>3, <3>1
  <2> QED
    BY <2>1, <2>2 DEF Branch
<1> QED
  BY <1>1, <1>3, <1>5, <1>6, <1>7, <1>8 DEF MergeBase

LEMMA ForkFacts ==
  ASSUME GraphInv, NEW h \in Commits, NEW b, Fork(cs, main, h, b)
  PROVE  /\ b \in Commits /\ b \in cs[h].anc /\ b <= h /\ b \in cs[main].anc
         /\ MergeBase(cs, main, h) = b /\ MergeBase(cs, h, main) = b
         /\ RangeCommits(cs, b, h) = Branch(cs, main, h)
         /\ h \in Branch(cs, main, h) \/ h = b
BY ForkIn DEF GraphInv, Commits

LEMMA JobWorldFields ==
  ASSUME NEW rs
  PROVE  LET w == JobWorld  g == GateWorld(w, rs)
         IN  /\ w.cs = cs /\ w.base = MergeBase(cs, job.main, job.head) /\ w.head = job.head /\ w.main = job.main
             /\ w.docs = docs /\ w.body = job.body /\ w.route = env.route /\ w.up = up
             /\ g.cs = cs /\ g.base = w.base /\ g.head = w.head /\ g.docs = docs
             /\ w.route = "receipts" => g.ev = NoEvidence /\ g.up = NoUserpath
BY DEF JobWorld, World, GateWorld

LEMMA JobReceipts ==
  ASSUME GraphInv, RecordInv, JobInv, job # Idle, job.head \in Commits, NEW r \in CiReceipts(JobWorld)
  PROVE  r.path # "auto" /\ r.digest \in 1 .. Len(docs)
<1> DEFINE w == JobWorld
<1>1. /\ w.cs = cs /\ w.head = job.head /\ w.docs = docs /\ w.body = job.body /\ w.route = env.route /\ w.up = up
  BY JobWorldFields
<1> HIDE DEF w
<1>2. ASSUME r \in ReceiptsFromTree(w) PROVE r.path # "auto" /\ r.digest \in 1 .. Len(docs)
  <2>1. PICK p \in ReceiptIssue : Has(HeadTree(w), p) /\ r = [path |-> p, digest |-> HeadTree(w)[p]]
    BY <1>2 DEF ReceiptsFromTree
  <2>2. TreeOk(HeadTree(w), Len(docs))
    BY <1>1 DEF RecordInv, RecordsOk, HeadTree, Commits
  <2>3. p \in {"ra", "rb"} /\ HeadTree(w)[p] # 0
    BY <2>1 DEF ReceiptIssue, Has, NoTree
  <2>4. HeadTree(w)[p] \in 0 .. Len(docs)
    BY <2>2, <2>3 DEF TreeOk
  <2>5. Len(docs) \in Nat
    BY Appended DEF RecordInv, RecordsOk, Commits
  <2>6. HeadTree(w)[p] \in 1 .. Len(docs)
    BY <2>3, <2>4, <2>5
  <2> QED
    BY <2>1, <2>3, <2>6
<1>3. ASSUME r \in ReceiptsFromBody(w) PROVE r.path # "auto" /\ r.digest \in 1 .. Len(docs)
  BY <1>1, <1>3 DEF ReceiptsFromBody, JobInv
<1>4. CASE env.route = "source"
  <2>1. r \in CandidateReceipt(w)
    BY <1>1, <1>4 DEF CiReceipts, w
  <2>2. up.has /\ r = [path |-> "candidate", digest |-> up.car]
    BY <1>1, <2>1 DEF CandidateReceipt
  <2> QED
    BY <2>2 DEF RecordInv, RecordsOk, Commits
<1>5. CASE env.route # "source"
  <2>1. r \in ReceiptsFromTree(w) \cup ReceiptsFromBody(w)
    BY <1>1, <1>5 DEF CiReceipts, SelectStageReceipt, w
  <2> QED
    BY <1>2, <1>3, <2>1
<1> QED
  BY <1>4, <1>5

\* Two worlds that differ in the receipts issued and offered and in the stage inputs, and in nothing a structural case reads.
Same(w, v) ==
  /\ v.cs = w.cs /\ v.base = w.base /\ v.head = w.head /\ v.main = w.main /\ v.branch = w.branch
  /\ v.origin = w.origin /\ v.tools = w.tools /\ v.job = w.job /\ v.conclusion = w.conclusion

LEMMA SameTrees ==
  ASSUME NEW w, NEW v, Same(w, v)
  PROVE  /\ BaseTree(v) = BaseTree(w) /\ HeadTree(v) = HeadTree(w) /\ Files(v) = Files(w)
         /\ Managed(v) = Managed(w) /\ DeclarationInForce(v) = DeclarationInForce(w)
         /\ \A h : Binding(v, h) = Binding(w, h)
<1>1. BaseTree(v) = BaseTree(w) /\ HeadTree(v) = HeadTree(w) /\ Files(v) = Files(w)
  BY DEF Same, BaseTree, HeadTree, Files
<1>2. \A h : Binding(v, h) = Binding(w, h)
  BY DEF Same, Binding
<1> QED
  BY <1>1, <1>2 DEF Managed, DeclarationInForce

LEMMA SameRuns ==
  ASSUME NEW w, NEW v, Same(w, v)
  PROVE  \A a, t : RunDeclared(v, a, t) = RunDeclared(w, a, t) /\ CorruptOneByte(v, a, t) = CorruptOneByte(w, a, t)
BY DEF Same, RunDeclared, CorruptOneByte

LEMMA SameArtefacts ==
  ASSUME NEW w, NEW v, Same(w, v), NEW decl, NEW paths
  PROVE  VerifyDeclaredArtefacts(v, decl, paths) = VerifyDeclaredArtefacts(w, decl, paths)
<1>1. HeadTree(v) = HeadTree(w)
  BY SameTrees
<1>2. \A p \in paths : /\ RunDeclared(v, Entry(decl, p), HeadTree(v)) = RunDeclared(w, Entry(decl, p), HeadTree(w))
                      /\ CorruptOneByte(v, Entry(decl, p), HeadTree(v)) = CorruptOneByte(w, Entry(decl, p), HeadTree(w))
  BY <1>1, SameRuns
<1> QED
  BY <1>2 DEF VerifyDeclaredArtefacts, Chk

\* Whether the author is let through as an automated one does not depend on the stage inputs.
LEMMA SameAutomated ==
  ASSUME NEW w, NEW v, Same(w, v), v.author = w.author
  PROVE  AutomatedEligible(v) <=> AutomatedEligible(w)
<1>1. Files(v) = Files(w) /\ DeclarationInForce(v) = DeclarationInForce(w)
  BY SameTrees
<1>2. \A decl, paths : VerifyDeclaredArtefacts(v, decl, paths) = VerifyDeclaredArtefacts(w, decl, paths)
  BY SameArtefacts
<1>3. AllowlistSplit(v) = AllowlistSplit(w)
  BY <1>1, <1>2 DEF AllowlistSplit, OutsideUnder
<1>4. MatchAutomatedAuthor(v) <=> MatchAutomatedAuthor(w)
  BY DEF MatchAutomatedAuthor
<1> QED
  BY <1>1, <1>3, <1>4 DEF AutomatedEligible

LEMMA GateAutomated ==
  ASSUME NEW rs
  PROVE  AutomatedEligible(GateWorld(JobWorld, rs)) <=> AutomatedEligible(JobWorld)
<1> DEFINE w == JobWorld
           v == GateWorld(w, rs)
<1>1. Same(w, v) /\ v.author = w.author
  BY DEF Same, GateWorld, JobWorld, World
<1> HIDE DEF w, v
<1>2. AutomatedEligible(v) <=> AutomatedEligible(w)
  BY <1>1, SameAutomated
<1> QED
  BY <1>2 DEF w, v

\* What the hosted job's success says of the receipts it relied on, for a head that changes the source, the lockfile
\* or the bundle and whose author the gate does not write a receipt for.
LEMMA JobSuccess ==
  ASSUME GraphInv, RecordInv, JobInv, job # Idle, NEW b, Fork(cs, main, job.head, b), job.head \in Commits,
         CmdRun(JobWorld) = "success", ~AutomatedEligible(JobWorld),
         NEW p \in {"src", "lock", "bundle"}, cs[b].tree[p] # cs[job.head].tree[p]
  PROVE  LET rs == CiReceipts(JobWorld)
             g == GateWorld(JobWorld, rs)
             bound == GateReceiptContext(g, rs).bound
         IN  /\ JobWorld.base = b
             /\ bound = GateReceiptContext(JobWorld, rs).bound /\ bound # {}
             /\ ~IsDocOnly(DOMAIN Files(JobWorld))
             /\ \A r \in bound : /\ r.digest \in 1 .. Len(docs)
                                 /\ docs[r.digest].head \in Branch(cs, main, job.head)
                                 /\ docs[r.digest].base \in cs[job.head].anc
             /\ \A r \in bound : Clean(ReceiptChecks(g, r, docs[r.digest]))
             /\ \E r \in bound : p \in docs[r.digest].files
             /\ p \notin TrailingPaths(g, bound)
<1> DEFINE w == JobWorld
           h == job.head
           rs == CiReceipts(w)
           g == GateWorld(w, rs)
           bound == GateReceiptContext(g, rs).bound
<1>1. /\ w.cs = cs /\ w.base = MergeBase(cs, job.main, h) /\ w.head = h /\ w.docs = docs /\ w.route = env.route
      /\ g.cs = cs /\ g.base = w.base /\ g.head = w.head /\ g.docs = docs
  BY JobWorldFields
<1>2. /\ b \in Commits /\ MergeBase(cs, main, h) = b
      /\ RangeCommits(cs, b, h) = Branch(cs, main, h)
      /\ h \in Branch(cs, main, h) \/ h = b
  BY ForkFacts
<1>3. w.base = b
  BY <1>1, <1>2 DEF MergeBase, JobInv
<1>4. h \in Branch(cs, main, h)
  BY <1>2
<1>5. ~AutomatedEligible(w) /\ ~AutomatedEligible(g)
  BY GateAutomated
<1> HIDE DEF w, h, rs, g
<1>6. BaseTree(w) = cs[b].tree /\ HeadTree(w) = cs[h].tree /\ BaseTree(g) = cs[b].tree /\ HeadTree(g) = cs[h].tree
  BY <1>1, <1>3 DEF BaseTree, HeadTree
<1>7. DeclarationOk(cs[b].tree.decl)
  BY <1>2 DEF RecordInv, RecordsOk, TreeOk, Commits
<1>8. p \in DOMAIN Files(w) /\ p \in DOMAIN Files(g)
  <2>1. p \in Paths \ ReceiptPaths
    BY SourcePaths
  <2>2. p \in DOMAIN RangeFiles(cs, b, h)
    BY <2>1, ListedPaths DEF h
  <2> QED
    BY <1>1, <1>3, <2>2 DEF Files
<1>9. ~IsDocOnly(DOMAIN Files(w))
  BY <1>8 DEF IsDocOnly
<1>10. Verdict(g, rs, rs # {}) = "admit"
  BY <1>9 DEF CmdRun, w, rs, g
<1>11. /\ bound # {}
       /\ \A r \in bound : Clean(ReceiptChecks(g, r, g.docs[r.digest]))
       /\ DOMAIN Files(g) \subseteq (UNION {g.docs[r.digest].files : r \in bound}) \cup RecordPaths(g, bound)
       /\ EditedAfterReceiptHead(g, bound) = {}
  BY <1>5, <1>10, GateAdmits
<1>12. bound = {r \in rs : ReceiptBinds(g, g.docs[r.digest])}
  BY DEF GateReceiptContext
<1>13. bound = GateReceiptContext(w, rs).bound
  BY <1>1, <1>12 DEF GateReceiptContext, ReceiptBinds
<1> HIDE DEF bound
<1>14. \A r \in bound : r.digest \in 1 .. Len(docs)
  BY <1>12, JobReceipts DEF rs, w, h
<1>15. \A r \in bound : docs[r.digest].head \in Branch(cs, main, h)
  BY <1>1, <1>2, <1>3, <1>4, <1>12 DEF ReceiptBinds
<1>16. \A r \in bound : docs[r.digest].base \in cs[h].anc
  <2>1. \A r \in bound : docs[r.digest].mode = "diff"
    BY <1>14 DEF RecordInv, RecordsOk, DocOk
  <2> QED
    BY <1>1, <1>12, <2>1 DEF ReceiptBinds, IsAncestor
<1>17. p \notin TrailingRecords(g, bound) /\ p \notin RecordPaths(g, bound)
  BY <1>6, <1>7, NotARecord
<1>18. \E r \in bound : p \in docs[r.digest].files
  BY <1>1, <1>8, <1>11, <1>17
<1>19. p \notin TrailingPaths(g, bound)
  BY <1>11, <1>17 DEF EditedAfterReceiptHead
<1> QED
  BY <1>1, <1>3, <1>11, <1>13, <1>14, <1>15, <1>18, <1>19, <1>9, <1>16 DEF w, rs, g, bound, h

\* A receipt without a verdict against it has no failed row for the source: nothing excuses one.
LEMMA NoFailedSource ==
  ASSUME NEW w, NEW r, NEW d, Clean(ReceiptChecks(w, r, d)),
         d.x.code = "none" => d.x.entities = {}, ~d.dec.has => d.dec.entities = {}
  PROVE  "src" \notin Failed(d)
<1> SUFFICES ASSUME "src" \in Failed(d) PROVE FALSE
  OBVIOUS
<1>1. /\ DecisionsHold(w, d) /\ StructuralHolds(w, d)
      /\ Failed(d) \subseteq d.dec.entities \cup d.x.entities \cup Preexisting(w, d)
  BY CleanReceipt
<1>2. d.rows["src"] = "failed"
  BY DEF Failed
<1>3. "src" \notin d.dec.entities
  <2>1. CASE d.dec.has
    BY <1>1, <1>2, <2>1, Decided DEF DecisionsHold
  <2> QED
    BY <2>1
<1>4. "src" \notin d.x.entities
  <2>1. CASE d.x.code # "none"
    BY <1>1, <2>1, Rechecked DEF StructuralHolds
  <2> QED
    BY <2>1
<1>5. "src" \notin Preexisting(w, d)
  BY DEF Preexisting, StagePreexistingFailed, Legacy
<1> QED
  BY <1>1, <1>3, <1>4, <1>5

\* A receipt without a verdict against it and without stage evidence, over a new bundle: the refresh was measured.
LEMMA BundleMeasured ==
  ASSUME NEW w, NEW r, NEW d, Clean(ReceiptChecks(w, r, d)), NEW t, RowsOk(t, d),
         d.x.code = "none" => d.x.entities = {}, ~d.dec.has => d.dec.entities = {},
         "bundle" \in d.files, Has(t, "bundle"), w.ev = NoEvidence, w.up = NoUserpath
  PROVE  EvaluateSelfUpdate(w, SplitOutside(w))
<1>1. /\ DecisionsHold(w, d) /\ StructuralHolds(w, d)
      /\ StageOk(w, r, d) \/ NotMeasured(d) \subseteq d.dec.entities \cup d.x.entities
  BY CleanReceipt
<1>2. ~StageOk(w, r, d)
  BY DEF StageOk, NoEvidence, NoUserpath
<1>3. "bundle" \in NotMeasured(d)
  BY DEF RowsOk, NotMeasured
<1>4. "bundle" \notin d.dec.entities
  <2>1. CASE d.dec.has
    BY <1>1, <2>1, Decided DEF DecisionsHold
  <2> QED
    BY <2>1
<1>5. "bundle" \in d.x.entities
  BY <1>1, <1>2, <1>3, <1>4
<1>6. RecheckStructural(w, d.x, DOMAIN d.rows, d.head)
  BY <1>1, <1>5 DEF StructuralHolds
<1> QED
  BY <1>5, <1>6, Rechecked

\* The receipt that the gate writes for an automated author has a row for the source, which nothing excuses.
LEMMA AutomatedUnbroken ==
  ASSUME NEW w, NEW rs, NEW explicit, {"cs", "base", "head", "docs"} \subseteq DOMAIN w, IsSeq(w.docs),
         AutomatedEligible(w), Verdict(w, rs, explicit) = "admit", IsAncestor(w.cs, w.base, w.head)
  PROVE  ~Clash(HeadTree(w))
<1> DEFINE d == SynthesizeAutomatedReceipt(w)
           n == Len(w.docs) + 1
           v == [w EXCEPT !.docs = Append(@, d)]
           r == [path |-> "auto", digest |-> n]
           all == rs \cup {r}
           bound == GateReceiptContext(v, all).bound
           unbound == GateReceiptContext(v, all).unbound
           M == MeasuredChangeReceipt(w, w.base, w.head, "none", "none", 0)
<1>1. v.cs = w.cs /\ v.base = w.base /\ v.head = w.head /\ v.docs = Append(w.docs, d)
  OBVIOUS
<1>2. Append(w.docs, d)[n] = d
  BY Appended
<1>3. M.mode = "diff" /\ M.base = w.base /\ M.head = w.head /\ M.x = NoExemption /\ M.dec = NoDecision
  BY DEF MeasuredChangeReceipt, MeasuredFiles, ReceiptOf
<1>4. {"mode", "base", "head", "rows", "x", "dec"} \subseteq DOMAIN M
  BY DEF MeasuredChangeReceipt, MeasuredFiles, ReceiptOf
<1>5. /\ d.mode = "diff" /\ d.base = w.base /\ d.head = w.head /\ d.x = NoExemption /\ d.dec = NoDecision
      /\ d.rows = LoweredRows(w, M.rows, ConclusionToVerdict(w))
  <2>1. d = WithRows(M, LoweredRows(w, M.rows, ConclusionToVerdict(w)))
    BY DEF SynthesizeAutomatedReceipt, Lowered
  <2> HIDE DEF d, M
  <2> QED
    BY <1>3, <1>4, <2>1 DEF WithRows
<1>6. Worst(AllChecks(v, bound, unbound, explicit)) = "admit"
  BY DEF Verdict, GateOver, Judge
<1> HIDE DEF d, v, M
<1>7. r \in bound
  <2>1. ReceiptBinds(v, v.docs[n])
    BY <1>1, <1>2, <1>5 DEF ReceiptBinds
  <2> QED
    BY <2>1 DEF GateReceiptContext
<1>8. Clean(ReceiptChecks(v, r, d))
  <2>1. v.docs[r.digest] = d
    BY <1>1, <1>2
  <2> HIDE DEF bound, unbound, r
  <2>2. Clean(AllChecks(v, bound, unbound, explicit))
    BY <1>6 DEF Worst, Clean
  <2> QED
    BY <1>7, <2>1, <2>2 DEF AllChecks, Clean
<1>9. "src" \notin Failed(d)
  <2>1. d.x.entities = {} /\ d.dec.entities = {}
    BY <1>5 DEF NoExemption, NoDecision
  <2> HIDE DEF r
  <2> QED
    BY <1>8, <2>1, NoFailedSource
<1>10. ASSUME Clash(HeadTree(w)) PROVE "src" \in DOMAIN M.rows /\ M.rows["src"] = "failed"
  <2>1. DOMAIN RangeFiles(w.cs, w.base, w.head) \cap {"src", "lock"} # {}
    BY DEF AutomatedEligible, Files
  <2> QED
    BY <1>10, <2>1, MeasuredSource DEF HeadTree, M
<1>11. ASSUME Clash(HeadTree(w)) PROVE "src" \in Failed(d)
  BY <1>5, <1>10, <1>11 DEF LoweredRows, Failed
<1> QED
  BY <1>9, <1>11

\* What stood unbroken before a commit stood unbroken at it, when the commit has it still.
LEMMA Inherited ==
  ASSUME NEW c, GraphOk(c), NEW n \in 1 .. Len(c), NEW q \in c[n].anc, NEW p,
         StoodGood(c, q, p), c[q].tree[p] = c[n].tree[p]
  PROVE  StoodGood(c, n, p)
<1>1. c[q].anc \subseteq c[n].anc
  BY DEF GraphOk
<1> QED
  BY <1>1 DEF StoodGood

\* A source or a lockfile that a head brings, and that passes on receipts from main's own line, was measured in an
\* unbroken tree, or comes from a commit of main that has it.
LEMMA PathPassed ==
  ASSUME GraphInv, RecordInv, LineInv, JobInv, job # Idle, BranchOk(cs, main, job.head),
         CmdRun(JobWorld) = "success", StartsOnMain(JobWorld), ~AutomatedEligible(JobWorld), ~Excused,
         NEW b, Fork(cs, main, job.head, b), NEW p \in {"src", "lock"}, cs[b].tree[p] # cs[job.head].tree[p]
  PROVE  StoodGood(cs, job.head, p)
<1> SUFFICES ASSUME ~StoodGood(cs, job.head, p) PROVE FALSE
  OBVIOUS
<1> DEFINE h == job.head
           v == cs[h].tree[p]
           rs == CiReceipts(JobWorld)
           g == GateWorld(JobWorld, rs)
           bound == GateReceiptContext(g, rs).bound
           H == {docs[r.digest].head : r \in bound}
           R == Branch(cs, main, h)
<1>1. h \in Commits /\ \A c \in R : \A i \in DOMAIN cs[c].parents : ParentOk(cs, main, h, c, cs[c].parents[i])
  BY DEF BranchOk, Commits
<1>2. /\ b \in Commits /\ RangeCommits(cs, b, h) = R
      /\ h \in R \/ h = b
  BY <1>1, ForkFacts
<1>3. \A l \in cs[main].line \cap cs[h].anc : cs[l].tree[p] # v
  <2> SUFFICES ASSUME NEW l \in cs[main].line \cap cs[h].anc, cs[l].tree[p] = v PROVE FALSE
    OBVIOUS
  <2>1. cs[l].anc \subseteq cs[main].anc
    BY DEF GraphInv, GraphOk, Commits
  <2>2. Sound(cs, l)
    BY <2>1 DEF LineInv, Excused
  <2>3. StoodGood(cs, l, p)
    BY <2>2 DEF Sound
  <2> QED
    BY <1>1, <2>3, Inherited DEF GraphInv, Commits
<1>4. /\ JobWorld.base = b
      /\ bound = GateReceiptContext(JobWorld, rs).bound /\ bound # {}
      /\ ~IsDocOnly(DOMAIN Files(JobWorld))
      /\ \A r \in bound : /\ r.digest \in 1 .. Len(docs) /\ docs[r.digest].head \in Branch(cs, main, job.head)
                          /\ docs[r.digest].base \in cs[job.head].anc
      /\ \A r \in bound : Clean(ReceiptChecks(g, r, docs[r.digest]))
      /\ p \notin TrailingPaths(g, bound)
  <2>1. p \in {"src", "lock", "bundle"}
    OBVIOUS
  <2> QED
    BY <1>1, <2>1, JobSuccess
<1>5. /\ g.cs = cs /\ g.base = b /\ g.head = h /\ g.docs = docs /\ JobWorld.main = job.main
  BY <1>4, JobWorldFields
<1> HIDE DEF rs, g, bound, h, v
<1>6. \A r \in bound : docs[r.digest].base \in cs[main].line
  BY <1>4, <1>5 DEF StartsOnMain, JobInv, rs
<1>7. \A x \in R \ UNION {cs[y].anc : y \in H} : p \notin Touched(cs, x)
  <2> SUFFICES ASSUME NEW x \in R \ UNION {cs[y].anc : y \in H}, p \in Touched(cs, x) PROVE FALSE
    OBVIOUS
  <2>1. \A r \in bound : ReceiptHead(g, r) \in H
    BY <1>5 DEF ReceiptHead
  <2>2. x \in TrailingCommits(g, bound)
    BY <1>2, <1>4, <1>5, <2>1 DEF TrailingCommits
  <2>3. p \in Names(g.cs, g.base, g.head)
    BY <1>5, SourcePaths DEF Names, h
  <2> QED
    BY <1>4, <1>5, <2>2, <2>3 DEF TrailingPaths
<1>8. R \in SUBSET Nat /\ h \in R /\ H \in SUBSET R /\ \A x \in R : x <= h
  <2>1. \A x \in R : x \in Commits /\ x <= h
    BY <1>1 DEF GraphInv, GraphOk, Branch, Commits
  <2>2. h \in R
    BY <1>2 DEF h
  <2> QED
    BY <1>4, <2>1, <2>2 DEF Commits, h
<1>9. \A y \in H : y \in cs[y].anc /\ \A x \in cs[y].anc : x \in Nat /\ x <= y
  <2>1. \A y \in R : y \in Commits
    BY <1>1 DEF GraphInv, GraphOk, Branch, Commits
  <2> HIDE DEF R, H
  <2>2. \A y \in H : y \in Commits
    BY <1>8, <2>1
  <2>3. \A y \in Commits : y \in cs[y].anc /\ \A x \in cs[y].anc : x \in Commits /\ x <= y
    BY DEF GraphInv, GraphOk, Commits
  <2> QED
    BY <2>2, <2>3 DEF Commits
<1>10. \A x \in R : \A i \in DOMAIN cs[x].parents :
          \/ /\ cs[x].parents[i] \in R /\ cs[x].parents[i] < x
             /\ \A z \in R : z < x => z <= cs[x].parents[i]
          \/ cs[cs[x].parents[i]].tree[p] # v
  <2> SUFFICES ASSUME NEW x \in R, NEW i \in DOMAIN cs[x].parents, cs[x].parents[i] \in cs[main].line
               PROVE  cs[cs[x].parents[i]].tree[p] # v
    BY <1>1 DEF ParentOk
  <2>1. x \in cs[h].anc
    BY DEF Branch
  <2>2. x \in Commits /\ cs[x].anc \subseteq cs[h].anc
    BY <1>1, <2>1 DEF GraphInv, GraphOk, Commits
  <2>3. cs[x].parents[i] \in cs[x].anc
    BY <2>2 DEF GraphInv, GraphOk, Commits
  <2> QED
    BY <1>3, <2>2, <2>3
<1>11. \E y \in H : cs[y].tree[p] = v
  <2>1. cs[h].tree[p] = v /\ p \in Paths
    BY SourcePaths DEF v
  <2> HIDE DEF R, H
  <2>2. WalkOk(cs, R, h, H, p, v)
    BY <1>7, <1>8, <1>9, <1>10, <2>1 DEF WalkOk
  <2> QED
    BY <2>2, Walk
<1>12. PICK r \in bound : cs[docs[r.digest].head].tree[p] = v
  BY <1>11
<1> DEFINE d == docs[r.digest]
<1>13. DocOk(cs, d)
  BY <1>4 DEF RecordInv, RecordsOk, Commits
<1>14. cs[d.base].tree[p] # cs[d.head].tree[p]
  BY <1>3, <1>4, <1>6, <1>12 DEF h
<1>15. p \in d.files
  <2>1. p \in DOMAIN RangeFiles(cs, d.base, d.head)
    BY <1>14, SourcePaths, ListedPaths
  <2> QED
    BY <1>13, <2>1 DEF DocOk
<1>16. "src" \notin Failed(d)
  <2>1. Clean(ReceiptChecks(g, r, d))
    BY <1>4
  <2>2. (d.x.code = "none" => d.x.entities = {}) /\ (~d.dec.has => d.dec.entities = {})
    BY <1>13 DEF DocOk
  <2> HIDE DEF d
  <2> QED
    BY <2>1, <2>2, NoFailedSource
<1>17. ~Clash(cs[d.head].tree)
  <2>1. RowsOk(cs[d.head].tree, d)
    BY <1>13 DEF DocOk
  <2> HIDE DEF d
  <2> QED
    BY <1>15, <1>16, <2>1 DEF RowsOk, Failed
<1>18. d.head \in cs[h].anc
  BY <1>4 DEF Branch, h
<1> QED
  BY <1>12, <1>17, <1>18 DEF StoodGood, h, v

\* A head that passes on receipts from main's own line is as sound as main.
LEMMA SourcePassed ==
  ASSUME GraphInv, RecordInv, LineInv, JobInv, job # Idle, BranchOk(cs, main, job.head),
         CmdRun(JobWorld) = "success", StartsOnMain(JobWorld), ~Excused,
         NEW b, Fork(cs, main, job.head, b)
  PROVE  Sound(cs, job.head)
<1> DEFINE h == job.head
<1>1. h \in Commits
  BY DEF BranchOk, Commits
<1>2. b \in Commits /\ b \in cs[h].anc /\ b \in cs[main].line /\ MergeBase(cs, main, h) = b
  BY <1>1, ForkFacts DEF Fork
<1>3. Sound(cs, b)
  <2>1. cs[b].anc \subseteq cs[main].anc
    BY <1>2 DEF GraphInv, GraphOk, Commits
  <2> QED
    BY <1>2, <2>1 DEF LineInv, Excused
<1>4. CASE ~AutomatedEligible(JobWorld)
  <2>1. ASSUME NEW p \in {"src", "lock"} PROVE StoodGood(cs, h, p)
    <3>1. CASE cs[b].tree[p] # cs[h].tree[p]
      BY <1>4, <3>1, PathPassed
    <3>2. CASE cs[b].tree[p] = cs[h].tree[p]
      <4>1. StoodGood(cs, b, p)
        BY <1>3 DEF Sound
      <4> QED
        BY <1>1, <1>2, <3>2, <4>1, Inherited DEF GraphInv, Commits
    <3> QED
      BY <3>1, <3>2
  <2> QED
    BY <2>1 DEF Sound
<1>5. CASE AutomatedEligible(JobWorld)
  <2> DEFINE w == JobWorld
             rs == CiReceipts(w)
             g == GateWorld(w, rs)
  <2>1. /\ g.cs = cs /\ g.head = h /\ g.docs = docs /\ g.base = w.base /\ w.base = MergeBase(cs, job.main, h)
    BY JobWorldFields
  <2>2. w.base = b
    BY <1>2, <2>1 DEF MergeBase, JobInv
  <2>3. {"cs", "base", "head", "docs"} \subseteq DOMAIN g
    BY DEF GateWorld, JobWorld, World
  <2>4. AutomatedEligible(g)
    BY <1>5, GateAutomated
  <2> HIDE DEF w, rs, g
  <2>5. ~IsDocOnly(DOMAIN Files(w))
    BY <1>5 DEF AutomatedEligible, IsDocOnly, w
  <2>6. Verdict(g, rs, rs # {}) = "admit"
    BY <2>5 DEF CmdRun, w, rs, g
  <2>7. IsSeq(g.docs) /\ IsAncestor(g.cs, g.base, g.head)
    BY <1>2, <2>1, <2>2 DEF RecordInv, RecordsOk, IsAncestor
  <2>8. ~Clash(HeadTree(g))
    BY <2>3, <2>4, <2>6, <2>7, AutomatedUnbroken
  <2>9. ~Clash(cs[h].tree) /\ h \in cs[h].anc
    BY <1>1, <2>1, <2>8 DEF HeadTree, GraphInv, GraphOk, Commits
  <2> QED
    BY <2>9 DEF Sound, StoodGood
<1> QED
  BY <1>4, <1>5

\* A head that passes on the route of receipts with another bundle: the refresh was measured.
LEMMA BundlePassed ==
  ASSUME GraphInv, RecordInv, JobInv, job # Idle, job.head \in Commits,
         CmdRun(JobWorld) = "success", env.route = "receipts",
         NEW b, Fork(cs, main, job.head, b), cs[b].tree.bundle # cs[job.head].tree.bundle
  PROVE  Trusted(cs[b].tree.bundle, cs[job.head].tree.bundle, cs[job.head].tree.wf)
<1> DEFINE h == job.head
           rs == CiReceipts(JobWorld)
           g == GateWorld(JobWorld, rs)
           bound == GateReceiptContext(g, rs).bound
<1>1. /\ JobWorld.base = b
      /\ \A r \in bound : r.digest \in 1 .. Len(docs) /\ docs[r.digest].head \in Branch(cs, main, job.head)
      /\ \A r \in bound : Clean(ReceiptChecks(g, r, docs[r.digest]))
      /\ \E r \in bound : "bundle" \in docs[r.digest].files
  <2>1. cs[b].tree["bundle"] # cs[h].tree["bundle"] /\ "bundle" \in {"src", "lock", "bundle"}
    OBVIOUS
  <2> DEFINE w == JobWorld
  <2>2. b \in Commits /\ MergeBase(cs, main, h) = b
    BY ForkFacts
  <2>3. w.cs = cs /\ w.base = b /\ w.head = h
    BY <2>2, JobWorldFields DEF MergeBase, JobInv
  <2>4. DeclarationOk(cs[b].tree.decl) /\ DeclarationOk(cs[h].tree.decl)
    BY <2>2 DEF RecordInv, RecordsOk, TreeOk, Commits
  <2>5. "bundle" \in DOMAIN RangeFiles(cs, b, h)
    BY <2>1, SourcePaths, ListedPaths
  <2> HIDE DEF w
  <2>6. ~AutomatedEligible(w)
    BY <2>3, <2>4, <2>5, NotExcused DEF Files, BaseTree, HeadTree
  <2> QED
    BY <2>1, <2>6, JobSuccess DEF w
<1>2. /\ g.cs = cs /\ g.base = b /\ g.head = h /\ g.docs = docs /\ g.ev = NoEvidence /\ g.up = NoUserpath
  BY <1>1, JobWorldFields
<1> HIDE DEF rs, g, bound, h
<1>3. PICK r \in bound : "bundle" \in docs[r.digest].files
  BY <1>1
<1> DEFINE d == docs[r.digest]
<1>4. DocOk(cs, d)
  BY <1>1 DEF RecordInv, RecordsOk, Commits
<1>5. Has(cs[d.head].tree, "bundle")
  BY <1>4 DEF RecordInv, RecordsOk, TreeOk, DocOk, Commits
<1>6. EvaluateSelfUpdate(g, SplitOutside(g))
  <2>1. Clean(ReceiptChecks(g, r, d)) /\ "bundle" \in d.files /\ RowsOk(cs[d.head].tree, d)
    BY <1>1, <1>3, <1>4 DEF DocOk
  <2>2. (d.x.code = "none" => d.x.entities = {}) /\ (~d.dec.has => d.dec.entities = {})
    BY <1>4 DEF DocOk, Commits
  <2> HIDE DEF d
  <2> QED
    BY <1>2, <1>5, <2>1, <2>2, BundleMeasured
<1>7. Trusted(BaseTree(g).bundle, HeadTree(g).bundle, HeadTree(g).wf)
  BY <1>6, SelfUpdated
<1> QED
  BY <1>2, <1>7 DEF BaseTree, HeadTree, h

-----------------------------------------------------------------------------
(***************************************************************************)
(* What a new commit does to the ancestry and to the branches.             *)
(***************************************************************************)

LEMMA CommitGraph ==
  ASSUME NEW c, GraphOk(c), NEW ps, NEW t, \A i \in DOMAIN ps : ps[i] \in 1 .. Len(c), ps # <<>> => 1 \in DOMAIN ps
  PROVE  GraphOk(Commit(c, ps, t))
<1> DEFINE k == Commit(c, ps, t)
           n == Len(c) + 1
<1>1. /\ Len(c) \in Nat /\ Len(k) = n /\ IsSeq(k)
      /\ \A i \in 1 .. Len(c) : k[i] = c[i]
      /\ k[n].parents = ps /\ k[n].tree = t
      /\ k[n].anc = {n} \cup UNION {c[ps[i]].anc : i \in DOMAIN ps}
      /\ k[n].line = {n} \cup (IF ps = <<>> THEN {} ELSE c[ps[1]].line)
  BY CommitFacts DEF GraphOk
<1> HIDE DEF k
<1>2. ASSUME NEW j \in 1 .. Len(c)
      PROVE  /\ j \in k[j].line /\ k[j].line \subseteq k[j].anc
             /\ \A x \in k[j].anc : x \in 1 .. n /\ x <= j /\ k[x].anc \subseteq k[j].anc
             /\ \A i \in DOMAIN k[j].parents : k[j].parents[i] \in 1 .. n /\ k[j].parents[i] \in k[j].anc
  <2>1. k[j] = c[j]
    BY <1>1
  <2>2. /\ j \in c[j].line /\ c[j].line \subseteq c[j].anc
        /\ \A x \in c[j].anc : x \in 1 .. Len(c) /\ x <= j /\ c[x].anc \subseteq c[j].anc
        /\ \A i \in DOMAIN c[j].parents : c[j].parents[i] \in 1 .. Len(c) /\ c[j].parents[i] \in c[j].anc
    BY DEF GraphOk
  <2> QED
    BY <1>1, <2>1, <2>2
<1>3. /\ n \in k[n].line /\ k[n].line \subseteq k[n].anc
      /\ \A x \in k[n].anc : x \in 1 .. n /\ x <= n /\ k[x].anc \subseteq k[n].anc
      /\ \A i \in DOMAIN k[n].parents : k[n].parents[i] \in 1 .. n /\ k[n].parents[i] \in k[n].anc
  <2>1. n \in k[n].line
    BY <1>1
  <2>2. k[n].line \subseteq k[n].anc
    <3>1. CASE ps # <<>>
      <4>1. c[ps[1]].line \subseteq c[ps[1]].anc
        BY <3>1 DEF GraphOk
      <4> QED
        BY <1>1, <3>1, <4>1
    <3> QED
      BY <1>1, <3>1
  <2>3. ASSUME NEW x \in k[n].anc PROVE x \in 1 .. n /\ x <= n /\ k[x].anc \subseteq k[n].anc
    <3>1. CASE x = n
      BY <1>1, <3>1
    <3>2. CASE x # n
      <4>1. PICK i \in DOMAIN ps : x \in c[ps[i]].anc
        BY <1>1, <3>2
      <4>2. x \in 1 .. Len(c) /\ c[x].anc \subseteq c[ps[i]].anc
        BY <4>1 DEF GraphOk
      <4> QED
        BY <1>1, <4>1, <4>2
    <3> QED
      BY <3>1, <3>2
  <2>4. ASSUME NEW i \in DOMAIN k[n].parents PROVE k[n].parents[i] \in 1 .. n /\ k[n].parents[i] \in k[n].anc
    <3>1. ps[i] \in c[ps[i]].anc
      BY <1>1 DEF GraphOk
    <3> QED
      BY <1>1, <3>1
  <2> QED
    BY <2>1, <2>2, <2>3, <2>4
<1>4. \A j \in 1 .. n : j \in 1 .. Len(c) \/ j = n
  BY <1>1
<1>5. ASSUME NEW j \in 1 .. n
      PROVE  /\ j \in k[j].line /\ k[j].line \subseteq k[j].anc
             /\ \A x \in k[j].anc : x \in 1 .. n /\ x <= j /\ k[x].anc \subseteq k[j].anc
             /\ \A i \in DOMAIN k[j].parents : k[j].parents[i] \in 1 .. n /\ k[j].parents[i] \in k[j].anc
  <2>1. CASE j = n
    BY <1>3, <2>1
  <2>2. CASE j \in 1 .. Len(c)
    BY <1>2, <2>2
  <2> QED
    BY <1>4, <2>1, <2>2
<1>6. IsSeq(k) /\ Len(k) = n
  BY <1>1
<1> HIDE DEF n
<1>7. GraphOk(k)
  BY <1>5, <1>6 DEF GraphOk
<1> QED
  BY <1>7 DEF k

\* Commits that exist stay as they are, and with them everything that is said of them.
LEMMA BranchKept ==
  ASSUME NEW c, GraphOk(c), NEW ps, NEW t, NEW m \in 1 .. Len(c), NEW h, BranchOk(c, m, h)
  PROVE  BranchOk(Commit(c, ps, t), m, h)
<1> DEFINE k == Commit(c, ps, t)
<1>1. /\ Len(c) \in Nat /\ Len(k) = Len(c) + 1
      /\ \A i \in 1 .. Len(c) : k[i] = c[i]
  BY CommitFacts DEF GraphOk
<1> HIDE DEF k
<1>2. h \in 1 .. Len(c) /\ h \in 1 .. Len(k)
  BY <1>1 DEF BranchOk
<1>3. PICK b \in 1 .. Len(c) : Fork(c, m, h, b)
  BY DEF BranchOk
<1>4. Fork(k, m, h, b) /\ b \in 1 .. Len(k)
  BY <1>1, <1>2, <1>3 DEF Fork
<1>5. Branch(k, m, h) = Branch(c, m, h)
  BY <1>1, <1>2 DEF Branch
<1>6. ASSUME NEW x \in Branch(c, m, h), NEW i \in DOMAIN k[x].parents
      PROVE  ParentOk(k, m, h, x, k[x].parents[i])
  <2>1. x \in 1 .. Len(c)
    BY <1>2 DEF Branch, GraphOk
  <2>2. k[x] = c[x] /\ k[m] = c[m]
    BY <1>1, <2>1
  <2>3. ParentOk(c, m, h, x, c[x].parents[i]) /\ c[x].parents[i] \in 1 .. Len(c)
    BY <2>1, <2>2 DEF BranchOk, GraphOk
  <2>4. k[c[x].parents[i]] = c[c[x].parents[i]]
    BY <1>1, <2>3
  <2> QED
    BY <1>5, <2>2, <2>3, <2>4 DEF ParentOk
<1> QED
  BY <1>2, <1>4, <1>5, <1>6 DEF BranchOk, k

\* A branch that has taken a commit, whose parents are its head and perhaps the base branch.
LEMMA BranchAdvances ==
  ASSUME NEW c, GraphOk(c), NEW t, NEW m \in 1 .. Len(c), NEW h, BranchOk(c, m, h),
         NEW ps \in {<<h>>, <<h, m>>}
  PROVE  BranchOk(Commit(c, ps, t), m, Len(c) + 1)
<1> DEFINE k == Commit(c, ps, t)
           n == Len(c) + 1
           B == Branch(c, m, h)
<1>1. /\ Len(c) \in Nat /\ Len(k) = n
      /\ \A i \in 1 .. Len(c) : k[i] = c[i]
      /\ k[n].parents = ps
      /\ k[n].anc = {n} \cup UNION {c[ps[i]].anc : i \in DOMAIN ps}
  BY CommitFacts DEF GraphOk
<1> HIDE DEF k
<1>2. h \in 1 .. Len(c) /\ \A x \in B : \A i \in DOMAIN c[x].parents : ParentOk(c, m, h, x, c[x].parents[i])
  BY DEF BranchOk
<1>3. PICK b \in 1 .. Len(c) : Fork(c, m, h, b)
  BY DEF BranchOk
<1>4. h \in B \/ h = b
  BY <1>2, <1>3, ForkIn
<1>5. k[n].anc = {n} \cup c[h].anc \/ (ps = <<h, m>> /\ k[n].anc = {n} \cup c[h].anc \cup c[m].anc)
  <2>1. CASE ps = <<h>>
    <3>1. DOMAIN ps = {1} /\ ps[1] = h
      BY <2>1
    <3> QED
      BY <1>1, <3>1
  <2>2. CASE ps = <<h, m>>
    <3>1. DOMAIN ps = {1, 2} /\ ps[1] = h /\ ps[2] = m
      BY <2>2
    <3> QED
      BY <1>1, <2>2, <3>1
  <2> QED
    BY <2>1, <2>2
<1>6. n \notin c[m].anc /\ n \notin c[h].anc /\ k[m] = c[m] /\ k[h] = c[h] /\ k[b] = c[b]
  BY <1>1, <1>2, <1>3 DEF GraphOk
<1>7. Branch(k, m, n) = {n} \cup B
  BY <1>5, <1>6 DEF Branch
<1>8. \E f \in 1 .. Len(k) : Fork(k, m, n, f)
  <2>1. CASE k[n].anc = {n} \cup c[h].anc
    <3>1. k[n].anc \cap k[m].anc = c[h].anc \cap c[m].anc
      BY <1>6, <2>1
    <3>2. Fork(k, m, n, b)
      BY <1>3, <1>6, <3>1 DEF Fork
    <3> QED
      BY <1>1, <1>3, <3>2
  <2>2. CASE k[n].anc = {n} \cup c[h].anc \cup c[m].anc
    <3>1. k[n].anc \cap k[m].anc = k[m].anc
      BY <1>6, <2>2
    <3>2. m \in k[m].line
      BY <1>6 DEF GraphOk
    <3>3. Fork(k, m, n, m)
      BY <3>1, <3>2 DEF Fork
    <3> QED
      BY <1>1, <3>3
  <2> QED
    BY <1>5, <2>1, <2>2
<1>9. \A x \in B : x \in 1 .. Len(c) /\ x <= h
  BY <1>2 DEF Branch, GraphOk
<1>10. ASSUME NEW x \in B, NEW i \in DOMAIN k[x].parents
       PROVE  ParentOk(k, m, n, x, k[x].parents[i])
  <2>1. k[x] = c[x]
    BY <1>1, <1>9
  <2>2. ParentOk(c, m, h, x, c[x].parents[i]) /\ c[x].parents[i] \in 1 .. Len(c)
    BY <1>2, <1>9, <2>1 DEF GraphOk
  <2> DEFINE p == c[x].parents[i]
  <2>3. CASE p \in B /\ p < x /\ \A z \in B : z < x => z <= p
    <3>1. \A z \in {n} \cup B : z < x => z \in B
      BY <1>1, <1>9
    <3> QED
      BY <1>7, <2>1, <2>3, <3>1 DEF ParentOk
  <2>4. CASE p \in c[m].line /\ c[p].tree.ledger = c[m].tree.ledger
    <3>1. k[p] = c[p]
      BY <1>1, <2>2
    <3> QED
      BY <1>6, <2>1, <2>4, <3>1 DEF ParentOk
  <2> QED
    BY <2>2, <2>3, <2>4 DEF ParentOk
<1>11. ASSUME NEW i \in DOMAIN k[n].parents
       PROVE  ParentOk(k, m, n, n, k[n].parents[i])
  <2>1. k[n].parents[i] \in {h, m}
    <3>1. CASE ps = <<h>>
      BY <1>1, <3>1
    <3>2. CASE ps = <<h, m>>
      BY <1>1, <3>2
    <3> QED
      BY <3>1, <3>2
  <2>2. ParentOk(k, m, n, n, m)
    <3>1. m \in k[m].line
      BY <1>6 DEF GraphOk
    <3> QED
      BY <3>1 DEF ParentOk
  <2>3. ParentOk(k, m, n, n, h)
    <3>1. CASE h \in B
      <4>1. h < n /\ \A z \in {n} \cup B : z < n => z <= h
        BY <1>1, <1>2, <1>9
      <4> QED
        BY <1>7, <3>1, <4>1 DEF ParentOk
    <3>2. CASE h = b
      BY <1>3, <1>6, <3>2 DEF ParentOk, Fork
    <3> QED
      BY <1>4, <3>1, <3>2
  <2> QED
    BY <2>1, <2>2, <2>3
<1>12. n \in 1 .. Len(k)
  BY <1>1
<1>13. \A x \in Branch(k, m, n) : \A i \in DOMAIN k[x].parents : ParentOk(k, m, n, x, k[x].parents[i])
  <2> HIDE DEF n, B
  <2> QED
    BY <1>7, <1>10, <1>11
<1> QED
  BY <1>8, <1>12, <1>13 DEF BranchOk, k

\* The base branch has taken a commit that leaves the ledger and the workflow alone.
LEMMA BaseAdvances ==
  ASSUME NEW c, GraphOk(c), NEW t, NEW m \in 1 .. Len(c), NEW h, BranchOk(c, m, h),
         t.ledger = c[m].tree.ledger, t.wf = c[m].tree.wf
  PROVE  LET k == Commit(c, <<m>>, t)  n == Len(c) + 1
         IN  /\ BranchOk(k, n, h) /\ MergeBase(k, n, h) = MergeBase(c, m, h)
             /\ k[n].anc = {n} \cup c[m].anc /\ k[n].line = {n} \cup c[m].line
             /\ k[n].anc \cap k[h].anc = c[m].anc \cap c[h].anc
<1> DEFINE k == Commit(c, <<m>>, t)
           n == Len(c) + 1
           B == Branch(c, m, h)
<1>1. /\ Len(c) \in Nat /\ Len(k) = n
      /\ \A i \in 1 .. Len(c) : k[i] = c[i]
      /\ k[n].tree = t
      /\ k[n].anc = {n} \cup UNION {c[<<m>>[i]].anc : i \in DOMAIN <<m>>}
      /\ k[n].line = {n} \cup (IF <<m>> = <<>> THEN {} ELSE c[<<m>>[1]].line)
  BY CommitFacts DEF GraphOk
<1>2. DOMAIN <<m>> = {1} /\ <<m>>[1] = m /\ <<m>> # <<>>
  OBVIOUS
<1> HIDE DEF k
<1>3. k[n].anc = {n} \cup c[m].anc /\ k[n].line = {n} \cup c[m].line
  BY <1>1, <1>2
<1>4. h \in 1 .. Len(c) /\ \A x \in B : \A i \in DOMAIN c[x].parents : ParentOk(c, m, h, x, c[x].parents[i])
  BY DEF BranchOk
<1>5. PICK b \in 1 .. Len(c) : Fork(c, m, h, b)
  BY DEF BranchOk
<1>6. n \notin c[h].anc /\ k[h] = c[h] /\ k[b] = c[b]
  BY <1>1, <1>4, <1>5 DEF GraphOk
<1>7. k[n].anc \cap k[h].anc = c[m].anc \cap c[h].anc /\ k[h].anc \cap k[n].anc = c[h].anc \cap c[m].anc
  BY <1>3, <1>6
<1>8. MergeBase(k, n, h) = MergeBase(c, m, h)
  BY <1>7 DEF MergeBase
<1>9. Branch(k, n, h) = B
  BY <1>3, <1>6 DEF Branch
<1>10. Fork(k, n, h, b) /\ b \in 1 .. Len(k) /\ h \in 1 .. Len(k)
  <2>1. b \in k[n].line
    BY <1>3, <1>5 DEF Fork
  <2>2. k[b].tree.ledger = k[n].tree.ledger /\ k[b].tree.wf = k[n].tree.wf
    BY <1>1, <1>5, <1>6 DEF Fork
  <2>3. k[h].anc \cap k[n].anc = k[b].anc
    BY <1>5, <1>6, <1>7 DEF Fork
  <2> QED
    BY <1>1, <1>4, <1>5, <2>1, <2>2, <2>3 DEF Fork
<1>11. ASSUME NEW x \in B, NEW i \in DOMAIN k[x].parents
       PROVE  ParentOk(k, n, h, x, k[x].parents[i])
  <2>1. x \in 1 .. Len(c)
    BY <1>4 DEF Branch, GraphOk
  <2>2. k[x] = c[x]
    BY <1>1, <2>1
  <2>3. ParentOk(c, m, h, x, c[x].parents[i]) /\ c[x].parents[i] \in 1 .. Len(c)
    BY <1>4, <2>1, <2>2 DEF GraphOk
  <2>4. k[c[x].parents[i]] = c[c[x].parents[i]]
    BY <1>1, <2>3
  <2> QED
    BY <1>1, <1>3, <1>9, <2>2, <2>3, <2>4 DEF ParentOk
<1>12. BranchOk(k, n, h)
  <2> HIDE DEF n, B
  <2> QED
    BY <1>9, <1>10, <1>11 DEF BranchOk
<1> QED
  BY <1>3, <1>7, <1>8, <1>12 DEF k

\* A branch that starts at the base branch.
LEMMA FreshBranch ==
  ASSUME NEW c, GraphOk(c), NEW m \in 1 .. Len(c)
  PROVE  BranchOk(c, m, m)
<1>1. Fork(c, m, m, m)
  BY DEF Fork, GraphOk
<1>2. Branch(c, m, m) = {}
  BY DEF Branch
<1> QED
  BY <1>1, <1>2 DEF BranchOk

-----------------------------------------------------------------------------
(***************************************************************************)
(* What a new commit or receipt does to the receipts and to passed heads.  *)
(***************************************************************************)

LEMMA DocKept ==
  ASSUME NEW c, IsSeq(c), NEW ps, NEW t, NEW d, DocOk(c, d)
  PROVE  DocOk(Commit(c, ps, t), d)
<1> DEFINE k == Commit(c, ps, t)
<1>1. Len(c) \in Nat /\ Len(k) = Len(c) + 1 /\ \A i \in 1 .. Len(c) : k[i] = c[i]
  BY CommitFacts
<1> HIDE DEF k
<1>2. k[d.base] = c[d.base] /\ k[d.head] = c[d.head] /\ d.base \in 1 .. Len(k) /\ d.head \in 1 .. Len(k)
  BY <1>1 DEF DocOk
<1>3. RangeFiles(k, d.base, d.head) = RangeFiles(c, d.base, d.head)
  BY <1>2 DEF RangeFiles
<1> QED
  BY <1>2, <1>3 DEF DocOk, k

LEMMA TreeKept ==
  ASSUME NEW n \in Nat, NEW t, TreeOk(t, n)
  PROVE  TreeOk(t, n + 1)
<1>1. \A i \in 0 .. n : i \in 0 .. n + 1
  OBVIOUS
<1>2. \A i \in 1 .. n : i \in 1 .. n + 1
  OBVIOUS
<1> QED
  BY <1>1, <1>2 DEF TreeOk

LEMMA RecordsCommit ==
  ASSUME NEW c, IsSeq(c), NEW ds, RecordsOk(c, ds), NEW ps, NEW t, TreeOk(t, Len(ds))
  PROVE  RecordsOk(Commit(c, ps, t), ds)
<1> DEFINE k == Commit(c, ps, t)
<1>1. Len(c) \in Nat /\ Len(k) = Len(c) + 1 /\ (\A i \in 1 .. Len(c) : k[i] = c[i]) /\ k[Len(c) + 1].tree = t
  BY CommitFacts
<1>2. \A n \in 1 .. Len(ds) : DocOk(k, ds[n])
  BY DocKept DEF RecordsOk
<1> HIDE DEF k
<1>3. \A n \in 1 .. Len(k) : TreeOk(k[n].tree, Len(ds))
  <2>1. \A n \in 1 .. Len(k) : n \in 1 .. Len(c) \/ n = Len(c) + 1
    BY <1>1
  <2> QED
    BY <1>1, <2>1 DEF RecordsOk
<1> QED
  BY <1>2, <1>3 DEF RecordsOk, k

LEMMA RecordsAppend ==
  ASSUME NEW c, NEW ds, RecordsOk(c, ds), NEW d, DocOk(c, d)
  PROVE  RecordsOk(c, Append(ds, d)) /\ Len(Append(ds, d)) = Len(ds) + 1 /\ Len(ds) \in Nat
<1> DEFINE es == Append(ds, d)
<1>1. /\ Len(ds) \in Nat /\ Len(es) = Len(ds) + 1 /\ IsSeq(es)
      /\ \A i \in 1 .. Len(ds) : es[i] = ds[i]
      /\ es[Len(ds) + 1] = d
  BY Appended DEF RecordsOk
<1> HIDE DEF es
<1>2. \A n \in 1 .. Len(es) : n \in 1 .. Len(ds) \/ n = Len(ds) + 1
  BY <1>1
<1>3. \A n \in 1 .. Len(es) : DocOk(c, es[n])
  BY <1>1, <1>2 DEF RecordsOk
<1>4. \A n \in 1 .. Len(c) : TreeOk(c[n].tree, Len(es))
  BY <1>1, TreeKept DEF RecordsOk
<1> QED
  BY <1>1, <1>3, <1>4 DEF RecordsOk, es

LEMMA SoundKept ==
  ASSUME NEW c, GraphOk(c), NEW ps, NEW t, NEW n \in 1 .. Len(c), Sound(c, n)
  PROVE  Sound(Commit(c, ps, t), n)
<1> DEFINE k == Commit(c, ps, t)
<1>1. \A i \in 1 .. Len(c) : k[i] = c[i]
  BY CommitFacts DEF GraphOk
<1> HIDE DEF k
<1>2. k[n] = c[n] /\ \A a \in c[n].anc : k[a] = c[a]
  BY <1>1 DEF GraphOk
<1>3. \A p : StoodGood(c, n, p) => StoodGood(k, n, p)
  BY <1>2 DEF StoodGood
<1> QED
  BY <1>3 DEF Sound, k

LEMMA CheckKept ==
  ASSUME NEW c, GraphOk(c), NEW ps, NEW t, NEW m \in 1 .. Len(c), NEW x, NEW seen, NEW route,
         CheckOk(c, m, x, seen, route)
  PROVE  CheckOk(Commit(c, ps, t), m, x, seen, route)
<1> DEFINE k == Commit(c, ps, t)
           h == x.head
<1>1. Len(c) \in Nat /\ Len(k) = Len(c) + 1 /\ \A i \in 1 .. Len(c) : k[i] = c[i]
  BY CommitFacts DEF GraphOk
<1>2. BranchOk(c, m, h)
  BY DEF CheckOk
<1>3. BranchOk(k, m, h)
  BY <1>2, BranchKept
<1>4. Sound(c, h) => Sound(k, h)
  BY <1>2, SoundKept DEF BranchOk
<1> HIDE DEF k, h
<1>5. PICK b : Fork(c, m, h, b) /\ h \in 1 .. Len(c)
  BY <1>2 DEF BranchOk
<1>6. b \in 1 .. Len(c) /\ MergeBase(c, m, h) = b
  BY <1>5, ForkIn
<1>7. k[m] = c[m] /\ k[h] = c[h] /\ k[b] = c[b]
  BY <1>1, <1>5, <1>6
<1>8. MergeBase(k, m, h) = b
  BY <1>6, <1>7 DEF MergeBase
<1>9. PassedOk(c, m, h, seen, route) => PassedOk(k, m, h, seen, route)
  BY <1>6, <1>7, <1>8, <1>4 DEF PassedOk
<1> QED
  BY <1>3, <1>9 DEF CheckOk, k, h

LEMMA CheckKeptByBase ==
  ASSUME NEW c, GraphOk(c), NEW t, NEW m \in 1 .. Len(c), NEW x, NEW seen, NEW route,
         CheckOk(c, m, x, seen, route), t.ledger = c[m].tree.ledger, t.wf = c[m].tree.wf
  PROVE  CheckOk(Commit(c, <<m>>, t), Len(c) + 1, x, seen, route)
<1> DEFINE k == Commit(c, <<m>>, t)
           n == Len(c) + 1
           h == x.head
<1>1. Len(c) \in Nat /\ Len(k) = Len(c) + 1 /\ \A i \in 1 .. Len(c) : k[i] = c[i]
  BY CommitFacts DEF GraphOk
<1>2. BranchOk(c, m, h)
  BY DEF CheckOk
<1>3. /\ BranchOk(k, n, h) /\ MergeBase(k, n, h) = MergeBase(c, m, h)
      /\ k[n].anc = {n} \cup c[m].anc
  BY <1>2, BaseAdvances
<1>4. Sound(c, h) => Sound(k, h)
  BY <1>2, SoundKept DEF BranchOk
<1> HIDE DEF k, h, n
<1>5. PICK b : Fork(c, m, h, b) /\ h \in 1 .. Len(c)
  BY <1>2 DEF BranchOk
<1>6. b \in 1 .. Len(c) /\ MergeBase(c, m, h) = b
  BY <1>5, ForkIn
<1>7. k[h] = c[h] /\ k[b] = c[b]
  BY <1>1, <1>5, <1>6
<1>8. seen \cap c[m].anc # {} => seen \cap k[n].anc # {}
  BY <1>3
<1>9. PassedOk(c, m, h, seen, route) => PassedOk(k, n, h, seen, route)
  BY <1>3, <1>6, <1>7, <1>8, <1>4 DEF PassedOk
<1> QED
  BY <1>3, <1>9 DEF CheckOk, k, h, n

-----------------------------------------------------------------------------
(***************************************************************************)
(* The steps, by what they do to the commits.                              *)
(***************************************************************************)

DocsGrow == docs' = docs \/ \E d : DocOk(cs, d) /\ docs' = Append(docs, d)

LEMMA DocsGrown ==
  ASSUME Inv, DocsGrow
  PROVE  /\ RecordsOk(cs, docs') /\ Len(docs) \in Nat /\ Len(docs') \in Nat
         /\ Len(docs) <= Len(docs') /\ 1 .. Len(docs) \subseteq 1 .. Len(docs')
<1>1. RecordsOk(cs, docs) /\ Len(docs) \in Nat
  BY Appended DEF Inv, RecordInv, RecordsOk
<1>2. CASE docs' = docs
  BY <1>1, <1>2
<1>3. ASSUME NEW d, DocOk(cs, d), docs' = Append(docs, d)
      PROVE  RecordsOk(cs, docs') /\ Len(docs') = Len(docs) + 1
  BY <1>1, <1>3, RecordsAppend
<1>4. RecordsOk(cs, docs') /\ Len(docs') \in {Len(docs), Len(docs) + 1}
  BY <1>1, <1>2, <1>3 DEF DocsGrow
<1> QED
  BY <1>1, <1>4

\* What the job keeps of its own commits.
LEMMA JobCommits ==
  ASSUME Inv, job # Idle
  PROVE  job.main \in Commits /\ job.head \in Commits /\ BranchOk(cs, main, job.head)
<1>1. job.check \in 1 .. Len(checks) /\ checks[job.check].head = job.head /\ job.main \in Commits
  BY DEF Inv, JobInv
<1>2. BranchOk(cs, main, checks[job.check].head)
  BY <1>1 DEF Inv, ChecksInv, CheckOk
<1> QED
  BY <1>1, <1>2 DEF BranchOk, Commits

\* A commit on the branch, with or without a receipt.
LEMMA TipStep ==
  ASSUME Inv, NEW ps \in {<<tip>>, <<tip, main>>}, NEW t, cs' = Commit(cs, ps, t), tip' = Len(cs) + 1,
         DocsGrow, TreeOk(t, Len(docs')), body' \subseteq 1 .. Len(docs'), UNCHANGED <<env, main, checks, job, gaps, up>>
  PROVE  Inv'
<1>1. GraphOk(cs) /\ main \in 1 .. Len(cs) /\ tip \in 1 .. Len(cs)
  BY DEF Inv, GraphInv, Commits
<1>2. /\ Len(cs) \in Nat /\ Len(cs') = Len(cs) + 1
      /\ \A i \in 1 .. Len(cs) : cs'[i] = cs[i]
  BY <1>1, CommitFacts DEF GraphOk
<1>3. GraphOk(cs')
  <2>1. (\A i \in DOMAIN ps : ps[i] \in 1 .. Len(cs)) /\ 1 \in DOMAIN ps
    BY <1>1
  <2> QED
    BY <1>1, <2>1, CommitGraph
<1>4. GraphInv'
  BY <1>1, <1>2, <1>3 DEF GraphInv, Commits
<1>5. /\ RecordsOk(cs, docs') /\ Len(docs) \in Nat /\ Len(docs') \in Nat
      /\ 1 .. Len(docs) \subseteq 1 .. Len(docs')
  BY DocsGrown
<1>6. RecordInv'
  <2>1. RecordsOk(cs', docs')
    BY <1>1, <1>5, RecordsCommit DEF GraphOk
  <2>2. env \in Settings /\ (up.has => up.car \in 1 .. Len(docs))
    BY DEF Inv, RecordInv
  <2> QED
    BY <1>5, <2>1, <2>2 DEF RecordInv
<1>7. BranchOk(cs, main, tip)' 
  <2>1. BranchOk(cs, main, tip)
    BY DEF Inv
  <2>2. BranchOk(Commit(cs, ps, t), main, Len(cs) + 1)
    BY <1>1, <2>1, BranchAdvances
  <2> QED
    BY <2>2
<1>8. LineInv'
  <2>1. cs'[main] = cs[main] /\ \A n \in cs[main].line : n \in 1 .. Len(cs)
    BY <1>1, <1>2 DEF GraphOk
  <2>2. \A n \in cs[main].line : cs'[n] = cs[n] /\ (Sound(cs, n) => Sound(cs', n))
    BY <1>1, <1>2, <2>1, SoundKept
  <2> QED
    BY <2>1, <2>2 DEF Inv, LineInv
<1>9. ChecksInv'
  <2>1. \A i \in 1 .. Len(checks) : CheckOk(cs', main, checks[i], gaps, env.route)
    BY <1>1, CheckKept DEF Inv, ChecksInv
  <2> QED
    BY <2>1 DEF Inv, ChecksInv
<1>10. JobInv'
  <2> SUFFICES ASSUME job # Idle
               PROVE  /\ job.check \in 1 .. Len(checks) /\ checks[job.check].head = job.head
                      /\ job.main \in 1 .. Len(cs')
                      /\ cs'[job.main].line \subseteq cs'[main].line
                      /\ cs'[job.main].anc \cap cs'[job.head].anc = cs'[main].anc \cap cs'[job.head].anc
                      /\ job.body \subseteq 1 .. Len(docs')
    BY DEF JobInv, Commits, Idle
  <2>1. job.main \in 1 .. Len(cs) /\ job.head \in 1 .. Len(cs)
    BY JobCommits DEF Commits
  <2>2. cs'[job.main] = cs[job.main] /\ cs'[job.head] = cs[job.head] /\ cs'[main] = cs[main]
    BY <1>1, <1>2, <2>1
  <2> QED
    BY <1>2, <1>5, <2>1, <2>2 DEF Inv, JobInv
<1> QED
  BY <1>4, <1>6, <1>7, <1>8, <1>9, <1>10 DEF Inv

\* A step that leaves the commits and the check runs alone.
LEMMA QuietStep ==
  ASSUME Inv, DocsGrow, body' \subseteq 1 .. Len(docs'), up'.has => up'.car \in 1 .. Len(docs'),
         UNCHANGED <<env, cs, main, tip, checks, job, gaps>>
  PROVE  Inv'
<1>1. /\ RecordsOk(cs, docs') /\ Len(docs) \in Nat /\ Len(docs') \in Nat
      /\ 1 .. Len(docs) \subseteq 1 .. Len(docs')
  BY DocsGrown
<1>2. RecordInv'
  BY <1>1 DEF Inv, RecordInv
<1>3. JobInv'
  BY <1>1 DEF Inv, JobInv, Commits, Idle
<1>4. GraphInv' /\ BranchOk(cs, main, tip)' /\ LineInv' /\ ChecksInv'
  BY DEF Inv, GraphInv, Commits, LineInv, ChecksInv
<1> QED
  BY <1>2, <1>3, <1>4 DEF Inv

\* Somebody else's change: it is unbroken where it lands and leaves ledger and workflow alone.
LEMMA BaseStep ==
  ASSUME Inv, NEW t, cs' = Commit(cs, <<main>>, t), main' = Len(cs) + 1, TreeOk(t, Len(docs)),
         t.ledger = cs[main].tree.ledger, t.wf = cs[main].tree.wf, ~Clash(t),
         UNCHANGED <<env, tip, docs, body, checks, up, job, gaps>>
  PROVE  Inv'
<1> DEFINE n == Len(cs) + 1
<1>1. GraphOk(cs) /\ main \in 1 .. Len(cs) /\ tip \in 1 .. Len(cs)
  BY DEF Inv, GraphInv, Commits
<1>2. /\ Len(cs) \in Nat /\ Len(cs') = n
      /\ \A i \in 1 .. Len(cs) : cs'[i] = cs[i]
      /\ cs'[n].tree = t
  BY <1>1, CommitFacts DEF GraphOk
<1>3. GraphOk(cs')
  <2>1. (\A i \in DOMAIN <<main>> : <<main>>[i] \in 1 .. Len(cs)) /\ 1 \in DOMAIN <<main>>
    BY <1>1
  <2> QED
    BY <1>1, <2>1, CommitGraph
<1>4. GraphInv'
  BY <1>1, <1>2, <1>3 DEF GraphInv, Commits
<1>5. RecordInv'
  <2>1. RecordsOk(cs, docs)
    BY DEF Inv, RecordInv
  <2>2. RecordsOk(cs', docs)
    BY <1>1, <2>1, RecordsCommit DEF GraphOk
  <2> QED
    BY <2>2 DEF Inv, RecordInv
<1>6. \A h : BranchOk(cs, main, h) =>
        /\ BranchOk(cs', n, h) /\ cs'[n].anc = {n} \cup cs[main].anc /\ cs'[n].line = {n} \cup cs[main].line
        /\ cs'[n].anc \cap cs'[h].anc = cs[main].anc \cap cs[h].anc
  BY <1>1, BaseAdvances
<1>7. BranchOk(cs, main, tip) 
  BY DEF Inv
<1>8. cs'[n].anc = {n} \cup cs[main].anc /\ cs'[n].line = {n} \cup cs[main].line /\ BranchOk(cs', n, tip)
  BY <1>6, <1>7
<1>9. LineInv'
  <2> SUFFICES ASSUME NEW x \in cs'[n].line PROVE Sound(cs', x) \/ gaps \cap cs'[x].anc # {}
    BY DEF LineInv
  <2>1. \A y \in cs[main].line : y \in 1 .. Len(cs) /\ cs'[y] = cs[y] /\ (Sound(cs, y) => Sound(cs', y))
    BY <1>1, <1>2, SoundKept DEF GraphOk
  <2>2. CASE x = n
    <3>1. ~Clash(cs'[n].tree) /\ n \in cs'[n].anc
      BY <1>2, <1>8
    <3>2. Sound(cs', n)
      BY <3>1 DEF Sound, StoodGood
    <3> QED
      BY <2>2, <3>2
  <2>3. CASE x \in cs[main].line
    BY <2>1, <2>3 DEF Inv, LineInv
  <2> QED
    BY <1>8, <2>2, <2>3
<1>10. ChecksInv'
  <2>1. \A i \in 1 .. Len(checks) : CheckOk(cs', n, checks[i], gaps, env.route)
    BY <1>1, CheckKeptByBase DEF Inv, ChecksInv
  <2> QED
    BY <2>1 DEF Inv, ChecksInv
<1>11. JobInv'
  <2> SUFFICES ASSUME job # Idle
               PROVE  /\ job.check \in 1 .. Len(checks) /\ checks[job.check].head = job.head
                      /\ job.main \in 1 .. Len(cs')
                      /\ cs'[job.main].line \subseteq cs'[n].line
                      /\ cs'[job.main].anc \cap cs'[job.head].anc = cs'[n].anc \cap cs'[job.head].anc
                      /\ job.body \subseteq 1 .. Len(docs)
    BY DEF JobInv, Commits, Idle
  <2>1. job.main \in 1 .. Len(cs) /\ job.head \in 1 .. Len(cs) /\ BranchOk(cs, main, job.head)
    BY JobCommits DEF Commits
  <2>2. cs'[job.main] = cs[job.main] /\ cs'[job.head] = cs[job.head]
    BY <1>2, <2>1
  <2>3. cs'[n].anc \cap cs'[job.head].anc = cs[main].anc \cap cs[job.head].anc
    BY <1>6, <2>1
  <2>4. /\ job.check \in 1 .. Len(checks) /\ checks[job.check].head = job.head
        /\ cs[job.main].line \subseteq cs[main].line
        /\ cs[job.main].anc \cap cs[job.head].anc = cs[main].anc \cap cs[job.head].anc
        /\ job.body \subseteq 1 .. Len(docs)
    BY DEF Inv, JobInv
  <2>5. job.main \in 1 .. Len(cs')
    BY <1>2, <2>1
  <2>6. cs'[job.main].line \subseteq cs'[n].line
    BY <1>8, <2>2, <2>4
  <2>7. cs'[job.main].anc \cap cs'[job.head].anc = cs'[n].anc \cap cs'[job.head].anc
    BY <2>2, <2>3, <2>4
  <2> QED
    BY <2>4, <2>5, <2>6, <2>7
<1> QED
  BY <1>4, <1>5, <1>8, <1>9, <1>10, <1>11 DEF Inv

\* The head that lands was passed.
LEMMA LandsPassed ==
  ASSUME Inv, Land
  PROVE  PassedOk(cs, main, tip, gaps, env.route)
<1> DEFINE runs == {i \in DOMAIN checks : checks[i].name = "graph-admission" /\ checks[i].head = tip}
<1>1. runs # {} /\ checks[Max(runs)].status = "success"
  BY DEF Land
<1>2. Len(checks) \in Nat /\ DOMAIN checks = 1 .. Len(checks)
  BY Appended DEF Inv, ChecksInv
<1>3. runs \in SUBSET (1 .. Len(checks))
  BY <1>2
<1>4. Max(runs) \in runs
  <2> HIDE DEF runs
  <2> QED
    BY <1>1, <1>2, <1>3, MaxIn
<1> DEFINE i == Max(runs)
<1>5. i \in 1 .. Len(checks) /\ checks[i].name = "graph-admission" /\ checks[i].head = tip
  BY <1>2, <1>4
<1> HIDE DEF i
<1> QED
  BY <1>1, <1>5 DEF Inv, ChecksInv, CheckOk, i

\* What the merge that lands has at a path.
LEMMA MergedAt ==
  ASSUME NEW a, NEW b, NEW p \in Paths
  PROVE  LET m == MergeBase(cs, a, b)
         IN  \/ cs[m].tree[p] # cs[a].tree[p] /\ Merged(a, b)[p] = cs[a].tree[p]
             \/ cs[m].tree[p] = cs[a].tree[p] /\ Merged(a, b)[p] = cs[b].tree[p]
BY DEF Merged, Names

LEMMA LandStep ==
  ASSUME Inv, Land, TreeOk(Merged(main, tip), Len(docs))
  PROVE  Inv'
<1> DEFINE n == Len(cs) + 1
           t == Merged(main, tip)
           ps == <<main, tip>>
<1>0. /\ cs' = Commit(cs, ps, t) /\ main' = n /\ tip' = n /\ checks' = <<>> /\ body' = {} /\ up' = NoUserpath
      /\ job = Idle /\ UNCHANGED <<env, docs, job, gaps>>
  BY DEF Land
<1>1. GraphOk(cs) /\ main \in 1 .. Len(cs) /\ tip \in 1 .. Len(cs)
  BY DEF Inv, GraphInv, Commits
<1>2. /\ Len(cs) \in Nat /\ Len(cs') = n
      /\ \A i \in 1 .. Len(cs) : cs'[i] = cs[i]
      /\ cs'[n].tree = t
      /\ cs'[n].anc = {n} \cup UNION {cs[ps[i]].anc : i \in DOMAIN ps}
      /\ cs'[n].line = {n} \cup (IF ps = <<>> THEN {} ELSE cs[ps[1]].line)
  <2>1. IsSeq(cs)
    BY <1>1 DEF GraphOk
  <2> DEFINE k == Commit(cs, ps, t)
  <2> HIDE DEF ps, t
  <2>2. /\ Len(cs) \in Nat /\ Len(k) = n
        /\ \A i \in 1 .. Len(cs) : k[i] = cs[i]
        /\ k[n].tree = t
        /\ k[n].anc = {n} \cup UNION {cs[ps[i]].anc : i \in DOMAIN ps}
        /\ k[n].line = {n} \cup (IF ps = <<>> THEN {} ELSE cs[ps[1]].line)
    BY <2>1, CommitFacts
  <2>3. cs' = k
    BY <1>0
  <2> HIDE DEF k
  <2> QED
    BY <2>2, <2>3
<1>3. DOMAIN ps = {1, 2} /\ ps[1] = main /\ ps[2] = tip /\ ps # <<>>
  OBVIOUS
<1>4. cs'[n].anc = {n} \cup cs[main].anc \cup cs[tip].anc /\ cs'[n].line = {n} \cup cs[main].line
  BY <1>2, <1>3
<1>5. GraphOk(cs')
  BY <1>0, <1>1, <1>3, CommitGraph
<1>6. GraphInv'
  BY <1>0, <1>1, <1>2, <1>5 DEF GraphInv, Commits
<1>7. RecordInv'
  <2>1. RecordsOk(cs, docs) /\ env \in Settings
    BY DEF Inv, RecordInv
  <2>2. RecordsOk(cs', docs)
    BY <1>0, <1>1, <2>1, RecordsCommit DEF GraphOk
  <2>3. ~NoUserpath.has
    BY DEF NoUserpath
  <2> QED
    BY <1>0, <2>1, <2>2, <2>3 DEF RecordInv
<1>8. BranchOk(cs', n, n)
  BY <1>2, <1>5, FreshBranch
<1>9. LineInv'
  <2> SUFFICES ASSUME NEW x \in cs'[n].line PROVE Sound(cs', x) \/ gaps \cap cs'[x].anc # {}
    BY <1>0 DEF LineInv
  <2>1. \A y \in cs[main].line : y \in 1 .. Len(cs) /\ cs'[y] = cs[y] /\ (Sound(cs, y) => Sound(cs', y))
    BY <1>0, <1>1, <1>2, SoundKept DEF GraphOk
  <2>3. CASE x = n
    <3> SUFFICES ASSUME gaps \cap cs'[n].anc = {} PROVE Sound(cs', n)
      BY <2>3
    <3>1. main \in cs[main].line /\ tip \in cs[tip].anc /\ main \in cs[main].anc
      BY <1>1 DEF GraphOk
    <3>2. Sound(cs, main)
      BY <1>4, <3>1 DEF Inv, LineInv
    <3>3. Sound(cs, tip)
      BY <1>4, <3>1, LandsPassed DEF PassedOk
    <3>4. Sound(cs', main) /\ Sound(cs', tip) /\ cs'[main] = cs[main] /\ cs'[tip] = cs[tip]
      BY <1>0, <1>1, <1>2, <3>2, <3>3, SoundKept
    <3>5. main \in cs'[n].anc /\ tip \in cs'[n].anc /\ n \in 1 .. Len(cs')
      BY <1>2, <1>4, <3>1
    <3>6. ASSUME NEW p \in {"src", "lock"} PROVE StoodGood(cs', n, p)
      <4>1. t[p] = cs[main].tree[p] \/ t[p] = cs[tip].tree[p]
        BY SourcePaths, MergedAt
      <4> HIDE DEF t, n
      <4>2. PICK q \in {main, tip} : cs'[q].tree[p] = cs'[n].tree[p]
        BY <1>2, <3>4, <4>1
      <4>3. StoodGood(cs', q, p) /\ q \in cs'[n].anc
        BY <3>4, <3>5 DEF Sound
      <4> QED
        BY <1>5, <3>5, <4>2, <4>3, Inherited
    <3> QED
      BY <3>6 DEF Sound
  <2>4. CASE x \in cs[main].line
    BY <2>1, <2>4 DEF Inv, LineInv
  <2> QED
    BY <1>4, <2>3, <2>4
<1>10. ChecksInv'
  <2>1. IsSeq(<<>>) /\ Len(<<>>) = 0
    BY DEF IsSeq
  <2> QED
    BY <1>0, <2>1 DEF ChecksInv
<1>11. JobInv'
  BY <1>0 DEF JobInv, Idle
<1> QED
  BY <1>0, <1>6, <1>7, <1>8, <1>9, <1>10, <1>11 DEF Inv

-----------------------------------------------------------------------------
(***************************************************************************)
(* The trees and the receipts that the authors' steps write.               *)
(***************************************************************************)

LEMMA ApplyOk ==
  ASSUME NEW n \in Nat, NEW t, TreeOk(t, n), NEW e, EditOk(e)
  PROVE  TreeOk(Apply(t, e), n)
<1> DEFINE a == Apply(t, e)
<1>1. DOMAIN a = Paths /\ \A p \in Paths : a[p] = IF p \in DOMAIN e THEN e[p] ELSE t[p]
  BY DEF Apply
<1>2. {"ra", "rb", "ledger", "bundle", "decl"} \subseteq Paths /\ ReceiptIssue = {"ra", "rb"}
  BY DEF Paths, ReceiptIssue
<1> HIDE DEF a
<1>3. a.ra \in 0 .. n /\ a.rb \in 0 .. n
  BY <1>1, <1>2 DEF TreeOk, EditOk
<1>4. a.ledger = t.ledger
  BY <1>1, <1>2 DEF EditOk
<1>5. Has(a, "bundle")
  BY <1>1, <1>2 DEF TreeOk, EditOk, Has
<1>6. DeclarationOk(a.decl)
  BY <1>1, <1>2 DEF TreeOk, EditOk
<1> QED
  BY <1>1, <1>3, <1>4, <1>5, <1>6 DEF TreeOk, a

LEMMA MergedOk ==
  ASSUME NEW n \in Nat, NEW a, NEW b, TreeOk(cs[a].tree, n), TreeOk(cs[b].tree, n)
  PROVE  TreeOk(Merged(a, b), n)
<1> DEFINE t == Merged(a, b)
<1>1. DOMAIN t = Paths /\ \A p \in Paths : t[p] \in {cs[a].tree[p], cs[b].tree[p]}
  BY DEF Merged
<1>2. {"ra", "rb", "ledger", "bundle", "decl"} \subseteq Paths
  BY DEF Paths
<1> HIDE DEF t
<1>3. t.ra \in 0 .. n /\ t.rb \in 0 .. n
  BY <1>1, <1>2 DEF TreeOk
<1>4. \A x \in t.ledger.attachments : x.digest \in 1 .. n
  BY <1>1, <1>2 DEF TreeOk
<1>5. Has(t, "bundle")
  BY <1>1, <1>2 DEF TreeOk, Has
<1>6. DeclarationOk(t.decl)
  BY <1>1, <1>2 DEF TreeOk
<1> QED
  BY <1>1, <1>3, <1>4, <1>5, <1>6 DEF TreeOk, t

LEMMA FiledOk ==
  ASSUME NEW n \in Nat, NEW t, TreeOk(t, n), NEW p \in ReceiptIssue
  PROVE  TreeOk([t EXCEPT ![p] = n + 1], n + 1)
<1> DEFINE a == [t EXCEPT ![p] = n + 1]
<1>1. TreeOk(t, n + 1)
  BY TreeKept
<1>2. p \in {"ra", "rb"} /\ {"ra", "rb", "ledger", "bundle", "decl"} \subseteq Paths
  BY DEF Paths, ReceiptIssue
<1>3. DOMAIN a = Paths /\ \A q \in Paths : a[q] = IF q = p THEN n + 1 ELSE t[q]
  BY DEF TreeOk
<1>4. n + 1 \in 0 .. n + 1
  OBVIOUS
<1> HIDE DEF a
<1>5. a.ra \in 0 .. n + 1 /\ a.rb \in 0 .. n + 1
  BY <1>1, <1>2, <1>3, <1>4 DEF TreeOk
<1>6. a.ledger = t.ledger /\ a.bundle = t.bundle /\ a.decl = t.decl
  BY <1>2, <1>3
<1> QED
  BY <1>1, <1>3, <1>5, <1>6 DEF TreeOk, a, Has

\* What `attach` writes: rows the ledger had, and one of the receipt.
LEMMA AttachedRows ==
  ASSUME NEW w, NEW bound, NEW r, NEW answer, NEW a \in AttachDelivered(w, bound, r, answer).attachments
  PROVE  a \in HeadTree(w).ledger.attachments \/ a.digest = r.digest
<1> DEFINE anchor == w.cs[CoveredLedgerAnchor(w, bound)].tree.ledger
           att == BuildAttachment(r)
           l == HeadTree(w).ledger
           merged == MergeAttachment(l, att, anchor)
           given == [att EXCEPT !.delivery = MuneralDeliver(answer)]
<1>1. att.digest = r.digest /\ given.digest = r.digest
  BY DEF BuildAttachment
<1> HIDE DEF att, anchor, l
<1>2. \A x \in merged.ledger.attachments : x \in l.attachments \/ x = att
  BY DEF MergeAttachment
<1>3. {"has", "attachments"} = DOMAIN merged.ledger
  BY DEF MergeAttachment
<1> HIDE DEF given
<1>4. a \in merged.ledger.attachments \/ a = given
  <2> HIDE DEF merged
  <2>1. AttachDelivered(w, bound, r, answer) = RecordDelivery(merged, att, answer)
    BY DEF AttachDelivered, AttachMerged, AnchorLedger, merged, att, anchor, l
  <2> QED
    BY <1>3, <2>1 DEF RecordDelivery, given
<1> QED
  BY <1>1, <1>2, <1>4 DEF l

LEMMA AttachedOk ==
  ASSUME NEW n \in Nat, NEW w, NEW bound, NEW r, NEW answer, TreeOk(HeadTree(w), n), r.digest \in 1 .. n
  PROVE  TreeOk([HeadTree(w) EXCEPT !.ledger = AttachDelivered(w, bound, r, answer)], n)
<1> DEFINE l == AttachDelivered(w, bound, r, answer)
           t == HeadTree(w)
           a == [t EXCEPT !.ledger = l]
<1>1. \A x \in l.attachments : x.digest \in 1 .. n
  BY AttachedRows DEF TreeOk
<1> HIDE DEF l
<1>2. DOMAIN a = Paths /\ \A q \in Paths : a[q] = IF q = "ledger" THEN l ELSE t[q]
  BY DEF TreeOk
<1>3. {"ra", "rb", "ledger", "bundle", "decl"} \subseteq Paths
  BY DEF Paths
<1> HIDE DEF a
<1>4. a.ledger = l /\ a.ra = t.ra /\ a.rb = t.rb /\ a.bundle = t.bundle /\ a.decl = t.decl
  BY <1>2, <1>3
<1> QED
  BY <1>1, <1>2, <1>4 DEF TreeOk, a, l, Has

LEMMA MeasuredOk ==
  ASSUME NEW w, NEW b \in 1 .. Len(w.cs), NEW h \in 1 .. Len(w.cs), NEW out, NEW item, NEW id
  PROVE  DocOk(w.cs, MeasuredChangeReceipt(w, b, h, out, item, id))
<1> DEFINE d == MeasuredChangeReceipt(w, b, h, out, item, id)
<1>1. /\ {"mode", "base", "head", "files", "rows", "x", "dec"} \subseteq DOMAIN d
      /\ d.mode = "diff" /\ d.base = b /\ d.head = h /\ d.files = DOMAIN RangeFiles(w.cs, b, h)
      /\ d.x = NoExemption /\ d.dec = NoDecision
  BY DEF MeasuredChangeReceipt, MeasuredFiles, ReceiptOf
<1>2. Clash(w.cs[h].tree) /\ d.files \cap {"src", "lock"} # {} => "src" \in DOMAIN d.rows /\ d.rows["src"] = "failed"
  BY <1>1, MeasuredSource
<1>3. Has(w.cs[h].tree, "bundle") /\ "bundle" \in d.files => "bundle" \in DOMAIN d.rows /\ d.rows["bundle"] = "not_measured"
  BY <1>1, MeasuredBundle
<1> HIDE DEF d
<1>4. RowsOk(w.cs[d.head].tree, d)
  BY <1>1, <1>2, <1>3 DEF RowsOk
<1>5. /\ {"code", "entities"} \subseteq DOMAIN NoExemption /\ NoExemption.entities = {} /\ NoDecision.entities = {}
  BY DEF NoExemption, NoDecision
<1> QED
  BY <1>1, <1>4, <1>5 DEF DocOk, d

LEMMA ExemptedOk ==
  ASSUME NEW c, NEW d, DocOk(c, d), NEW w, NEW range, NEW authority, NEW so
  PROVE  DocOk(c, CmdExempt(w, d, range, authority, so))
<1> DEFINE x == StructuralExemption(w, DOMAIN d.rows, range, authority, so)
<1>1. {"code", "entities"} \subseteq DOMAIN x
  <2>1. ASSUME NEW case, NEW split
        PROVE  {"code", "entities"} \subseteq DOMAIN ExemptCase(w, case, split, DOMAIN d.rows, range, authority, so)
    BY DEF ExemptCase, NoExemption
  <2> QED
    BY <2>1 DEF StructuralExemption, ExemptSplit
<1> HIDE DEF x
<1>2. DocOk(c, WithExemption(d, x))
  BY <1>1 DEF DocOk, RowsOk, WithExemption
<1> QED
  BY <1>2 DEF CmdExempt, x

LEMMA DecidedOk ==
  ASSUME NEW c, NEW d, DocOk(c, d), NEW w, NEW entities, NEW class, NEW signer, NEW ttl
  PROVE  DocOk(c, CmdExemptDecision(w, d, entities, class, signer, ttl))
<1> DEFINE dec == [has |-> TRUE, entities |-> entities, class |-> class, binding |-> DecisionBinding(w, d),
                   signer |-> signer, until |-> w.now + ttl, id |-> d.id]
           x == [d.x EXCEPT !.entities = @ \ entities]
<1>1. /\ {"code", "entities"} \subseteq DOMAIN x /\ x.code = d.x.code /\ x.entities = d.x.entities \ entities
  BY DEF DocOk
<1>2. dec.has = TRUE
  OBVIOUS
<1>3. CmdExemptDecision(w, d, entities, class, signer, ttl) \in {d, WithDecision(d, dec, x)}
  BY DEF CmdExemptDecision
<1> HIDE DEF dec, x
<1>4. DocOk(c, WithDecision(d, dec, x))
  BY <1>1, <1>2 DEF DocOk, RowsOk, WithDecision
<1> QED
  BY <1>3, <1>4

LEMMA LocalFields ==
  /\ Local.cs = cs /\ Local.base = MergeBase(cs, main, tip) /\ Local.head = tip /\ Local.main = main
  /\ Local.docs = docs /\ Local.body = body /\ Local.program = env.program /\ Local.route = env.route
  /\ HeadTree(Local) = Tip
BY DEF Local, World, HeadTree, Tip

LEMMA LocalBase ==
  ASSUME GraphInv, BranchOk(cs, main, tip)
  PROVE  Local.base \in Commits /\ Fork(cs, main, tip, Local.base)
<1>1. PICK b : Fork(cs, main, tip, b)
  BY DEF BranchOk
<1>2. tip \in Commits
  BY DEF GraphInv
<1>3. MergeBase(cs, main, tip) = b /\ b \in Commits
  BY <1>1, <1>2, ForkFacts
<1> QED
  BY <1>1, <1>3, LocalFields

LEMMA LocalReceipts ==
  ASSUME Inv, NEW r \in ReceiptsFromTree(Local) \cup ReceiptsFromBody(Local)
  PROVE  /\ r.digest \in 1 .. Len(docs) /\ DocOk(cs, docs[r.digest])
         /\ r.path = "body" \/ r.path \in ReceiptIssue
<1>1. Local.cs = cs /\ Local.head = tip /\ Local.docs = docs /\ Local.body = body
  BY LocalFields
<1> DEFINE w == Local
<1> HIDE DEF w
<1>2. ASSUME r \in ReceiptsFromTree(w) PROVE r.path \in ReceiptIssue /\ r.digest \in 1 .. Len(docs)
  <2>1. PICK p \in ReceiptIssue : Has(HeadTree(w), p) /\ r = [path |-> p, digest |-> HeadTree(w)[p]]
    BY <1>2 DEF ReceiptsFromTree
  <2>2. TreeOk(HeadTree(w), Len(docs))
    BY <1>1 DEF Inv, GraphInv, RecordInv, RecordsOk, HeadTree, Commits, w
  <2>3. p \in {"ra", "rb"} /\ HeadTree(w)[p] # 0
    BY <2>1 DEF ReceiptIssue, Has, NoTree
  <2>4. HeadTree(w)[p] \in 0 .. Len(docs)
    BY <2>2, <2>3 DEF TreeOk
  <2>5. Len(docs) \in Nat
    BY Appended DEF Inv, RecordInv, RecordsOk
  <2> QED
    BY <2>1, <2>3, <2>4, <2>5
<1>3. ASSUME r \in ReceiptsFromBody(w) PROVE r.path = "body" /\ r.digest \in 1 .. Len(docs)
  <2>1. w.body = body
    BY <1>1 DEF w
  <2>2. body \subseteq 1 .. Len(docs)
    BY DEF Inv, RecordInv
  <2>3. PICK g \in w.body : r = [path |-> "body", digest |-> g]
    BY <1>3 DEF ReceiptsFromBody
  <2> QED
    BY <2>1, <2>2, <2>3
<1>4. r.digest \in 1 .. Len(docs) /\ (r.path = "body" \/ r.path \in ReceiptIssue)
  BY <1>2, <1>3 DEF w
<1> QED
  BY <1>4 DEF Inv, RecordInv, RecordsOk

-----------------------------------------------------------------------------
(***************************************************************************)
(* The check runs.                                                         *)
(***************************************************************************)

LEMMA CheckAppended ==
  ASSUME Inv, NEW name, NEW status, name = "graph-admission" => status # "success",
         checks' = Append(checks, [name |-> name, head |-> tip, status |-> status]),
         UNCHANGED <<env, cs, main, gaps>>
  PROVE  /\ ChecksInv' /\ Len(checks) \in Nat /\ Len(checks') = Len(checks) + 1
         /\ \A i \in 1 .. Len(checks) : checks'[i] = checks[i]
         /\ checks'[Len(checks) + 1].head = tip
<1> DEFINE k == [name |-> name, head |-> tip, status |-> status]
<1>1. k = [name |-> k.name, head |-> k.head, status |-> k.status] /\ k.head = tip /\ k.name = name /\ k.status = status
  OBVIOUS
<1>2. checks' = Append(checks, k)
  OBVIOUS
<1> HIDE DEF k
<1>3. /\ Len(checks) \in Nat /\ Len(checks') = Len(checks) + 1
      /\ \A i \in 1 .. Len(checks) : checks'[i] = checks[i]
      /\ checks'[Len(checks) + 1] = k
      /\ IsSeq(checks')
  BY <1>2, Appended DEF Inv, ChecksInv
<1>4. CheckOk(cs, main, k, gaps, env.route)
  BY <1>1 DEF CheckOk, Inv
<1>5. \A i \in 1 .. Len(checks') : i \in 1 .. Len(checks) \/ i = Len(checks) + 1
  BY <1>3
<1>6. \A i \in 1 .. Len(checks') : CheckOk(cs, main, checks'[i], gaps, env.route)
  BY <1>3, <1>4, <1>5 DEF Inv, ChecksInv
<1>7. ChecksInv'
  BY <1>3, <1>6 DEF ChecksInv
<1> QED
  BY <1>1, <1>3, <1>7

LEMMA OtherCheckStep ==
  ASSUME Inv, OtherCheck
  PROVE  Inv'
<1>1. PICK status : checks' = Append(checks, [name |-> "ci", head |-> tip, status |-> status])
  BY DEF OtherCheck
<1>2. UNCHANGED <<env, cs, main, tip, docs, body, up, job, gaps>>
  BY DEF OtherCheck
<1>3. /\ ChecksInv' /\ Len(checks) \in Nat /\ Len(checks') = Len(checks) + 1
      /\ \A i \in 1 .. Len(checks) : checks'[i] = checks[i]
  BY <1>1, <1>2, CheckAppended
<1>4. JobInv'
  BY <1>2, <1>3 DEF Inv, JobInv, Commits, Idle
<1>5. GraphInv' /\ RecordInv' /\ BranchOk(cs, main, tip)' /\ LineInv'
  BY <1>2 DEF Inv, GraphInv, RecordInv, Commits, LineInv
<1> QED
  BY <1>3, <1>4, <1>5 DEF Inv

LEMMA StartCiStep ==
  ASSUME Inv, StartCi
  PROVE  Inv'
<1>1. checks' = Append(checks, [name |-> "graph-admission", head |-> tip, status |-> "in_progress"])
  BY DEF StartCi
<1>2. UNCHANGED <<env, cs, main, tip, docs, body, up, gaps>>
  BY DEF StartCi
<1>3. /\ ChecksInv' /\ Len(checks) \in Nat /\ Len(checks') = Len(checks) + 1
      /\ checks'[Len(checks) + 1].head = tip
  BY <1>1, <1>2, CheckAppended
<1>4. job' = [check |-> Len(checks) + 1, main |-> main, head |-> tip, body |-> body, asked |-> 0, gh |-> NoGithub]
  BY DEF StartCi
<1>5. JobInv'
  <2>1. /\ job'.check \in 1 .. Len(checks') /\ checks'[job'.check].head = job'.head
        /\ job'.main = main /\ job'.head = tip /\ job'.body = body
    BY <1>3, <1>4
  <2>2. main \in 1 .. Len(cs) /\ body \subseteq 1 .. Len(docs)
    BY DEF Inv, GraphInv, RecordInv, Commits
  <2> QED
    BY <1>2, <2>1, <2>2 DEF JobInv, Commits
<1>6. GraphInv' /\ RecordInv' /\ BranchOk(cs, main, tip)' /\ LineInv'
  BY <1>2 DEF Inv, GraphInv, RecordInv, Commits, LineInv
<1> QED
  BY <1>3, <1>5, <1>6 DEF Inv

\* What the job's answer says of its head.
LEMMA JobPassed ==
  ASSUME Inv, job # Idle, CmdRun(JobWorld) = "success", NEW seen, gaps \subseteq seen,
         StartsOnMain(JobWorld) \/ job.head \in seen
  PROVE  PassedOk(cs, main, job.head, seen, env.route)
<1> DEFINE h == job.head
<1>1. h \in Commits /\ BranchOk(cs, main, h)
  BY JobCommits
<1>2. PICK b : Fork(cs, main, h, b)
  BY <1>1 DEF BranchOk
<1>3. MergeBase(cs, main, h) = b
  BY <1>1, <1>2, ForkFacts DEF Inv
<1>4. Sound(cs, h) \/ h \in seen \/ seen \cap cs[main].anc # {}
  <2>1. CASE StartsOnMain(JobWorld)
    <3>1. Sound(cs, h) \/ Excused
      BY <1>1, <1>2, <2>1, SourcePassed DEF Inv
    <3> QED
      BY <3>1 DEF Excused
  <2> QED
    BY <2>1
<1>5. ASSUME env.route = "receipts", cs[b].tree.bundle # cs[h].tree.bundle
      PROVE  Trusted(cs[b].tree.bundle, cs[h].tree.bundle, cs[h].tree.wf)
  BY <1>1, <1>2, <1>5, BundlePassed DEF Inv
<1> HIDE DEF h
<1> QED
  BY <1>3, <1>4, <1>5 DEF PassedOk, h

\* An answer of GitHub changes neither what the job checked out nor the event it was given.
LEMMA AskGithubStep ==
  ASSUME Inv, AskGithub
  PROVE  Inv'
<1>1. /\ job # Idle /\ UNCHANGED <<env, cs, main, tip, docs, body, up, checks, gaps>>
      /\ \E gh : job' = [job EXCEPT !.asked = @ + 1, !.gh = gh]
  BY DEF AskGithub
<1>2. job'.check = job.check /\ job'.main = job.main /\ job'.head = job.head /\ job'.body = job.body
  BY <1>1
<1>3. JobInv'
  BY <1>1, <1>2 DEF Inv, JobInv, Commits
<1>4. GraphInv' /\ RecordInv' /\ BranchOk(cs, main, tip)' /\ LineInv' /\ ChecksInv'
  BY <1>1 DEF Inv, GraphInv, RecordInv, Commits, LineInv, ChecksInv
<1> QED
  BY <1>3, <1>4 DEF Inv

LEMMA FinishCiStep ==
  ASSUME Inv, FinishCi
  PROVE  Inv'
<1> DEFINE j == job.check
           status == CmdRun(JobWorld)
<1>1. /\ job # Idle /\ checks' = [checks EXCEPT ![j].status = status] /\ job' = Idle
      /\ gaps' = IF checks'[j].status = "success" /\ ~StartsOnMain(JobWorld) THEN gaps \cup {job.head} ELSE gaps
      /\ UNCHANGED <<env, cs, main, tip, docs, body, up>>
  BY DEF FinishCi
<1>2. j \in 1 .. Len(checks) /\ checks[j].head = job.head
  BY <1>1 DEF Inv, JobInv
<1>3. IsSeq(checks) /\ \A i \in 1 .. Len(checks) : CheckOk(cs, main, checks[i], gaps, env.route)
  BY DEF Inv, ChecksInv
<1>4. Len(checks) \in Nat /\ DOMAIN checks = 1 .. Len(checks)
  BY <1>3, Appended
<1>5. checks[j] = [name |-> checks[j].name, head |-> checks[j].head, status |-> checks[j].status]
  BY <1>2, <1>3 DEF CheckOk
<1> DEFINE k == [name |-> checks[j].name, head |-> job.head, status |-> status]
<1>6. [checks[j] EXCEPT !.status = status] = k
  BY <1>2, <1>5
<1> HIDE DEF status
<1>7. DOMAIN checks' = 1 .. Len(checks) /\ \A i \in 1 .. Len(checks) : checks'[i] = IF i = j THEN k ELSE checks[i]
  <2> HIDE DEF k, j
  <2> QED
    BY <1>1, <1>2, <1>4, <1>6
<1>8. Len(checks') = Len(checks) /\ IsSeq(checks')
  <2>1. checks' \in [1 .. Len(checks) -> {checks'[i] : i \in 1 .. Len(checks)}]
    <3>1. checks' = [i \in 1 .. Len(checks) |-> checks'[i]]
      BY <1>1, <1>4
    <3> QED
      BY <3>1
  <2>2. checks' \in Seq({checks'[i] : i \in 1 .. Len(checks)})
    BY <1>4, <2>1, SeqDef
  <2>3. Len(checks') = Len(checks)
    BY <1>4, <1>7, <2>2
  <2> QED
    BY <2>2, <2>3 DEF IsSeq
<1>9. gaps \subseteq gaps' /\ (status = "success" => StartsOnMain(JobWorld) \/ job.head \in gaps')
  <2>1. checks'[j].status = status
    BY <1>2, <1>7
  <2> QED
    BY <1>1, <2>1
<1>10. ASSUME NEW i \in 1 .. Len(checks) PROVE CheckOk(cs, main, checks'[i], gaps', env.route)
  <2>1. CASE i = j
    <3>1. BranchOk(cs, main, job.head)
      BY <1>1, JobCommits
    <3>2. status = "success" => PassedOk(cs, main, job.head, gaps', env.route)
      BY <1>1, <1>9, JobPassed DEF status
    <3>3. checks'[i] = k
      BY <1>7, <2>1
    <3> QED
      BY <3>1, <3>2, <3>3 DEF CheckOk
  <2>2. CASE i # j
    <3>1. checks'[i] = checks[i] /\ CheckOk(cs, main, checks[i], gaps, env.route)
      BY <1>3, <1>7, <2>2
    <3>2. \A h : PassedOk(cs, main, h, gaps, env.route) => PassedOk(cs, main, h, gaps', env.route)
      BY <1>9 DEF PassedOk
    <3> QED
      BY <3>1, <3>2 DEF CheckOk
  <2> QED
    BY <2>1, <2>2
<1>11. ChecksInv'
  <2> HIDE DEF j, k
  <2> QED
    BY <1>1, <1>8, <1>10 DEF ChecksInv
<1>12. LineInv'
  BY <1>1, <1>9 DEF Inv, LineInv
<1>13. JobInv'
  BY <1>1 DEF JobInv, Idle
<1>14. GraphInv' /\ RecordInv' /\ BranchOk(cs, main, tip)'
  BY <1>1 DEF Inv, GraphInv, RecordInv, Commits
<1> QED
  BY <1>11, <1>12, <1>13, <1>14 DEF Inv

-----------------------------------------------------------------------------
(***************************************************************************)
(* The authors' steps.                                                     *)
(***************************************************************************)

LEMMA StateFacts ==
  ASSUME Inv
  PROVE  /\ SettingOk(env) /\ Len(docs) \in Nat /\ main \in 1 .. Len(cs) /\ tip \in 1 .. Len(cs)
         /\ TreeOk(Tip, Len(docs)) /\ TreeOk(cs[main].tree, Len(docs)) /\ body \subseteq 1 .. Len(docs)
         /\ up.has => up.car \in 1 .. Len(docs)
         /\ Local.base \in 1 .. Len(cs)
<1>1. SettingOk(env)
  BY SettingsAssumption DEF Inv, RecordInv
<1>2. Len(docs) \in Nat
  BY Appended DEF Inv, RecordInv, RecordsOk
<1>3. main \in 1 .. Len(cs) /\ tip \in 1 .. Len(cs)
  BY DEF Inv, GraphInv, Commits
<1>4. TreeOk(Tip, Len(docs)) /\ TreeOk(cs[main].tree, Len(docs)) /\ body \subseteq 1 .. Len(docs)
  BY <1>3 DEF Inv, RecordInv, RecordsOk, Tip
<1>5. up.has => up.car \in 1 .. Len(docs)
  BY DEF Inv, RecordInv
<1>6. Local.base \in 1 .. Len(cs)
  BY LocalBase DEF Inv, Commits
<1> QED
  BY <1>1, <1>2, <1>3, <1>4, <1>5, <1>6

LEMMA EditStep ==
  ASSUME Inv, Edit
  PROVE  Inv'
<1>1. PICK e \in env.edits : CommitTip(Apply(Tip, e))
  BY DEF Edit
<1>2. UNCHANGED <<env, main, docs, body, up, checks, job, gaps>>
  BY DEF Edit
<1>3. EditOk(e) /\ Len(docs) \in Nat /\ TreeOk(Tip, Len(docs)) /\ body \subseteq 1 .. Len(docs)
  BY StateFacts DEF SettingOk
<1> DEFINE t == Apply(Tip, e)
<1>4. TreeOk(t, Len(docs))
  BY <1>3, ApplyOk
<1> HIDE DEF t
<1>5. cs' = Commit(cs, <<tip>>, t) /\ tip' = Len(cs) + 1
  BY <1>1 DEF CommitTip, t
<1>6. DocsGrow
  BY <1>2 DEF DocsGrow
<1> QED
  BY <1>2, <1>3, <1>4, <1>5, <1>6, TipStep

LEMMA MainMovesStep ==
  ASSUME Inv, MainMoves
  PROVE  Inv'
<1> DEFINE m == cs[main].tree
<1>1. PICK e \in env.others : cs' = Commit(cs, <<main>>, Apply(m, e)) /\ ~Clash(Apply(m, e))
  BY DEF MainMoves
<1>2. main' = Len(cs) + 1 /\ UNCHANGED <<env, tip, docs, body, up, checks, job, gaps>>
  BY DEF MainMoves
<1>3. Len(docs) \in Nat /\ TreeOk(m, Len(docs)) /\ SettingOk(env)
  BY StateFacts
<1>4. /\ EditOk(e) /\ "wf" \notin DOMAIN e
  BY <1>3 DEF SettingOk
<1> DEFINE t == Apply(m, e)
<1>5. TreeOk(t, Len(docs))
  BY <1>3, <1>4, ApplyOk
<1>6. t.ledger = m.ledger /\ t.wf = m.wf
  BY <1>4, SourcePaths DEF Apply, EditOk
<1> HIDE DEF t
<1>7. cs' = Commit(cs, <<main>>, t) /\ ~Clash(t)
  BY <1>1 DEF t
<1> QED
  BY <1>2, <1>5, <1>6, <1>7, BaseStep

LEMMA UpdateStep ==
  ASSUME Inv, Update
  PROVE  Inv'
<1> DEFINE t == Merged(tip, main)
<1>1. cs' = Commit(cs, <<tip, main>>, t) /\ tip' = Len(cs) + 1
  BY DEF Update
<1>2. UNCHANGED <<env, main, docs, body, up, checks, job, gaps>>
  BY DEF Update
<1>3. /\ Len(docs) \in Nat /\ TreeOk(cs[tip].tree, Len(docs)) /\ TreeOk(cs[main].tree, Len(docs))
      /\ body \subseteq 1 .. Len(docs)
  BY StateFacts DEF Tip
<1>4. TreeOk(t, Len(docs))
  BY <1>3, MergedOk
<1> HIDE DEF t
<1>5. DocsGrow
  BY <1>2 DEF DocsGrow
<1> QED
  BY <1>1, <1>2, <1>3, <1>4, <1>5, TipStep

\* A receipt is put at a path of the branch, or into the pull request's text beside or instead of others.
LEMMA PlacedStep ==
  ASSUME Inv, NEW d, DocOk(cs, d), docs' = Append(docs, d), NEW out, NEW rest \in SUBSET body,
         \/ body' = rest \cup {Len(docs) + 1} /\ UNCHANGED <<cs, tip>>
         \/ out \in ReceiptIssue /\ CommitTip([Tip EXCEPT ![out] = Len(docs) + 1]) /\ UNCHANGED body,
         UNCHANGED <<env, main, up, checks, job, gaps>>
  PROVE  Inv'
<1>1. /\ Len(docs) \in Nat /\ TreeOk(Tip, Len(docs)) /\ body \subseteq 1 .. Len(docs)
      /\ up.has => up.car \in 1 .. Len(docs)
  BY StateFacts
<1>2. Len(docs') = Len(docs) + 1
  BY Appended DEF Inv, RecordInv, RecordsOk
<1>3. DocsGrow
  BY DEF DocsGrow
<1>4. CASE body' = rest \cup {Len(docs) + 1} /\ UNCHANGED <<cs, tip>>
  <2>0. body \subseteq 1 .. Len(docs') /\ Len(docs) + 1 \in 1 .. Len(docs')
    BY <1>1, <1>2
  <2>1. body' \subseteq 1 .. Len(docs')
    BY <1>4, <2>0
  <2>2. up'.has => up'.car \in 1 .. Len(docs')
    BY <1>1, <1>2
  <2> QED
    BY <1>3, <1>4, <2>1, <2>2, QuietStep
<1>5. CASE out \in ReceiptIssue /\ CommitTip([Tip EXCEPT ![out] = Len(docs) + 1]) /\ UNCHANGED body
  <2> DEFINE t == [Tip EXCEPT ![out] = Len(docs) + 1]
  <2>1. TreeOk(t, Len(docs'))
    BY <1>1, <1>2, <1>5, FiledOk
  <2> HIDE DEF t
  <2>2. cs' = Commit(cs, <<tip>>, t) /\ tip' = Len(cs) + 1
    BY <1>5 DEF CommitTip, t
  <2>3. body' \subseteq 1 .. Len(docs')
    BY <1>1, <1>2, <1>5
  <2> QED
    BY <1>3, <2>1, <2>2, <2>3, TipStep
<1> QED
  BY <1>4, <1>5

LEMMA FileStep ==
  ASSUME Inv, NEW d, DocOk(cs, d), NEW out \in ReceiptIssue \cup {"body"}, File(d, out),
         UNCHANGED <<env, main, up, checks, job, gaps>>
  PROVE  Inv'
<1>1. /\ docs' = Append(docs, d) /\ body \in SUBSET body
      /\ \/ body' = body \cup {Len(docs) + 1} /\ UNCHANGED <<cs, tip>>
         \/ out \in ReceiptIssue /\ CommitTip([Tip EXCEPT ![out] = Len(docs) + 1]) /\ UNCHANGED body
  BY DEF File
<1> QED
  BY <1>1, PlacedStep

LEMMA IssueStep ==
  ASSUME Inv, Issue
  PROVE  Inv'
<1>1. PICK b \in IF env.anyBase THEN cs[tip].anc \ {tip} ELSE {Local.base}, out \in env.outs :
        \E d \in {MeasuredChangeReceipt(Local, b, tip, out, WorkItem, Len(docs) + 1)} :
           \/ File(d, out)
           \/ \E range \in {<<0, 0>>} \cup env.ranges :
                   \E x \in {CmdExempt(Local, d, range, "first", opinion)} : File(x, out)
  BY DEF Issue
<1>2. UNCHANGED <<env, main, up, checks, job, gaps>>
  BY DEF Issue
<1>3. tip \in 1 .. Len(cs) /\ Local.base \in 1 .. Len(cs) /\ SettingOk(env)
  BY StateFacts
<1>4. b \in 1 .. Len(cs) /\ out \in ReceiptIssue \cup {"body"}
  <2>1. cs[tip].anc \subseteq 1 .. Len(cs)
    BY <1>3 DEF Inv, GraphInv, GraphOk
  <2>2. env.outs \subseteq ReceiptIssue \cup {"body"}
    BY <1>3 DEF SettingOk
  <2> QED
    BY <1>3, <2>1, <2>2
<1> DEFINE d == MeasuredChangeReceipt(Local, b, tip, out, WorkItem, Len(docs) + 1)
<1>5. DocOk(cs, d)
  <2>1. Local.cs = cs
    BY LocalFields
  <2>2. b \in 1 .. Len(Local.cs) /\ tip \in 1 .. Len(Local.cs)
    BY <1>3, <1>4, <2>1
  <2>3. DocOk(Local.cs, d)
    BY <2>2, MeasuredOk
  <2> QED
    BY <2>1, <2>3
<1> HIDE DEF d
<1>6. CASE File(d, out)
  BY <1>2, <1>4, <1>5, <1>6, FileStep
<1>7. ASSUME NEW range, File(CmdExempt(Local, d, range, "first", opinion), out)
      PROVE  Inv'
  <2> DEFINE x == CmdExempt(Local, d, range, "first", opinion)
  <2>1. DocOk(cs, x)
    BY <1>5, ExemptedOk
  <2>2. File(x, out)
    BY <1>7
  <2> HIDE DEF x
  <2> QED
    BY <1>2, <1>4, <2>1, <2>2, FileStep
<1> QED
  BY <1>1, <1>6, <1>7 DEF d

LEMMA ReissueStep ==
  ASSUME Inv, CmdReissue
  PROVE  Inv'
<1>1. PICK p \in PreviousSelfReceipts(Tip) :
        File(MeasuredChangeReceipt(Local, Local.base, tip, p, WorkItem, Len(docs) + 1), p)
  BY DEF CmdReissue
<1>2. UNCHANGED <<env, main, up, checks, job, gaps>>
  BY DEF CmdReissue
<1>3. tip \in 1 .. Len(cs) /\ Local.base \in 1 .. Len(cs)
  BY StateFacts
<1> DEFINE d == MeasuredChangeReceipt(Local, Local.base, tip, p, WorkItem, Len(docs) + 1)
<1>4. DocOk(cs, d)
  <2>1. Local.cs = cs
    BY LocalFields
  <2>2. Local.base \in 1 .. Len(Local.cs) /\ tip \in 1 .. Len(Local.cs)
    BY <1>3, <2>1
  <2>3. DocOk(Local.cs, d)
    BY <2>2, MeasuredOk
  <2> QED
    BY <2>1, <2>3
<1>5. File(d, p) /\ p \in ReceiptIssue \cup {"body"}
  BY <1>1 DEF PreviousSelfReceipts
<1> HIDE DEF d
<1> QED
  BY <1>2, <1>4, <1>5, FileStep

LEMMA DecideStep ==
  ASSUME Inv, Decide
  PROVE  Inv'
<1>1. PICK r \in ReceiptsFromTree(Local) \cup ReceiptsFromBody(Local) : \E entities, class, signer :
        /\ docs' = Append(docs, CmdExemptDecision(Local, docs[r.digest], entities, class, signer, 1))
        /\ IF r.path = "body" THEN body' = (body \ {r.digest}) \cup {Len(docs) + 1} /\ UNCHANGED <<cs, tip>>
           ELSE CommitTip([Tip EXCEPT ![r.path] = Len(docs) + 1]) /\ UNCHANGED body
  BY DEF Decide
<1>2. UNCHANGED <<env, main, up, checks, job, gaps>>
  BY DEF Decide
<1>3. DocOk(cs, docs[r.digest]) /\ (r.path = "body" \/ r.path \in ReceiptIssue)
  BY LocalReceipts
<1>4. PICK d : /\ docs' = Append(docs, d) /\ \E entities, class, signer :
                     d = CmdExemptDecision(Local, docs[r.digest], entities, class, signer, 1)
  BY <1>1
<1> DEFINE rest == body \ {r.digest}
<1>5. DocOk(cs, d)
  BY <1>4, <1>3, DecidedOk
<1>6. docs' = Append(docs, d) /\ rest \in SUBSET body
  BY <1>4
<1>7. \/ body' = rest \cup {Len(docs) + 1} /\ UNCHANGED <<cs, tip>>
      \/ r.path \in ReceiptIssue /\ CommitTip([Tip EXCEPT ![r.path] = Len(docs) + 1]) /\ UNCHANGED body
  BY <1>1, <1>3
<1> HIDE DEF rest
<1> QED
  BY <1>2, <1>5, <1>6, <1>7, PlacedStep

LEMMA AttachStep ==
  ASSUME Inv, Attach
  PROVE  Inv'
<1>1. PICK r \in ReceiptsFromTree(Local) : \E bound, answer :
        CommitTip([Tip EXCEPT !.ledger = AttachDelivered(Local, bound, r, answer)])
  <2> DEFINE context == GateReceiptContext(Local, ReceiptsFromTree(Local))
  <2>1. context.bound \subseteq ReceiptsFromTree(Local)
    BY DEF GateReceiptContext
  <2> HIDE DEF context
  <2>2. PICK r \in context.bound : \E explicit, answer :
          \E l \in CmdAttach(Local, context.bound, context.unbound, explicit, r, answer) :
            CommitTip([Tip EXCEPT !.ledger = l])
    BY DEF Attach, context
  <2>3. \A explicit, answer : \A l \in CmdAttach(Local, context.bound, context.unbound, explicit, r, answer) :
          l = AttachDelivered(Local, context.bound, r, answer)
    BY DEF CmdAttach
  <2> QED
    BY <2>1, <2>2, <2>3
<1>2. UNCHANGED <<env, main, docs, body, up, checks, job, gaps>>
  BY DEF Attach
<1>3. Len(docs) \in Nat /\ TreeOk(Tip, Len(docs)) /\ body \subseteq 1 .. Len(docs)
  BY StateFacts
<1>4. r.digest \in 1 .. Len(docs)
  BY LocalReceipts
<1>5. PICK bound, answer : CommitTip([Tip EXCEPT !.ledger = AttachDelivered(Local, bound, r, answer)])
  BY <1>1
<1> DEFINE t == [Tip EXCEPT !.ledger = AttachDelivered(Local, bound, r, answer)]
<1>6. TreeOk(t, Len(docs))
  <2>1. HeadTree(Local) = Tip
    BY LocalFields
  <2>2. TreeOk(HeadTree(Local), Len(docs))
    BY <1>3, <2>1
  <2>3. TreeOk([HeadTree(Local) EXCEPT !.ledger = AttachDelivered(Local, bound, r, answer)], Len(docs))
    BY <1>3, <1>4, <2>2, AttachedOk
  <2> QED
    BY <2>1, <2>3
<1> HIDE DEF t
<1>7. cs' = Commit(cs, <<tip>>, t) /\ tip' = Len(cs) + 1
  BY <1>5 DEF CommitTip, t
<1>8. DocsGrow
  BY <1>2 DEF DocsGrow
<1> QED
  BY <1>2, <1>3, <1>6, <1>7, <1>8, TipStep

LEMMA UserpathStep ==
  ASSUME Inv, RunUserpath
  PROVE  Inv'
<1> DEFINE d == MeasuredChangeReceipt(Local, Local.base, tip, "none", "none", Len(docs) + 1)
<1>1. docs' = Append(docs, d) /\ up'.car = Len(docs) + 1
  BY DEF RunUserpath
<1>2. UNCHANGED <<env, cs, main, tip, body, checks, job, gaps>>
  BY DEF RunUserpath
<1>3. tip \in 1 .. Len(cs) /\ Local.base \in 1 .. Len(cs) /\ Len(docs) \in Nat /\ body \subseteq 1 .. Len(docs)
  BY StateFacts
<1>4. DocOk(cs, d)
  <2>1. Local.cs = cs
    BY LocalFields
  <2>2. Local.base \in 1 .. Len(Local.cs) /\ tip \in 1 .. Len(Local.cs)
    BY <1>3, <2>1
  <2>3. DocOk(Local.cs, d)
    BY <2>2, MeasuredOk
  <2> QED
    BY <2>1, <2>3
<1> HIDE DEF d
<1>5. Len(docs') = Len(docs) + 1
  BY <1>1, Appended DEF Inv, RecordInv, RecordsOk
<1>6. DocsGrow
  BY <1>1, <1>4 DEF DocsGrow
<1>7. body' \subseteq 1 .. Len(docs') /\ (up'.has => up'.car \in 1 .. Len(docs'))
  BY <1>1, <1>2, <1>3, <1>5
<1> QED
  BY <1>2, <1>6, <1>7, QuietStep

LEMMA OtherSteps ==
  ASSUME Inv, GiveOpinion \/ Review \/ FinishStage \/ Tick
  PROVE  Inv'
<1>1. UNCHANGED <<env, cs, main, tip, docs, body, checks, up, job, gaps>>
  <2>1. CASE GiveOpinion
    BY <2>1 DEF GiveOpinion
  <2>2. CASE Review
    BY <2>2 DEF Review
  <2>3. CASE FinishStage
    BY <2>3 DEF FinishStage
  <2>4. CASE Tick
    BY <2>4 DEF Tick
  <2> QED
    BY <2>1, <2>2, <2>3, <2>4
<1>2. DocsGrow
  BY <1>1 DEF DocsGrow
<1>3. body' \subseteq 1 .. Len(docs') /\ (up'.has => up'.car \in 1 .. Len(docs'))
  BY <1>1, StateFacts
<1> QED
  BY <1>1, <1>2, <1>3, QuietStep

LEMMA LandsOk ==
  ASSUME Inv, Land
  PROVE  Inv'
<1>1. Len(docs) \in Nat /\ TreeOk(cs[tip].tree, Len(docs)) /\ TreeOk(cs[main].tree, Len(docs))
  BY StateFacts DEF Tip
<1>2. TreeOk(Merged(main, tip), Len(docs))
  BY <1>1, MergedOk
<1> QED
  BY <1>2, LandStep

-----------------------------------------------------------------------------
(***************************************************************************)
(* The theorems of the specification.                                      *)
(***************************************************************************)

LEMMA FirstCommit ==
  ASSUME NEW t
  PROVE  LET k == Commit(<<>>, <<>>, t)
         IN  /\ Len(k) = 1 /\ IsSeq(k) /\ k[1].parents = <<>> /\ k[1].tree = t
             /\ k[1].anc = {1} /\ k[1].line = {1}
<1> DEFINE e == [parents |-> <<>>, anc |-> {1} \cup UNION {<<>>[<<>>[i]].anc : i \in DOMAIN <<>>},
                 line |-> {1} \cup (IF <<>> = <<>> THEN {} ELSE <<>>[<<>>[1]].line), tree |-> t]
<1>1. e.parents = <<>> /\ e.tree = t /\ e.anc = {1} /\ e.line = {1}
  OBVIOUS
<1>2. Commit(<<>>, <<>>, t) = Append(<<>>, e)
  BY DEF Commit
<1> HIDE DEF e
<1>3. Append(<<>>, e) = <<e>>
  OBVIOUS
<1>4. Len(<<e>>) = 1 /\ <<e>>[1] = e /\ IsSeq(<<e>>)
  BY DEF IsSeq
<1> QED
  BY <1>1, <1>2, <1>3, <1>4

LEMMA InitInv ==
  ASSUME Init
  PROVE  Inv
<1> DEFINE t == env.tree
<1>1. /\ env \in Settings /\ cs = Commit(<<>>, <<>>, t) /\ main = 1 /\ tip = 1 /\ docs = <<>> /\ body = {}
      /\ checks = <<>> /\ up = NoUserpath /\ job = Idle /\ gaps = {}
  BY DEF Init
<1>2. SettingOk(env)
  BY <1>1, SettingsAssumption
<1>3. IsSeq(<<>>) /\ Len(<<>>) = 0 /\ DOMAIN <<>> = {}
  BY DEF IsSeq
<1>4. /\ Len(cs) = 1 /\ IsSeq(cs) /\ cs[1].parents = <<>> /\ cs[1].tree = t
      /\ cs[1].anc = {1} /\ cs[1].line = {1}
  BY <1>1, FirstCommit
<1> HIDE DEF t
<1>5. GraphOk(cs)
  BY <1>4 DEF GraphOk
<1>6. GraphInv
  BY <1>1, <1>4, <1>5 DEF GraphInv, Commits
<1>7. TreeOk(t, 0)
  BY <1>2 DEF TreeOk, SettingOk, t
<1>8. RecordInv
  <2>1. ~NoUserpath.has
    BY DEF NoUserpath
  <2>2. RecordsOk(cs, docs)
    BY <1>1, <1>3, <1>4, <1>7 DEF RecordsOk
  <2> QED
    BY <1>1, <2>1, <2>2 DEF RecordInv
<1>9. BranchOk(cs, main, tip)
  BY <1>1, <1>4, <1>5, FreshBranch
<1>10. LineInv
  BY <1>1, <1>2, <1>4 DEF LineInv, Sound, StoodGood, SettingOk, t
<1>11. ChecksInv
  BY <1>1, <1>3 DEF ChecksInv
<1>12. JobInv
  BY <1>1 DEF JobInv
<1> QED
  BY <1>6, <1>8, <1>9, <1>10, <1>11, <1>12 DEF Inv

LEMMA NextInv ==
  ASSUME Inv, [Next]_vars
  PROVE  Inv'
<1>1. CASE UNCHANGED vars
  BY <1>1 DEF vars, Inv, GraphInv, Commits, RecordInv, LineInv, ChecksInv, JobInv, Idle
<1>2. CASE Edit
  BY <1>2, EditStep
<1>3. CASE MainMoves
  BY <1>3, MainMovesStep
<1>4. CASE Update
  BY <1>4, UpdateStep
<1>5. CASE Issue
  BY <1>5, IssueStep
<1>6. CASE CmdReissue
  BY <1>6, ReissueStep
<1>7. CASE Decide
  BY <1>7, DecideStep
<1>8. CASE Attach
  BY <1>8, AttachStep
<1>9. CASE OtherCheck
  BY <1>9, OtherCheckStep
<1>10. CASE RunUserpath
  BY <1>10, UserpathStep
<1>11. CASE StartCi
  BY <1>11, StartCiStep
<1>12. CASE FinishCi
  BY <1>12, FinishCiStep
<1>13. CASE Land
  BY <1>13, LandsOk
<1>14. CASE GiveOpinion \/ Review \/ FinishStage \/ Tick
  BY <1>14, OtherSteps
<1>15. CASE AskGithub
  BY <1>15, AskGithubStep
<1> QED
  BY <1>1, <1>2, <1>3, <1>4, <1>5, <1>6, <1>7, <1>8, <1>9, <1>10, <1>11, <1>12, <1>13, <1>14, <1>15 DEF Next

\* The inductive invariant holds: ancestry, receipts and trees are well formed, every branch with a check run left the
\* base branch's own line, receipts carry the measured rows, and the source and the lockfile of a commit on main's line
\* or of a passed head have each stood in an unbroken tree, unless it is a gap or has one behind it.
THEOREM InvCorrect == Spec => []Inv
<1>1. Init => Inv
  BY InitInv
<1>2. Inv /\ [Next]_vars => Inv'
  BY NextInv
<1> QED
  BY <1>1, <1>2, PTL DEF Spec

\* No order of edits, receipts, exemptions, job runs and merges puts a source or a lockfile on main that has not stood
\* in an unbroken tree, unless the job passed a head on a receipt that starts within a branch (_gate_receipt_context,
\* C06, C08, C16, C21 and the lowered receipt of an automated author). That the two stand unbroken together on main is
\* not promised: a merge may bring together what was measured apart.
THEOREM MainStaysGoodCorrect == Spec => []MainStaysGood
<1>1. Inv => MainStaysGood
  BY DEF Inv, GraphInv, GraphOk, LineInv, Sound, MainStaysGood, Commits
<1> QED
  BY <1>1, InvCorrect, PTL

\* On the route of receipts, only a bundle that a key of main's bundle signed, with all of its checks and the
\* workflow its manifest lists, replaces main's bundle, although main may have moved since the job looked.
THEOREM SelfUpdateCorrect == Spec => SelfUpdateTrusted
<1> DEFINE old == cs[main].tree.bundle
           new == cs'[main'].tree.bundle
           A == env.route = "receipts" /\ landed' # landed /\ new # old => Trusted(old, new, cs'[main'].tree.wf)
<1>1. ASSUME Inv, [Next]_vars PROVE A
  <2> SUFFICES ASSUME env.route = "receipts", landed' # landed, new # old
               PROVE  Trusted(old, new, cs'[main'].tree.wf)
    OBVIOUS
  <2>1. Land
    BY <1>1 DEF Next, vars, Edit, MainMoves, Update, Issue, CmdReissue, Decide, GiveOpinion, Attach, Review,
                OtherCheck, FinishStage, RunUserpath, StartCi, AskGithub, FinishCi, Tick
  <2> DEFINE t == Merged(main, tip)
             b == MergeBase(cs, main, tip)
  <2>2. cs'[main'].tree = t
    <3>1. cs' = Commit(cs, <<main, tip>>, t) /\ main' = Len(cs) + 1
      BY <2>1 DEF Land
    <3>2. IsSeq(cs)
      BY <1>1 DEF Inv, GraphInv, GraphOk
    <3> QED
      BY <3>1, <3>2, CommitFacts
  <2>3. b = Local.base /\ cs[b].tree.wf = cs[main].tree.wf
    BY <1>1, LocalBase, LocalFields DEF Inv, Fork
  <2>4. cs[b].tree.bundle # cs[tip].tree.bundle => Trusted(cs[b].tree.bundle, cs[tip].tree.bundle, cs[tip].tree.wf)
    BY <1>1, <2>1, LandsPassed DEF PassedOk
  <2>5. \/ cs[b].tree["bundle"] # cs[main].tree["bundle"] /\ t["bundle"] = cs[main].tree["bundle"]
        \/ cs[b].tree["bundle"] = cs[main].tree["bundle"] /\ t["bundle"] = cs[tip].tree["bundle"]
    BY SourcePaths, MergedAt
  <2>6. \/ cs[b].tree["wf"] # cs[main].tree["wf"] /\ t["wf"] = cs[main].tree["wf"]
        \/ cs[b].tree["wf"] = cs[main].tree["wf"] /\ t["wf"] = cs[tip].tree["wf"]
    BY SourcePaths, MergedAt
  <2> HIDE DEF t, b
  <2> QED
    BY <2>2, <2>3, <2>4, <2>5, <2>6
<1>2. A <=> (env.route = "receipts" /\ landed' # landed /\ cs'[main'].tree.bundle # cs[main].tree.bundle
         => LET o == cs[main].tree.bundle  n == cs'[main'].tree.bundle
            IN  /\ n.by \cap o.keys # {} /\ o.ids \subseteq n.ids
                /\ n.wf # 0 => n.wf = cs'[main'].tree.wf)
  BY DEF Trusted
<1> QED
  BY <1>1, <1>2, InvCorrect, PTL DEF Spec, SelfUpdateTrusted

-----------------------------------------------------------------------------
(***************************************************************************)
(* What `attach` writes is taken for a record.                             *)
(***************************************************************************)

\* The receipts' heads and the base of two worlds look the same.
SameReceipts(w, v, bound) ==
  /\ v.docs = w.docs /\ v.base = w.base /\ v.cs[w.base] = w.cs[w.base]
  /\ \A x \in bound : LET h == w.docs[x.digest].head
                      IN  v.cs[h] = w.cs[h] /\ (h \in v.cs[v.head].anc <=> h \in w.cs[w.head].anc)

LEMMA AnchorKept ==
  ASSUME NEW w, NEW v, NEW bound, SameReceipts(w, v, bound)
  PROVE  LET a == CoveredLedgerAnchor(w, bound)
         IN  CoveredLedgerAnchor(v, bound) = a /\ (a = w.base \/ \E x \in bound : a = w.docs[x.digest].head)
<1> DEFINE P(u, x) ==
             LET d == u.docs[x.digest]
             IN  /\ d.mode = "diff" /\ d.base = u.base /\ d.work_item = WorkItem
                 /\ "ledger" \in d.files
                 /\ IsAncestor(u.cs, u.base, d.head) /\ IsAncestor(u.cs, d.head, u.head)
                 /\ Has(u.cs[d.head].tree, "ledger")
                 /\ "ledger" \in Names(u.cs, u.base, d.head)
           C(u) == {ReceiptHead(u, r) : r \in {x \in bound : P(u, x)}}
           T(u) == {h \in C(u) : \A o \in C(u) : IsAncestor(u.cs, o, h)}
           A(u) == IF T(u) = {} THEN u.base ELSE CHOOSE h \in T(u) : TRUE
<1>1. \A u : CoveredLedgerAnchor(u, bound) = A(u)
  BY DEF CoveredLedgerAnchor
<1>2. \A x \in bound : P(v, x) <=> P(w, x)
  BY DEF SameReceipts, IsAncestor, Names
<1> HIDE DEF P
<1>3. C(v) = C(w)
  BY <1>2 DEF ReceiptHead, SameReceipts
<1>4. \A h \in C(w) : v.cs[h] = w.cs[h] /\ \E x \in bound : h = w.docs[x.digest].head
  BY DEF ReceiptHead, SameReceipts
<1> HIDE DEF C
<1>5. T(v) = T(w)
  BY <1>3, <1>4 DEF IsAncestor
<1>6. \A h \in T(w) : h \in C(w)
  OBVIOUS
<1> HIDE DEF T
<1>7. A(v) = A(w)
  BY <1>5 DEF SameReceipts
<1>8. A(w) = w.base \/ \E x \in bound : A(w) = w.docs[x.digest].head
  BY <1>4, <1>6
<1> HIDE DEF A
<1> QED
  BY <1>1, <1>7, <1>8

\* The delivery answer leaves the digests of a ledger as they are.
LEMMA DeliveredRecord ==
  ASSUME NEW w, NEW bound, NEW r \in bound, NEW answer, NEW anchor, NEW l,
         LedgerRecordDocument(MergeAttachment(l, BuildAttachment(r), anchor).ledger, anchor, bound)
  PROVE  LET new == RecordDelivery(MergeAttachment(l, BuildAttachment(r), anchor), BuildAttachment(r), answer)
         IN  LedgerRecordDocument(new, anchor, bound) /\ new.has = TRUE /\ r.digest \in AttachmentDigests(new)
<1> DEFINE att == BuildAttachment(r)
           merged == MergeAttachment(l, att, anchor)
           given == [att EXCEPT !.delivery = MuneralDeliver(answer)]
           new == RecordDelivery(merged, att, answer)
           old == merged.ledger
<1>1. att.digest = r.digest /\ given.digest = r.digest
  BY DEF BuildAttachment
<1>2. old.has = TRUE /\ att \in old.attachments /\ DOMAIN old = {"has", "attachments"}
  BY DEF MergeAttachment
<1> HIDE DEF att, given, old
<1>3. new = old \/ (new.has = TRUE /\ new.attachments = (old.attachments \ {att}) \cup {given})
  BY <1>2 DEF RecordDelivery, given, old
<1>4. LedgerRecordDocument(old, anchor, bound)
  BY DEF old, att
<1> HIDE DEF new
<1>5. CASE new = old
  <2>1. r.digest \in AttachmentDigests(old)
    BY <1>1, <1>2 DEF AttachmentDigests
  <2> QED
    BY <1>2, <1>4, <1>5, <2>1 DEF new, old, att
<1>6. CASE new.has = TRUE /\ new.attachments = (old.attachments \ {att}) \cup {given}
  <2>1. AttachmentDigests(new) = AttachmentDigests(old)
    BY <1>1, <1>2, <1>6 DEF AttachmentDigests
  <2>2. r.digest \in {x.digest : x \in bound}
    OBVIOUS
  <2>3. \A a \in new.attachments : a \in old.attachments \/ a.digest = r.digest
    BY <1>1, <1>6
  <2>4. r.digest \in AttachmentDigests(old)
    BY <1>1, <1>2 DEF AttachmentDigests
  <2>5. LedgerRecordDocument(new, anchor, bound)
    BY <1>4, <2>1, <2>2, <2>3 DEF LedgerRecordDocument
  <2> QED
    BY <1>6, <2>1, <2>4, <2>5 DEF new, merged, att
<1> QED
  BY <1>3, <1>5, <1>6

\* A ledger that differs from the base's and from that of every receipt's head was written behind the receipts.
LEMMA LedgerTrails ==
  ASSUME NEW c, GraphOk(c), NEW m \in 1 .. Len(c), NEW h, BranchOk(c, m, h), NEW b, Fork(c, m, h, b),
         c[h].tree.ledger # c[b].tree.ledger, NEW H, H \subseteq Branch(c, m, h),
         \A y \in H : c[y].tree.ledger = c[b].tree.ledger
  PROVE  \E x \in Branch(c, m, h) \ UNION {c[y].anc : y \in H} : "ledger" \in Touched(c, x)
<1> DEFINE R == Branch(c, m, h)
           v == c[h].tree.ledger
<1> SUFFICES ASSUME \A x \in R \ UNION {c[y].anc : y \in H} : "ledger" \notin Touched(c, x) PROVE FALSE
  OBVIOUS
<1>1. h \in 1 .. Len(c) /\ \A x \in R : \A i \in DOMAIN c[x].parents : ParentOk(c, m, h, x, c[x].parents[i])
  BY DEF BranchOk
<1>2. h \in R
  BY <1>1, ForkIn
<1>3. \A x \in R : x \in 1 .. Len(c) /\ x <= h
  BY <1>1 DEF GraphOk, Branch
<1>4. \A y \in 1 .. Len(c) : y \in c[y].anc /\ \A x \in c[y].anc : x \in Nat /\ x <= y
  BY DEF GraphOk
<1>5. v # c[m].tree.ledger
  BY DEF Fork
<1> HIDE DEF R
<1>6. R \subseteq Nat /\ H \subseteq R /\ "ledger" \in Paths
  BY <1>3 DEF Paths, R
<1>7. \A x \in R : \A i \in DOMAIN c[x].parents :
          \/ /\ c[x].parents[i] \in R /\ c[x].parents[i] < x
             /\ \A z \in R : z < x => z <= c[x].parents[i]
          \/ c[c[x].parents[i]].tree["ledger"] # v
  BY <1>1, <1>5 DEF ParentOk, R
<1>8. \A y \in H : y \in c[y].anc /\ \A x \in c[y].anc : x \in Nat /\ x <= y
  BY <1>3, <1>4, <1>6
<1>9. c[h].tree["ledger"] = v
  OBVIOUS
<1> HIDE DEF v
<1>10. WalkOk(c, R, h, H, "ledger", v)
  BY <1>2, <1>3, <1>6, <1>7, <1>8, <1>9 DEF WalkOk, R
<1>11. \E y \in H : c[y].tree["ledger"] = v
  BY <1>10, Walk
<1> QED
  BY <1>11 DEF v

\* Whatever ledger `attach` agrees to write over the branch, C06 takes the commit of it for a record.
THEOREM AttachCorrect == Spec => []AttachIsAdmissible
<1>1. ASSUME Inv PROVE AttachIsAdmissible
  <2> DEFINE u == Local
             context == GateReceiptContext(u, ReceiptsFromTree(u))
             bound == context.bound
  <2> SUFFICES ASSUME env.program, NEW r \in bound, NEW answer,
                      \A x \in bound : docs[x.digest].base = u.base,
                      NEW l \in CmdAttach(u, bound, context.unbound, FALSE, r, answer)
               PROVE  LET w == [u EXCEPT !.cs = Commit(cs, <<tip>>, [Tip EXCEPT !.ledger = l]), !.head = Len(cs) + 1]
                      IN  /\ "ledger" \notin EditedAfterReceiptHead(w, bound)
                          /\ "ledger" \in DOMAIN Files(w) =>
                               "ledger" \in RecordPaths(w, bound) \cup UNION {docs[x.digest].files : x \in bound}
    BY DEF AttachIsAdmissible
  <2> DEFINE t == [Tip EXCEPT !.ledger = l]
             k == Commit(cs, <<tip>>, t)
             n == Len(cs) + 1
             w == [u EXCEPT !.cs = k, !.head = n]
             b == u.base
             anchor == CoveredLedgerAnchor(u, bound)
             heads == {docs[x.digest].head : x \in bound}
             H == heads \cap Branch(k, main, n)
  <2>1. /\ u.cs = cs /\ u.base = MergeBase(cs, main, tip) /\ u.head = tip /\ u.docs = docs /\ u.program = env.program
        /\ HeadTree(u) = Tip
    BY LocalFields
  <2>2. w.cs = k /\ w.head = n /\ w.base = b /\ w.docs = docs /\ w.program = env.program
    BY <2>1 DEF Local, World
  <2>3. GraphOk(cs) /\ main \in 1 .. Len(cs) /\ tip \in 1 .. Len(cs) /\ BranchOk(cs, main, tip)
    BY <1>1 DEF Inv, GraphInv, Commits
  <2>4. b \in 1 .. Len(cs) /\ Fork(cs, main, tip, b)
    BY <1>1, LocalBase DEF Inv, Commits
  <2>5. \A x \in bound : DocOk(cs, docs[x.digest]) /\ ReceiptBinds(u, docs[x.digest])
    <3>1. \A x \in bound : x \in ReceiptsFromTree(u) /\ ReceiptBinds(u, u.docs[x.digest])
      BY DEF GateReceiptContext
    <3> QED
      BY <1>1, <2>1, <3>1, LocalReceipts
  <2> HIDE DEF u
  <2>6. \A x \in bound : docs[x.digest].head \in 1 .. Len(cs) /\ docs[x.digest].head \in cs[tip].anc
    BY <2>1, <2>3, <2>5 DEF ReceiptBinds, DocOk, RangeCommits, GraphOk
  <2> HIDE DEF context
  <2>7. /\ Len(cs) \in Nat /\ Len(k) = n
        /\ \A i \in 1 .. Len(cs) : k[i] = cs[i]
        /\ k[n].tree = t /\ k[n].anc = {n} \cup cs[tip].anc
    <3>1. /\ Len(cs) \in Nat /\ Len(k) = n
          /\ \A i \in 1 .. Len(cs) : k[i] = cs[i]
          /\ k[n].tree = t /\ k[n].anc = {n} \cup UNION {cs[<<tip>>[i]].anc : i \in DOMAIN <<tip>>}
      BY <2>3, CommitFacts DEF GraphOk
    <3>2. DOMAIN <<tip>> = {1} /\ <<tip>>[1] = tip
      OBVIOUS
    <3> QED
      BY <3>1, <3>2
  <2>8. GraphOk(k) /\ BranchOk(k, main, n)
    <3>1. (\A i \in DOMAIN <<tip>> : <<tip>>[i] \in 1 .. Len(cs)) /\ 1 \in DOMAIN <<tip>>
      BY <2>3
    <3> QED
      BY <2>3, <3>1, CommitGraph, BranchAdvances
  <2>9. t.ledger = l
    BY <1>1, StateFacts, SourcePaths DEF TreeOk
  <2> HIDE DEF k, t
  <2>10. n \notin cs[main].anc /\ k[main] = cs[main] /\ k[b] = cs[b] /\ main \in 1 .. Len(k) /\ n \in 1 .. Len(k)
    BY <2>3, <2>4, <2>7 DEF GraphOk
  <2>11. Fork(k, main, n, b) /\ RangeCommits(k, b, n) = Branch(k, main, n)
    <3>1. k[n].anc \cap k[main].anc = cs[tip].anc \cap cs[main].anc
      BY <2>7, <2>10
    <3>2. Fork(k, main, n, b)
      BY <2>4, <2>10, <3>1 DEF Fork
    <3> QED
      BY <2>8, <2>10, <3>2, ForkIn
  <2>12. SameReceipts(u, w, bound)
    <3>1. \A x \in bound : k[docs[x.digest].head] = cs[docs[x.digest].head]
      BY <2>6, <2>7
    <3>2. \A x \in bound : docs[x.digest].head \in k[n].anc
      BY <2>6, <2>7
    <3> HIDE DEF w
    <3> QED
      BY <2>1, <2>2, <2>6, <2>10, <3>1, <3>2 DEF SameReceipts
  <2> HIDE DEF w
  <2>13. CoveredLedgerAnchor(w, bound) = anchor /\ (anchor = b \/ \E x \in bound : anchor = docs[x.digest].head)
    BY <2>1, <2>12, AnchorKept
  <2>14. k[anchor] = cs[anchor]
    BY <2>4, <2>6, <2>7, <2>13
  <2>15. /\ docs[r.digest].work_item = WorkItem
         /\ LedgerRecordDocument(MergeAttachment(Tip.ledger, BuildAttachment(r), cs[anchor].tree.ledger).ledger,
                                 cs[anchor].tree.ledger, bound)
    <3> HIDE DEF bound
    <3>1. ~AttachRefused(u, bound, context.unbound, FALSE, r)
      BY DEF CmdAttach
    <3> QED
      BY <2>1, <3>1 DEF AttachRefused, AttachMerged, AnchorLedger, anchor
  <2>16. l = RecordDelivery(MergeAttachment(Tip.ledger, BuildAttachment(r), cs[anchor].tree.ledger), BuildAttachment(r), answer)
    <3> HIDE DEF bound
    <3>1. l = AttachDelivered(u, bound, r, answer)
      BY DEF CmdAttach
    <3> QED
      BY <2>1, <3>1 DEF AttachDelivered, AttachMerged, AnchorLedger, anchor
  <2> HIDE DEF anchor, bound
  <2>17. LedgerRecordDocument(l, cs[anchor].tree.ledger, bound) /\ l.has = TRUE
    BY <2>15, <2>16, DeliveredRecord
  <2>18. HeadTree(w) = t
    BY <2>2, <2>7 DEF HeadTree
  <2>19. Has(HeadTree(w), "ledger")
    BY <2>9, <2>17, <2>18 DEF Has, NoTree
  <2>20. LedgerRecordPath(w, CoveredLedgerAnchor(w, bound), bound)
    BY <2>2, <2>9, <2>13, <2>14, <2>15, <2>17, <2>18, <2>19 DEF LedgerRecordPath
  <2>21. "ledger" \in TrailingPaths(w, bound) => "ledger" \in TrailingRecords(w, bound)
    BY <2>20 DEF TrailingRecords
  <2>22. ASSUME "ledger" \in DOMAIN Files(w), \A x \in bound : "ledger" \notin docs[x.digest].files
         PROVE  "ledger" \in RecordPaths(w, bound)
    <3>1. cs[b].tree.ledger # l
      <4>1. k[b].tree["ledger"] # k[n].tree["ledger"]
        BY <2>2, <2>22, SourcePaths, ListedPaths DEF Files
      <4> QED
        BY <2>7, <2>9, <2>10, <4>1
    <3>2. \A x \in bound : cs[docs[x.digest].head].tree["ledger"] = cs[b].tree["ledger"]
      <4> SUFFICES ASSUME NEW x \in bound, cs[docs[x.digest].head].tree["ledger"] # cs[b].tree["ledger"] PROVE FALSE
        OBVIOUS
      <4>1. "ledger" \in DOMAIN RangeFiles(cs, b, docs[x.digest].head)
        BY SourcePaths, ListedPaths
      <4>2. docs[x.digest].files = DOMAIN RangeFiles(cs, docs[x.digest].base, docs[x.digest].head)
        BY <2>5 DEF DocOk, bound
      <4> QED
        BY <2>22, <4>1, <4>2
    <3>3. H \subseteq Branch(k, main, n) /\ \A y \in H : k[y].tree.ledger = k[b].tree.ledger
      <4>1. \A y \in heads : y \in 1 .. Len(cs) /\ cs[y].tree["ledger"] = cs[b].tree["ledger"]
        BY <2>6, <3>2 DEF bound
      <4> QED
        BY <2>7, <2>10, <4>1
    <3>4. k[n].tree.ledger # k[b].tree.ledger
      BY <2>7, <2>9, <2>10, <3>1
    <3> HIDE DEF H
    <3>5. PICK x \in Branch(k, main, n) \ UNION {k[y].anc : y \in H} : "ledger" \in Touched(k, x)
      BY <2>8, <2>10, <2>11, <3>3, <3>4, LedgerTrails
    <3>6. \A y \in heads : x \notin k[y].anc
      <4> SUFFICES ASSUME NEW y \in heads, x \in k[y].anc PROVE FALSE
        OBVIOUS
      <4>1. y \in 1 .. Len(cs) /\ y \in cs[tip].anc /\ y \in k[n].anc /\ k[y] = cs[y]
        BY <2>6, <2>7 DEF bound
      <4>2. y \notin Branch(k, main, n)
        BY <3>5 DEF H
      <4>3. y \in k[main].anc
        BY <4>1, <4>2 DEF Branch
      <4>4. x \in k[main].anc
        BY <2>8, <2>10, <4>3 DEF GraphOk
      <4> QED
        BY <3>5, <4>4 DEF Branch
    <3>7. x \in TrailingCommits(w, bound)
      BY <2>2, <2>11, <3>5, <3>6 DEF TrailingCommits, ReceiptHead
    <3>8. "ledger" \in Names(k, b, n)
      BY <3>4, SourcePaths DEF Names
    <3>9. "ledger" \in TrailingPaths(w, bound)
      BY <2>2, <3>5, <3>7, <3>8 DEF TrailingPaths
    <3>10. \A y \in bound : "ledger" \notin Names(w.cs, w.base, ReceiptHead(w, y))
      <4>1. \A y \in bound : k[docs[y.digest].head].tree["ledger"] = k[b].tree["ledger"]
        BY <2>6, <2>7, <2>10, <3>2 DEF bound
      <4> QED
        BY <2>2, <4>1 DEF Names, ReceiptHead
    <3> QED
      BY <2>21, <3>9, <3>10 DEF RecordPaths
  <2>23. "ledger" \notin EditedAfterReceiptHead(w, bound)
    BY <2>21 DEF EditedAfterReceiptHead
  <2>24. "ledger" \in DOMAIN Files(w) =>
           "ledger" \in RecordPaths(w, bound) \cup UNION {docs[x.digest].files : x \in bound}
    BY <2>22
  <2> QED
    BY <2>23, <2>24 DEF w, k, t, n, u
<1> QED
  BY <1>1, InvCorrect, PTL

-----------------------------------------------------------------------------
(***************************************************************************)
(* An honest change is admitted: what its receipt says.                    *)
(***************************************************************************)

LEMMA AdmittedRows ==
  ASSUME NEW rows, NEW X, NEW synth \in BOOLEAN,
         Admission(rows, X, synth) \in {"admitted", "admitted_with_exemptions"}
  PROVE  /\ \A e \in DOMAIN rows \ X : rows[e] = "verified"
         /\ Admission(rows, X, synth) = "admitted" => X = {} /\ ~synth /\ DOMAIN rows # {}
<1> DEFINE left == {rows[e] : e \in DOMAIN rows \ X} \ {"verified"}
<1>1. Admission(rows, X, synth) =
        IF "failed" \in left THEN "refused"
        ELSE IF left # {} \/ (DOMAIN rows = {} /\ ~synth) THEN "paused_safe"
        ELSE IF X = {} /\ ~synth THEN "admitted" ELSE "admitted_with_exemptions"
  BY DEF Admission
<1>2. \A e \in DOMAIN rows \ X : rows[e] # "verified" => rows[e] \in left
  OBVIOUS
<1> HIDE DEF left
<1>3. left = {}
  BY <1>1
<1> QED
  BY <1>1, <1>2, <1>3

\* The receipt an author measures for the whole branch, exempted if it can be.
Own(w, out, id) == MeasuredChangeReceipt(w, w.base, w.head, out, WorkItem, id)

ReceiptFields == {"id", "mode", "base", "head", "files", "work_item", "rows", "boundary", "cashed", "admission", "x", "dec"}

\* What such a receipt m says, before it is exempted.
Measures(w, out, id, m) ==
  /\ DOMAIN m = ReceiptFields
  /\ m.id = id /\ m.mode = "diff" /\ m.base = w.base /\ m.head = w.head /\ m.files = DOMAIN Files(w)
  /\ m.work_item = WorkItem
  /\ m.rows = MeasuredRows(w, HeadTree(w), DOMAIN Files(w), SupersededSelf(w, w.base, w.head, out, WorkItem))
  /\ m.boundary = DOMAIN m.rows \cap {"new"}
  /\ m.cashed = IF \E e \in DOMAIN m.rows \cap {"new"} : m.rows[e] = "verified" THEN {"canary"} ELSE {}
  /\ m.admission = Admission(m.rows, {}, FALSE) /\ m.x = NoExemption /\ m.dec = NoDecision

LEMMA OwnFacts ==
  ASSUME NEW w, NEW out, NEW id
  PROVE  Measures(w, out, id, Own(w, out, id))
<1> DEFINE rows == MeasuredRows(w, HeadTree(w), DOMAIN Files(w), SupersededSelf(w, w.base, w.head, out, WorkItem))
<1>1. Own(w, out, id) = ReceiptOf(w.base, w.head, DOMAIN Files(w), WorkItem, id, rows)
  BY DEF Own, MeasuredChangeReceipt, MeasuredFiles, Files, HeadTree
<1> HIDE DEF rows
<1> QED
  BY <1>1 DEF ReceiptOf, rows, Measures, ReceiptFields

\* A row an honest receipt has, and what it says.
LEMMA OwnRows ==
  ASSUME NEW w, NEW t, NEW files, NEW excluded
  PROVE  LET rows == MeasuredRows(w, t, files, excluded)
         IN  /\ \A p \in {"src", "bundle", "wf", "caller", "ra", "rb", "arc"} :
                  p \in files /\ p \notin excluded /\ Has(t, p) => p \in DOMAIN rows
             /\ \A p \in {"bundle", "wf", "caller", "ra", "rb", "arc"} : p \in DOMAIN rows => rows[p] = "not_measured"
             /\ "new" \in DOMAIN rows /\ rows["new"] = "verified" => t.can.has /\ t.can.measured = t.src
             /\ DOMAIN rows # {} => files # {}
<1> DEFINE rows == MeasuredRows(w, t, files, excluded)
           D == {p \in Reached(t, files) \ excluded : Has(t, p)} \cup (IF w.legacy /\ "lock" \in files THEN {Legacy} ELSE {})
<1>1. DOMAIN rows = D /\ \A e \in D : rows[e] = IF e = Legacy THEN "failed" ELSE Measured(w, t, e)
  BY DEF MeasuredRows
<1> HIDE DEF rows
<1>2. \A p \in {"src", "bundle", "wf", "caller", "ra", "rb", "arc"} :
         p \in files /\ p \notin excluded /\ Has(t, p) => p \in D
  BY DEF Reached
<1>3. D # {} => files # {}
  BY DEF Reached
<1> HIDE DEF D
<1>4. \A p \in {"bundle", "wf", "caller", "ra", "rb", "arc"} : p \in D => rows[p] = "not_measured"
  BY <1>1 DEF Measured, Legacy
<1>5. "new" \in D /\ rows["new"] = "verified" => t.can.has /\ t.can.measured = t.src
  BY <1>1 DEF Measured, Legacy
<1> QED
  BY <1>1, <1>2, <1>3, <1>4, <1>5 DEF rows

\* A receipt with nothing against it.
GoodReceipt(g, r, d) ==
  /\ g.ev = NoEvidence /\ g.up = NoUserpath
  /\ r.path # "auto" => d.rows = MeasuredChangeReceipt(g, d.base, d.head, r.path, d.work_item, d.id).rows
  /\ d.dec = NoDecision /\ StructuralHolds(g, d)
  /\ \A e \in DOMAIN d.rows \ d.x.entities : d.rows[e] = "verified"
  /\ d.admission \in {"admitted", "admitted_with_exemptions"}
  /\ d.boundary = DOMAIN d.rows \cap {"new"}
  /\ d.cashed = IF \E e \in DOMAIN d.rows \cap {"new"} : d.rows[e] = "verified" THEN {"canary"} ELSE {}
  /\ "new" \in DOMAIN d.rows /\ d.rows["new"] = "verified" => HeadTree(g).can.has /\ HeadTree(g).can.measured = HeadTree(g).src

LEMMA GoodReceiptClean ==
  ASSUME NEW g, NEW r, NEW d, GoodReceipt(g, r, d)
  PROVE  ReceiptChecks(g, r, d) = {}
<1> USE DEF GoodReceipt
<1> DEFINE decided == DecisionsHold(g, d)
           holds == StructuralHolds(g, d)
           staged == StageOk(g, r, d)
           exempt == ValidExempt(d, decided, holds)
<1>1. decided
  BY DEF DecisionsHold, NoDecision
<1>2. ~g.ev.has /\ ~g.up.has
  BY DEF NoEvidence, NoUserpath
<1>3. exempt = d.x.entities
  BY <1>1 DEF ValidExempt, NoDecision
<1> HIDE DEF decided, holds, staged, exempt
<1>4. C18(g, r, d) = {}
  BY DEF C18, Pause
<1>5. C21(decided) = {} /\ C16(holds) = {} /\ StageChecks(g, staged) = {}
  BY <1>1, <1>2 DEF C21, C16, StageChecks, Refuse, holds
<1>6. C08(g, d, exempt) = {}
  BY <1>3 DEF C08, Refuse
<1>7. C09(d, exempt, holds, staged) = {}
  BY <1>3 DEF C09, Pause, holds
<1>8. C11(g, d, staged) = {}
  BY DEF C11, Refuse
<1>9. C12(d, exempt, CanaryCoverage(g, d), StageNM(g, staged)) = {}
  <2> DEFINE covered == CanaryCoverage(g, d)
             ids == CashedCanaryIds(d, d.boundary \ exempt)
  <2>1. ids = {} \/ ids = d.cashed
    BY DEF CashedCanaryIds
  <2>2. d.cashed # {} => covered = {"new"}
    BY DEF CanaryCoverage
  <2>3. d.boundary \ (covered \cup exempt \cup StageNM(g, staged)) = {}
    BY <1>3, <2>2
  <2> HIDE DEF covered, ids
  <2>4. ~(ids # {} /\ covered = {})
    BY <2>1, <2>2
  <2> QED
    BY <2>3, <2>4 DEF C12, Refuse, covered, ids
<1> QED
  BY <1>4, <1>5, <1>6, <1>7, <1>8, <1>9 DEF ReceiptChecks, JudgeReceipt, ReceiptVerdicts, decided, holds, staged, exempt

\* The only receipt offered is good, and the checks over all of them have nothing to say.
Passing(w, r) ==
  /\ w.route = "receipts" /\ w.author # "bot" /\ w.description = "plain" /\ w.readiness # "violation"
  /\ CiReceipts(w) = {r} /\ ~EarlyFail(w)
  /\ ReceiptBinds(w, w.docs[r.digest])
  /\ w.docs[r.digest].boundary = DOMAIN w.docs[r.digest].rows \cap {"new"}
  /\ LET g == GateWorld(w, {r})
     IN  /\ GoodReceipt(g, r, w.docs[r.digest]) /\ r.path # "auto"
         /\ C06(g, {r}) = {} /\ C13(g, {r}) = {}

LEMMA PassingSucceeds ==
  ASSUME NEW w, NEW r, DOMAIN w = DOMAIN Local, Passing(w, r)
  PROVE  CmdRun(w) = "success"
<1> USE DEF Passing
<1> DEFINE rs == {r}
           g == GateWorld(w, rs)
           d == w.docs[r.digest]
           context == GateReceiptContext(g, rs)
<1>1. /\ g.cs = w.cs /\ g.base = w.base /\ g.head = w.head /\ g.docs = w.docs /\ g.description = w.description
      /\ g.author = w.author /\ g.legacy = w.legacy
  BY DEF GateWorld, Local, World
<1> HIDE DEF g
<1>2. ReceiptBinds(g, g.docs[r.digest])
  BY <1>1 DEF ReceiptBinds
<1>3. context.bound = rs /\ context.unbound = {}
  BY <1>2 DEF GateReceiptContext
<1>4. GateReceiptContext(w, rs).bound = rs
  BY DEF GateReceiptContext
<1> HIDE DEF context
<1>5. ReceiptChecks(g, r, g.docs[r.digest]) = {}
  BY <1>1, GoodReceiptClean DEF g
<1>6. AllChecks(g, context.bound, context.unbound, TRUE) = {}
  <2>1. C01(g) = {} /\ C03(rs) = {} /\ C05({}, TRUE) = {}
    BY <1>1 DEF C01, C03, C05, Refuse
  <2>2. (UNION {ReceiptChecks(g, x, g.docs[x.digest]) : x \in rs}) = {}
    BY <1>5
  <2>3. C06(g, rs) = {} /\ C13(g, rs) = {}
    BY DEF g
  <2> QED
    BY <1>3, <2>1, <2>2, <2>3 DEF AllChecks
<1>7. GateOver(g, rs, TRUE) = "admit"
  BY <1>6 DEF GateOver, Judge, Worst, context
<1>8. ~AutomatedEligible(g) /\ ~AutomatedEligible(w)
  BY <1>1 DEF AutomatedEligible, MatchAutomatedAuthor
<1>9. Verdict(g, rs, TRUE) = "admit"
  <2>1. rs \cup {} = rs
    OBVIOUS
  <2> QED
    BY <1>7, <1>8, <2>1 DEF Verdict
<1>10. GraphRebuilt(w, rs)
  <2>1. d.rows = MeasuredChangeReceipt(g, d.base, d.head, r.path, d.work_item, d.id).rows
    BY DEF GoodReceipt, g
  <2>2. SupersededSelf(g, d.base, d.head, r.path, d.work_item) = SupersededSelf(w, d.base, d.head, r.path, d.work_item)
    BY <1>1 DEF SupersededSelf
  <2> DEFINE m == MeasuredChangeReceipt(w, d.base, d.head, r.path, d.work_item, d.id)
  <2>3. MeasuredChangeReceipt(g, d.base, d.head, r.path, d.work_item, d.id).rows = m.rows
    BY <1>1, <2>2 DEF MeasuredChangeReceipt, MeasuredFiles, ReceiptOf, MeasuredRows, Measured
  <2>4. m.boundary = DOMAIN m.rows \cap {"new"}
    BY DEF MeasuredChangeReceipt, MeasuredFiles, ReceiptOf
  <2>5. d.boundary = m.boundary
    BY <2>1, <2>3, <2>4
  <2> QED
    BY <1>4, <2>5 DEF GraphRebuilt
<1>11. ~HardRefusals(w, rs)
  BY <1>10 DEF HardRefusals, CheckReadinessReceipts, Refuse
<1> QED
  BY <1>9, <1>11 DEF CmdRun, g

-----------------------------------------------------------------------------
(***************************************************************************)
(* An honest change is admitted: the exemption is measured again.          *)
(***************************************************************************)

LEMMA SameDerived ==
  ASSUME NEW w, NEW v, Same(w, v), NEW derived, NEW force, NEW case
  PROVE  EvaluateDerived(v, derived, force, case) = EvaluateDerived(w, derived, force, case)
<1>1. VerifierArms(v, derived, force) = VerifierArms(w, derived, force)
  <2> DEFINE known == derived \cap Declared(force.decl)
  <2>1. HeadTree(v) = HeadTree(w)
    BY SameTrees
  <2>2. \A p \in known :
           /\ RunDeclared(v, Entry(force.decl, p), HeadTree(v)) = RunDeclared(w, Entry(force.decl, p), HeadTree(w))
           /\ CorruptOneByte(v, Entry(force.decl, p), HeadTree(v)) = CorruptOneByte(w, Entry(force.decl, p), HeadTree(w))
    BY <2>1, SameRuns
  <2> QED
    BY <2>2 DEF VerifierArms, Chk
<1>2. /\ RefreshArm(v, Files(v), derived) = RefreshArm(w, Files(w), derived)
      /\ ImpactArm(v, derived) = ImpactArm(w, derived)
  BY SameTrees DEF RefreshArm, ImpactArm
<1>3. JobArm(v, derived, force) = JobArm(w, derived, force)
  BY DEF Same, JobArm
<1>4. LicenceArm(Files(v), derived, force, case) = LicenceArm(Files(w), derived, force, case)
  BY SameTrees
<1>5. DerivedArms(v, derived, force, case) = DerivedArms(w, derived, force, case)
  BY <1>1, <1>2, <1>3, <1>4 DEF DerivedArms
<1> QED
  BY <1>5 DEF EvaluateDerived

\* A range that changes no receipt of the base and files none has no receipt to set aside.
LEMMA SameSplit ==
  ASSUME NEW w, NEW v, Same(w, v), DOMAIN Files(w) \cap ReceiptIssue = {}
  PROVE  SplitOutside(v) = SplitOutside(w)
<1> DEFINE force == DeclarationInForce(w)
           all == DOMAIN Files(w) \ (Managed(w) \cup (IF force.boot THEN {"decl"} ELSE {}))
<1>1. \A u : SelfReceipt(u, all \cap ReceiptIssue) = {}
  <2>1. all \cap ReceiptIssue = {}
    OBVIOUS
  <2> HIDE DEF all
  <2>2. \A u : SelfReceipt(u, {}) = {}
    BY DEF SelfReceipt
  <2> QED
    BY <2>1, <2>2
<1> HIDE DEF all, force
<1>2. \A u : SelfCanary(u, {}, all) = {}
  BY DEF SelfCanary
<1>3. \A outside : SplitBaseBranchMerge(v, outside) = SplitBaseBranchMerge(w, outside)
  <2>1. RangeMerges(v) = RangeMerges(w) /\ ResolveBaseBranch(v) = ResolveBaseBranch(w)
    BY DEF Same, RangeMerges, ResolveBaseBranch
  <2>2. v.cs = w.cs /\ v.base = w.base /\ v.head = w.head /\ v.main = w.main
    BY DEF Same
  <2>3. HeadTree(v) = HeadTree(w) /\ Managed(v) = Managed(w)
    BY SameTrees
  <2> QED
    BY <2>1, <2>2, <2>3 DEF SplitBaseBranchMerge
<1>4. \A p : PinOnlyEdit(v, p) <=> PinOnlyEdit(w, p)
  <2>1. BaseTree(v) = BaseTree(w) /\ HeadTree(v) = HeadTree(w) /\ v.origin = w.origin
    BY SameTrees DEF Same
  <2>2. BaseLocalWorkflowIsManifestBound(v) <=> BaseLocalWorkflowIsManifestBound(w)
    BY <2>1 DEF BaseLocalWorkflowIsManifestBound
  <2>3. \A expect : PairedPins(v, expect) <=> PairedPins(w, expect)
    BY <2>1, <2>2 DEF PairedPins
  <2> QED
    BY <2>1, <2>3 DEF PinOnlyEdit
<1>5. \A decl, receipt, merge, left : SplitLeft(v, decl, receipt, merge, left) = SplitLeft(w, decl, receipt, merge, left)
  BY <1>4 DEF SplitLeft
<1>6. \A decl : SplitFiled(v, decl, {}, all) = SplitFiled(w, decl, {}, all)
  BY <1>2, <1>3, <1>5 DEF SplitFiled, SplitMerged
<1>7. \A u \in {v, w} : SplitOutside(u) = SplitFiled(u, force.decl, {}, all)
  <2>1. \A u \in {v, w} : Files(u) = Files(w) /\ Managed(u) = Managed(w) /\ DeclarationInForce(u) = force
    BY SameTrees DEF force
  <2> QED
    BY <1>1, <2>1 DEF SplitOutside, all
<1> QED
  BY <1>6, <1>7

LEMMA SameEvaluation ==
  ASSUME NEW w, NEW v, Same(w, v), NEW case, NEW split, NEW authority, NEW so
  PROVE  /\ EvaluateStructural(v, case, split, <<0, 0>>, authority, so) = EvaluateStructural(w, case, split, <<0, 0>>, authority, so)
         /\ StructuralCase(v, split) = StructuralCase(w, split)
         /\ \A E : StructuralCoveredEntities(v, case, split, E) = StructuralCoveredEntities(w, case, split, E)
<1>1. /\ BaseTree(v) = BaseTree(w) /\ HeadTree(v) = HeadTree(w) /\ Files(v) = Files(w)
      /\ Managed(v) = Managed(w) /\ DeclarationInForce(v) = DeclarationInForce(w)
      /\ v.head = w.head /\ \A h : Binding(v, h) = Binding(w, h)
  BY SameTrees DEF Same
<1>2. EvaluateNoImpact(v) = EvaluateNoImpact(w)
  BY <1>1, SameDerived DEF EvaluateNoImpact, NoImpactUnder
<1>3. SameReceiptOutsideArchive(v) = SameReceiptOutsideArchive(w)
  BY <1>1 DEF SameReceiptOutsideArchive
<1>4. EvaluateSpentReceiptArchive(v) = EvaluateSpentReceiptArchive(w)
  BY <1>1, <1>3, SameArtefacts DEF EvaluateSpentReceiptArchive, ArchiveBeside, ArchiveMoves
<1>5. EvaluateSelfUpdate(v, split) = EvaluateSelfUpdate(w, split)
  BY <1>1, SameDerived DEF EvaluateSelfUpdate, KeyContinuity, SelfUpdateSelftest, SelfUpdateMonotonic, WorkflowIntegrity
<1>6. EvaluateDeclarationAmend(v, <<0, 0>>, authority, so) = EvaluateDeclarationAmend(w, <<0, 0>>, authority, so)
  <2>1. \A op : DryRunArm(v, op, <<0, 0>>) = DryRunArm(w, op, <<0, 0>>)
    BY DEF DryRunArm
  <2>2. AmendmentHolds(v, <<0, 0>>) = AmendmentHolds(w, <<0, 0>>)
    BY <1>1, <2>1 DEF AmendmentHolds, Granted
  <2>3. \A op : SecondAuthority(v, op, <<0, 0>>, authority, so) = SecondAuthority(w, op, <<0, 0>>, authority, so)
    BY <1>1 DEF SecondAuthority
  <2> QED
    BY <1>1, <2>2, <2>3 DEF EvaluateDeclarationAmend
<1>7. \A files, declared, edited : CaseOf(v, files, declared, split, edited) = CaseOf(w, files, declared, split, edited)
  BY <1>1, <1>3 DEF CaseOf, IsSpentReceiptArchive
<1>8. StructuralCase(v, split) = StructuralCase(w, split)
  BY <1>1, <1>7 DEF StructuralCase
<1>9. \A E : StructuralCoveredEntities(v, case, split, E) = StructuralCoveredEntities(w, case, split, E)
  BY <1>1 DEF StructuralCoveredEntities
<1>10. EvaluateStructural(v, case, split, <<0, 0>>, authority, so) = EvaluateStructural(w, case, split, <<0, 0>>, authority, so)
  BY <1>2, <1>4, <1>5, <1>6 DEF EvaluateStructural
<1> QED
  BY <1>8, <1>9, <1>10

\* What C16 measures again where nothing has moved is what `exempt` measured.
LEMMA RecheckedAgain ==
  ASSUME NEW w, NEW v, Same(w, v), DOMAIN Files(w) \cap ReceiptIssue = {}, NEW E, NEW so,
         StructuralExemption(w, E, <<0, 0>>, "first", so).code # "none"
  PROVE  LET x == StructuralExemption(w, E, <<0, 0>>, "first", so)
         IN  /\ RecheckStructural(v, x, E, w.head)
             /\ "bundle" \in x.entities => StructuralCase(v, SplitOutside(v)) = "gate_self_update"
<1> DEFINE split == SplitOutside(w)
           case == StructuralCase(w, split)
           C == StructuralCoveredEntities(w, case, split, E)
           x == StructuralExemption(w, E, <<0, 0>>, "first", so)
           y == [code |-> case, entities |-> C, synth |-> w.head, binding |-> Binding(w, w.head), range |-> <<0, 0>>,
                 authority |-> "first", opinion |-> so]
<1>1. x = ExemptCase(w, case, split, E, <<0, 0>>, "first", so)
  BY DEF StructuralExemption, ExemptSplit
<1>2. "bundle" \in C => case = "gate_self_update"
  BY CoveredEntities
<1>3. SplitOutside(v) = split
  BY SameSplit
<1>4. /\ EvaluateStructural(v, case, split, <<0, 0>>, "first", so) = EvaluateStructural(w, case, split, <<0, 0>>, "first", so)
      /\ StructuralCase(v, split) = case
      /\ StructuralCoveredEntities(v, case, split, E) = C
  BY SameEvaluation
<1>5. v.head = w.head /\ Binding(v, v.head) = Binding(w, w.head)
  BY SameTrees DEF Same
<1> HIDE DEF split, case, C, x
<1>6. EvaluateStructural(w, case, split, <<0, 0>>, "first", so) /\ x = y
  <2>1. x.code # "none"
    BY DEF x
  <2> QED
    BY <1>1, <2>1 DEF ExemptCase, NoExemption, C
<1>7. ~RecordRange(v, case, split, w.head)
  BY <1>5 DEF RecordRange
<1>8. RecheckRange(v, x, E, w.head, split, case, {v.head})
  BY <1>4, <1>5, <1>6 DEF RecheckRange, AdmissibleRanges
<1>9. RecheckCase(v, x, E, w.head, split, case)
  <2>1. {v.head} \cup {} = {v.head}
    OBVIOUS
  <2> QED
    BY <1>7, <1>8, <2>1 DEF RecheckCase
<1>10. RecheckStructural(v, x, E, w.head)
  BY <1>3, <1>4, <1>9 DEF RecheckStructural, RecheckSplit
<1>11. "bundle" \in x.entities => StructuralCase(v, SplitOutside(v)) = "gate_self_update"
  BY <1>2, <1>3, <1>4, <1>6
<1> QED
  BY <1>10, <1>11 DEF x

\* `exempt` leaves everything of m but the exemption and the admission as it was measured.
Exempts(w, so, m, d) ==
  /\ d.id = m.id /\ d.mode = m.mode /\ d.base = m.base /\ d.head = m.head /\ d.files = m.files
  /\ d.work_item = m.work_item /\ d.rows = m.rows /\ d.boundary = m.boundary /\ d.cashed = m.cashed
  /\ d.dec = NoDecision
  /\ LET x == StructuralExemption(w, DOMAIN m.rows, <<0, 0>>, "first", so)
     IN  \/ d = m /\ d.x = NoExemption /\ d.admission = Admission(m.rows, {}, FALSE)
         \/ x.code # "none" /\ d.x = x /\ d.admission = Admission(m.rows, x.entities, TRUE)

LEMMA ExemptedReceipt ==
  ASSUME NEW w, NEW out, NEW id, NEW so
  PROVE  Exempts(w, so, Own(w, out, id), CmdExempt(w, Own(w, out, id), <<0, 0>>, "first", so))
<1> DEFINE m == Own(w, out, id)
           x == StructuralExemption(w, DOMAIN m.rows, <<0, 0>>, "first", so)
           d == CmdExempt(w, m, <<0, 0>>, "first", so)
<1>1. DOMAIN m = ReceiptFields /\ m.admission = Admission(m.rows, {}, FALSE) /\ m.x = NoExemption /\ m.dec = NoDecision
  <2>1. Measures(w, out, id, m)
    BY OwnFacts
  <2> HIDE DEF m
  <2> QED
    BY <2>1 DEF Measures
<1> HIDE DEF m, x
<1>2. d = IF x.code = "none" THEN m ELSE [m EXCEPT !.x = x, !.admission = Admission(m.rows, x.entities \cup m.dec.entities, TRUE)]
  BY DEF CmdExempt, WithExemption, x
<1> HIDE DEF d
<1>3. CASE x.code = "none"
  BY <1>1, <1>2, <1>3 DEF m, x, d, Exempts
<1>4. CASE x.code # "none"
  <2>1. x.entities \cup m.dec.entities = x.entities
    BY <1>1 DEF NoDecision
  <2>2. d = [m EXCEPT !.x = x, !.admission = Admission(m.rows, x.entities, TRUE)]
    BY <1>2, <1>4, <2>1
  <2>3. /\ d.id = m.id /\ d.mode = m.mode /\ d.base = m.base /\ d.head = m.head /\ d.files = m.files
        /\ d.work_item = m.work_item /\ d.rows = m.rows /\ d.boundary = m.boundary /\ d.cashed = m.cashed
        /\ d.dec = NoDecision /\ d.x = x /\ d.admission = Admission(m.rows, x.entities, TRUE)
    BY <1>1, <2>2 DEF ReceiptFields
  <2> QED
    BY <1>4, <2>3 DEF m, x, d, Exempts
<1> QED
  BY <1>3, <1>4

\* What is admitted has nothing left that was not verified, and without exemptions nothing was exempted.
LEMMA ExemptedRows ==
  ASSUME NEW w, NEW so, NEW m, NEW d, Exempts(w, so, m, d), d.admission \in {"admitted", "admitted_with_exemptions"}
  PROVE  /\ \A e \in DOMAIN d.rows \ d.x.entities : d.rows[e] = "verified"
         /\ d.x.code # "none" => d.x = StructuralExemption(w, DOMAIN m.rows, <<0, 0>>, "first", so)
         /\ d.x.code = "none" => d.x.entities = {}
         /\ d.admission = "admitted" => d = m /\ d.x = NoExemption /\ DOMAIN d.rows # {}
<1> DEFINE x == StructuralExemption(w, DOMAIN m.rows, <<0, 0>>, "first", so)
<1>1. NoExemption.entities = {} /\ NoExemption.code = "none"
  BY DEF NoExemption
<1>2. d.rows = m.rows
  BY DEF Exempts
<1>3. CASE d = m /\ d.x = NoExemption /\ d.admission = Admission(m.rows, {}, FALSE)
  <2>1. Admission(m.rows, {}, FALSE) \in {"admitted", "admitted_with_exemptions"}
    BY <1>3
  <2>2. /\ \A e \in DOMAIN m.rows \ {} : m.rows[e] = "verified"
        /\ Admission(m.rows, {}, FALSE) = "admitted" => DOMAIN m.rows # {}
    BY <2>1, AdmittedRows
  <2> QED
    BY <1>1, <1>2, <1>3, <2>2
<1>4. CASE x.code # "none" /\ d.x = x /\ d.admission = Admission(m.rows, x.entities, TRUE)
  <2> HIDE DEF x
  <2>1. Admission(m.rows, x.entities, TRUE) \in {"admitted", "admitted_with_exemptions"}
    BY <1>4
  <2>2. /\ \A e \in DOMAIN m.rows \ x.entities : m.rows[e] = "verified"
        /\ Admission(m.rows, x.entities, TRUE) # "admitted"
    BY <2>1, AdmittedRows
  <2>3. d.admission # "admitted"
    BY <1>4, <2>2
  <2> QED
    BY <1>2, <1>4, <2>2, <2>3 DEF x
<1> QED
  BY <1>3, <1>4 DEF Exempts

\* A receipt path that the branch did not touch is not listed and offers no receipt.
LEMMA UntouchedReceipt ==
  ASSUME NEW c, NEW b, NEW h, NEW p \in Paths, c[b].tree[p] = c[h].tree[p]
  PROVE  p \notin DOMAIN RangeFiles(c, b, h)
BY DEF RangeFiles, StatusOf

\* The world w in which the receipts ds were issued and bs are in the text of the pull request, and what the gate sees of it.
Text(u, ds, bs, w, g) ==
  /\ DOMAIN w = DOMAIN u /\ Same(u, w) /\ Same(u, g)
  /\ w.docs = ds /\ g.docs = ds /\ w.body = bs /\ w.pins = u.pins
  /\ w.route = u.route /\ w.author = u.author /\ w.description = "plain" /\ w.readiness = u.readiness
  /\ g.legacy = u.legacy /\ g.ev = NoEvidence /\ g.up = NoUserpath
  /\ g.enforcement = u.enforcement /\ g.program = u.program

LEMMA TextFields ==
  ASSUME NEW ds, NEW bs, NEW rs, Local.route = "receipts"
  PROVE  Text(Local, ds, bs, [Local EXCEPT !.docs = ds, !.body = bs], GateWorld([Local EXCEPT !.docs = ds, !.body = bs], rs))
BY DEF Local, World, GateWorld, Same, Text

LEMMA HonestInText ==
  ASSUME Inv, NEW d, env.route = "receipts", env.author # "bot", env.readiness # "violation", VerifyBundle(Local),
         Tip.ra = cs[Local.base].tree.ra, Tip.rb = cs[Local.base].tree.rb,
         Enforcement(Local) = "off", d = OwnReceipt("body"), d.admission \in {"admitted", "admitted_with_exemptions"}
  PROVE  CmdRun([Local EXCEPT !.docs = Append(docs, d), !.body = {Len(docs) + 1}]) = "success"
<1> DEFINE u == Local
           n == Len(docs) + 1
           ds == Append(docs, d)
           w == [u EXCEPT !.docs = ds, !.body = {n}]
           r == [path |-> "body", digest |-> n]
           g == GateWorld(w, {r})
           m == Own(u, "body", n)
           E == DOMAIN m.rows
           x == StructuralExemption(u, E, <<0, 0>>, "first", opinion)
<1>1. /\ u.cs = cs /\ u.head = tip /\ u.docs = docs /\ u.route = "receipts" /\ u.author # "bot"
      /\ u.readiness # "violation" /\ HeadTree(u) = Tip /\ BaseTree(u) = cs[u.base].tree
  BY LocalFields DEF Local, World, BaseTree
<1>2. /\ DOMAIN w = DOMAIN u /\ Same(u, w) /\ Same(u, g)
      /\ w.docs = ds /\ g.docs = ds /\ w.body = {n} /\ w.pins = u.pins
      /\ w.route = "receipts" /\ w.author # "bot" /\ w.description = "plain" /\ w.readiness # "violation"
      /\ g.legacy = u.legacy /\ g.ev = NoEvidence /\ g.up = NoUserpath
      /\ g.enforcement = u.enforcement /\ g.program = u.program
  <2> HIDE DEF ds
  <2>1. Text(u, ds, {n}, w, g)
    BY <1>1, TextFields
  <2> QED
    BY <1>1, <2>1 DEF Text
<1>3. d = CmdExempt(u, m, <<0, 0>>, "first", opinion)
  BY <1>1 DEF OwnReceipt, Own
<1>4. /\ m.id = n /\ m.mode = "diff" /\ m.base = u.base /\ m.head = tip /\ m.files = DOMAIN Files(u)
      /\ m.work_item = WorkItem
      /\ m.rows = MeasuredRows(u, HeadTree(u), DOMAIN Files(u), SupersededSelf(u, u.base, u.head, "body", WorkItem))
      /\ m.boundary = E \cap {"new"}
      /\ m.cashed = IF \E e \in E \cap {"new"} : m.rows[e] = "verified" THEN {"canary"} ELSE {}
  <2>1. Measures(u, "body", n, m)
    BY OwnFacts
  <2> HIDE DEF u, n, m
  <2> QED
    BY <1>1, <2>1 DEF Measures
<1>5. /\ d.id = m.id /\ d.mode = m.mode /\ d.base = m.base /\ d.head = m.head /\ d.files = m.files
      /\ d.work_item = m.work_item /\ d.rows = m.rows /\ d.boundary = m.boundary /\ d.cashed = m.cashed
      /\ d.dec = NoDecision /\ Exempts(u, opinion, m, d)
  <2>1. Exempts(u, opinion, m, d)
    BY <1>3, ExemptedReceipt
  <2> HIDE DEF u, n, m
  <2> QED
    BY <2>1 DEF Exempts
<1>6. ds[n] = d
  BY Appended DEF Inv, RecordInv, RecordsOk
<1>7. DOMAIN Files(u) \cap ReceiptIssue = {}
  <2>1. \A p \in ReceiptIssue : p \in Paths /\ cs[u.base].tree[p] = cs[tip].tree[p]
    BY DEF ReceiptIssue, Paths, Tip
  <2> HIDE DEF u
  <2> QED
    BY <1>1, <2>1, UntouchedReceipt DEF Files
<1> HIDE DEF u, w, g, n, ds, m
<1>8. /\ BaseTree(w) = BaseTree(u) /\ HeadTree(w) = HeadTree(u) /\ Files(w) = Files(u)
      /\ BaseTree(g) = BaseTree(u) /\ HeadTree(g) = HeadTree(u) /\ Files(g) = Files(u)
  BY <1>2, SameTrees
<1>9. CiReceipts(w) = {r}
  <2>1. ReceiptsFromBody(w) = {r}
    BY <1>2 DEF ReceiptsFromBody
  <2>2. ReceiptsFromTree(w) = {}
    <3>1. \A q \in ReceiptIssue : BaseTree(w)[q] = HeadTree(w)[q] /\ q \notin DOMAIN Files(w)
      BY <1>1, <1>7, <1>8 DEF ReceiptIssue, u
    <3> QED
      BY <3>1 DEF ReceiptsFromTree, Has
  <2> QED
    BY <1>2, <2>1, <2>2 DEF CiReceipts
<1>10. /\ \A e \in DOMAIN d.rows \ d.x.entities : d.rows[e] = "verified"
       /\ d.x.code # "none" => d.x = x
       /\ d.x.code = "none" => d.x.entities = {}
  BY <1>5, ExemptedRows
<1>11. d.x.code # "none" =>
         /\ RecheckStructural(g, d.x, DOMAIN d.rows, d.head)
         /\ "bundle" \in d.x.entities => StructuralCase(w, SplitOutside(w)) = "gate_self_update"
  <2> SUFFICES ASSUME d.x.code # "none"
               PROVE  /\ RecheckStructural(g, d.x, DOMAIN d.rows, d.head)
                      /\ "bundle" \in d.x.entities => StructuralCase(w, SplitOutside(w)) = "gate_self_update"
    OBVIOUS
  <2>1. x.code # "none" /\ d.x = x
    BY <1>10
  <2>2. E = DOMAIN d.rows /\ d.head = u.head
    BY <1>1, <1>4, <1>5
  <2> HIDE DEF E
  <2>3. RecheckStructural(g, x, E, u.head)
    BY <1>2, <1>7, <2>1, RecheckedAgain
  <2>4. "bundle" \in x.entities => StructuralCase(w, SplitOutside(w)) = "gate_self_update"
    BY <1>2, <1>7, <2>1, RecheckedAgain
  <2> QED
    BY <2>1, <2>2, <2>3, <2>4
<1> HIDE DEF x
<1>12. ~EarlyFail(w)
  <2>1. VerifyBundle(w)
    BY <1>2, <1>8 DEF VerifyBundle, SignedByPinned, ListedWorkflow, u
  <2>2. ~BundleModifiedByPr(w)
    <3> SUFFICES ASSUME "bundle" \in Edited(Files(w)) PROVE StructuralCase(w, SplitOutside(w)) = "gate_self_update"
      BY DEF BundleModifiedByPr
    <3>1. "bundle" \in DOMAIN RangeFiles(u.cs, u.base, u.head)
      BY <1>8 DEF Edited, Files
    <3>2. Has(u.cs[u.head].tree, "bundle")
      BY <1>1, StateFacts DEF TreeOk, HeadTree
    <3>3. "bundle" \in DOMAIN m.rows /\ m.rows["bundle"] = "not_measured"
      BY <3>1, <3>2, MeasuredBundle DEF m, Own
    <3>4. "bundle" \in d.x.entities
      BY <1>5, <1>10, <3>3
    <3>5. d.x.code # "none"
      BY <1>10, <3>4
    <3> QED
      BY <1>11, <3>4, <3>5
  <2> QED
    BY <2>1, <2>2 DEF EarlyFail
<1>13. u.base \in 1 .. Len(cs) /\ u.base \in cs[tip].anc /\ tip \in 1 .. Len(cs)
  <2>1. u.base \in Commits /\ Fork(cs, main, tip, u.base)
    BY LocalBase DEF Inv, u
  <2>2. u.base \in cs[u.base].anc
    BY <2>1 DEF Inv, GraphInv, GraphOk, Commits
  <2> QED
    BY <2>1, <2>2 DEF Inv, GraphInv, Fork, Commits
<1>14. ReceiptBinds(w, w.docs[r.digest])
  <2>1. d.mode = "diff" /\ d.head = w.head /\ IsAncestor(w.cs, d.base, w.head)
    BY <1>1, <1>2, <1>4, <1>5, <1>13 DEF IsAncestor, Same
  <2> QED
    BY <1>2, <1>6, <2>1 DEF ReceiptBinds
<1>15. GoodReceipt(g, r, d)
  <2>1. d.rows = MeasuredChangeReceipt(g, d.base, d.head, "body", d.work_item, d.id).rows
    <3>1. g.cs = cs /\ g.base = u.base /\ g.head = tip
      BY <1>1, <1>2 DEF Same
    <3>2. \A v, b, h : SupersededSelf(v, b, h, "body", WorkItem) = {}
      BY DEF SupersededSelf, ReceiptIssue
    <3>3. d.base = u.base /\ d.head = tip /\ d.work_item = WorkItem
      BY <1>4, <1>5
    <3>4. MeasuredChangeReceipt(g, u.base, tip, "body", WorkItem, d.id).rows = MeasuredRows(g, HeadTree(u), DOMAIN Files(u), {})
      BY <1>8, <3>1, <3>2 DEF MeasuredChangeReceipt, MeasuredFiles, ReceiptOf, HeadTree, Files
    <3>5. MeasuredRows(g, HeadTree(u), DOMAIN Files(u), {}) = MeasuredRows(u, HeadTree(u), DOMAIN Files(u), {})
      BY <1>2 DEF MeasuredRows, Measured
    <3> QED
      BY <1>4, <1>5, <3>2, <3>3, <3>4, <3>5
  <2>2. StructuralHolds(g, d)
    BY <1>11 DEF StructuralHolds
  <2>3. "new" \in DOMAIN d.rows /\ d.rows["new"] = "verified" => HeadTree(g).can.has /\ HeadTree(g).can.measured = HeadTree(g).src
    BY <1>4, <1>5, <1>8, OwnRows
  <2>4. /\ d.boundary = DOMAIN d.rows \cap {"new"}
        /\ d.cashed = IF \E e \in DOMAIN d.rows \cap {"new"} : d.rows[e] = "verified" THEN {"canary"} ELSE {}
    BY <1>4, <1>5
  <2> QED
    BY <1>2, <1>5, <1>10, <2>1, <2>2, <2>3, <2>4 DEF GoodReceipt
<1>16. C06(g, {r}) = {} /\ C13(g, {r}) = {}
  <2>1. C13(g, {r}) = {}
    BY <1>2 DEF C13, Pause, Enforcement, u
  <2>2. g.docs[r.digest] = d
    BY <1>2, <1>6
  <2>3. TrailingPaths(g, {r}) = {}
    <3>1. ReceiptHead(g, r) = g.head
      BY <1>1, <1>2, <1>4, <1>5, <2>2 DEF ReceiptHead, Same
    <3>2. (UNION {g.cs[ReceiptHead(g, y)].anc : y \in {r}}) = g.cs[g.head].anc
      BY <3>1
    <3>3. TrailingCommits(g, {r}) = {}
      BY <3>2 DEF TrailingCommits, RangeCommits
    <3> QED
      BY <3>3 DEF TrailingPaths
  <2>4. EditedAfterReceiptHead(g, {r}) = {}
    BY <2>3 DEF EditedAfterReceiptHead
  <2>5. DOMAIN Files(g) \subseteq UNION {g.docs[y.digest].files : y \in {r}}
    BY <1>4, <1>5, <1>8, <2>2
  <2> QED
    BY <2>1, <2>4, <2>5 DEF C06, Refuse
<1>17. Passing(w, r)
  <2>1. w.docs[r.digest] = d
    BY <1>2, <1>6
  <2>2. d.boundary = DOMAIN d.rows \cap {"new"} /\ r.path # "auto"
    BY <1>4, <1>5
  <2> HIDE DEF r
  <2> QED
    BY <1>2, <1>9, <1>12, <1>14, <1>15, <1>16, <2>1, <2>2 DEF Passing, g
<1>18. CmdRun(w) = "success"
  <2> HIDE DEF r
  <2>1. DOMAIN w = DOMAIN Local
    BY <1>2 DEF u
  <2> QED
    BY <1>17, <2>1, PassingSucceeds
<1> QED
  BY <1>18 DEF w, u, n, ds

-----------------------------------------------------------------------------
(***************************************************************************)
(* An honest change is admitted: the receipt and its ledger record on the  *)
(* branch.                                                                 *)
(***************************************************************************)

Listed(old, new) == DOMAIN StatusOf(old, new, Renamed(old, new))

\* Filing a receipt as ra does not bring up a path that a rename hid, unless an archived receipt was changed.
LEMMA FiledLists ==
  ASSUME NEW old, NEW t, NEW new, \A p \in Paths \ {"ra", "ledger"} : new[p] = t[p],
         new["ra"] # 0, new["ra"] # old["ra"], t["rb"] = old["rb"], "arc" \in Listed(old, t) => ~Has(t, "arc")
  PROVE  /\ Listed(old, new) \subseteq Listed(old, t) \cup {"ra", "ledger"}
         /\ "ra" \in Listed(old, new)
         /\ t["ra"] # old["ra"] => "ra" \in Listed(old, t)
<1>1. \A x : Listed(old, x) = {q \in Paths : old[q] # x[q]} \ {r[1] : r \in Renamed(old, x)}
  BY DEF Listed, StatusOf
<1>2. ReceiptPaths = {"ra", "rb", "arc"} /\ ReceiptPaths \subseteq Paths
  BY DEF ReceiptPaths, ReceiptIssue, Paths
<1>3. \A x, p : x \in {old, t, new} /\ p \in ReceiptPaths => (Has(x, p) <=> x[p] # 0)
  BY <1>2 DEF Has, NoTree
<1>4. new["rb"] = t["rb"] /\ new["arc"] = t["arc"]
  BY <1>2
<1>5. Gone(t, old) \subseteq {"ra"}
  <2> SUFFICES ASSUME NEW p \in Gone(t, old), p # "ra" PROVE FALSE
    OBVIOUS
  <2>1. p = "arc" /\ Has(t, "arc") /\ ~Has(old, "arc")
    BY <1>2, <1>3 DEF Gone
  <2>2. \A r \in Renamed(old, t) : r[1] # "arc"
    BY <2>1, RenamedReceipts DEF Gone
  <2>3. old["arc"] # t["arc"]
    BY <2>1 DEF Has
  <2> QED
    BY <1>1, <1>2, <2>1, <2>2, <2>3
<1>6. Gone(old, new) \subseteq {"arc"} /\ Gone(new, old) \subseteq {"ra"}
  BY <1>2, <1>3, <1>4, <1>5 DEF Gone
<1>7. ASSUME NEW p \in Listed(old, new), p \notin {"ra", "ledger"}, p \notin Listed(old, t) PROVE FALSE
  <2>1. p \in Paths /\ old[p] # t[p] /\ \A r \in Renamed(old, new) : r[1] # p
    BY <1>1, <1>7
  <2>2. PICK r \in Renamed(old, t) : r[1] = p
    BY <1>1, <1>7, <2>1
  <2>3. p \in Gone(old, t) /\ r[2] \in Gone(t, old)
    BY <2>2, RenamedReceipts
  <2>4. p = "arc" /\ ~Has(old, "ra")
    BY <1>2, <1>3, <1>5, <1>7, <2>3 DEF Gone
  <2>5. "arc" \in Gone(old, new) /\ "ra" \in Gone(new, old)
    BY <1>2, <1>3, <1>4, <2>3, <2>4 DEF Gone
  <2>6. Renamed(old, new) # {}
    <3>1. <<"arc", "ra">> \in Gone(old, new) \X Gone(new, old)
      BY <2>5
    <3> QED
      BY <3>1 DEF Renamed, BestPair
  <2>7. PICK q \in Renamed(old, new) : TRUE
    BY <2>6
  <2>8. q[1] \in Gone(old, new)
    BY RenamedReceipts
  <2> QED
    BY <1>6, <2>1, <2>4, <2>8
<1>8. "ra" \in Listed(old, new)
  <2>1. \A r \in Renamed(old, new) : r[1] # "ra"
    BY <1>6, RenamedReceipts
  <2> QED
    BY <1>1, <1>2, <2>1
<1>9. t["ra"] # old["ra"] => "ra" \in Listed(old, t)
  <2> SUFFICES ASSUME t["ra"] # old["ra"], NEW r \in Renamed(old, t), r[1] = "ra" PROVE FALSE
    BY <1>1, <1>2
  <2>1. "ra" \in Gone(old, t) /\ r[2] \in Gone(t, old)
    BY RenamedReceipts
  <2>2. "ra" \in Gone(t, old)
    BY <1>5, <2>1
  <2> QED
    BY <2>1, <2>2 DEF Gone
<1> QED
  BY <1>7, <1>8, <1>9

\* What `attach` writes for a receipt the ledger does not know, where nothing was written since the anchor.
LEMMA FreshRecord ==
  ASSUME NEW l, NEW r, \A a \in l.attachments : a.digest # r.digest
  PROVE  LET new == RecordDelivery(MergeAttachment(l, BuildAttachment(r), l), BuildAttachment(r), "created")
         IN  /\ LedgerRecordDocument(new, l, {r}) /\ new.has = TRUE
             /\ LedgerRecordDocument(MergeAttachment(l, BuildAttachment(r), l).ledger, l, {r})
             /\ \E a \in new.attachments : a.digest = r.digest
             /\ \A a \in new.attachments : a.digest = r.digest => a.delivery = "posted"
<1> DEFINE att == BuildAttachment(r)
           merged == MergeAttachment(l, att, l)
           given == [att EXCEPT !.delivery = MuneralDeliver("created")]
           new == RecordDelivery(merged, att, "created")
<1>1. att.digest = r.digest /\ given.digest = r.digest /\ given.delivery = "posted"
  BY DEF BuildAttachment, MuneralDeliver
<1> HIDE DEF att, given
<1>2. StaleFor(l, att) \ l.attachments = {}
  BY DEF StaleFor
<1>3. {a \in l.attachments : a.digest # att.digest} \ {} = l.attachments
  BY <1>1
<1>4. merged.ledger = [has |-> TRUE, attachments |-> l.attachments \cup {att}] /\ ~merged.refreshed
  <2>1. merged.ledger = [has |-> TRUE, attachments |-> l.attachments \cup {att}]
    <3>1. {a \in l.attachments : a.digest # att.digest} \ (StaleFor(l, att) \ l.attachments) = l.attachments
      BY <1>2, <1>3
    <3> QED
      BY <3>1 DEF MergeAttachment
  <2>2. att.digest \notin AttachmentDigests(l)
    BY <1>1 DEF AttachmentDigests
  <2>3. ~merged.refreshed
    BY <2>2 DEF MergeAttachment
  <2> QED
    BY <2>1, <2>3
<1> HIDE DEF merged
<1>5. new = [merged.ledger EXCEPT !.attachments = (@ \ {att}) \cup {given}]
  BY <1>4 DEF RecordDelivery, given
<1>6. att \notin l.attachments
  BY <1>1
<1>7. new.has = TRUE /\ new.attachments = l.attachments \cup {given}
  BY <1>4, <1>5, <1>6
<1> HIDE DEF new
<1>8. LedgerRecordDocument(new, l, {r})
  BY <1>1, <1>7 DEF LedgerRecordDocument, AttachmentDigests
<1>9. LedgerRecordDocument(merged.ledger, l, {r})
  BY <1>1, <1>4 DEF LedgerRecordDocument, AttachmentDigests
<1> QED
  BY <1>1, <1>7, <1>8, <1>9 DEF new, merged, att

\* A receipt that does not list the ledger leaves the base as what is compared against.
LEMMA BaseAnchor ==
  ASSUME NEW w, NEW r, "ledger" \notin w.docs[r.digest].files
  PROVE  CoveredLedgerAnchor(w, {r}) = w.base
BY DEF CoveredLedgerAnchor

\* The branch after a commit of receipt n as ra and one of the ledger l.
Recorded(c, n, l) ==
  /\ \A i \in 1 .. Len(cs) : c[i] = cs[i]
  /\ c[Len(cs) + 1].parents = <<tip>> /\ c[Len(cs) + 2].parents = <<Len(cs) + 1>>
  /\ c[Len(cs) + 2].anc = {Len(cs) + 1, Len(cs) + 2} \cup cs[tip].anc
  /\ c[Len(cs) + 1].tree["ra"] = n /\ c[Len(cs) + 2].tree["ra"] = n /\ c[Len(cs) + 2].tree["ledger"] = l
  /\ \A p \in Paths \ {"ra"} : c[Len(cs) + 1].tree[p] = Tip[p]
  /\ \A p \in Paths \ {"ra", "ledger"} : c[Len(cs) + 2].tree[p] = Tip[p]

LEMMA RecordedBranch ==
  ASSUME IsSeq(cs), tip \in 1 .. Len(cs), DOMAIN Tip = Paths, NEW n, NEW l
  PROVE  LET t == [Tip EXCEPT !.ra = n]
             c == Commit(cs, <<tip>>, t)
         IN  /\ Len(c) = Len(cs) + 1 /\ c[Len(c)].tree = t
             /\ Recorded(Commit(c, <<Len(c)>>, [t EXCEPT !.ledger = l]), n, l)
<1> DEFINE t == [Tip EXCEPT !.ra = n]
           c == Commit(cs, <<tip>>, t)
           s == [t EXCEPT !.ledger = l]
           k == Commit(c, <<Len(c)>>, s)
<1>1. \A y : DOMAIN <<y>> = {1} /\ <<y>>[1] = y
  OBVIOUS
<1>2. /\ Len(cs) \in Nat /\ Len(c) = Len(cs) + 1 /\ IsSeq(c)
      /\ \A i \in 1 .. Len(cs) : c[i] = cs[i]
      /\ c[Len(cs) + 1].parents = <<tip>> /\ c[Len(cs) + 1].tree = t
      /\ c[Len(cs) + 1].anc = {Len(cs) + 1} \cup UNION {cs[<<tip>>[i]].anc : i \in DOMAIN <<tip>>}
  <2> HIDE DEF t
  <2> QED
    BY CommitFacts
<1>3. c[Len(cs) + 1].anc = {Len(cs) + 1} \cup cs[tip].anc
  BY <1>1, <1>2
<1>4. "ra" \in Paths /\ "ledger" \in Paths
  BY DEF Paths
<1>5. DOMAIN t = Paths /\ t["ra"] = n /\ \A p \in Paths \ {"ra"} : t[p] = Tip[p]
  BY <1>4
<1> HIDE DEF t
<1>6. s["ledger"] = l /\ \A p \in Paths \ {"ledger"} : s[p] = t[p]
  BY <1>4, <1>5
<1> HIDE DEF c, s
<1>7. /\ Len(k) = Len(c) + 1
      /\ \A i \in 1 .. Len(c) : k[i] = c[i]
      /\ k[Len(c) + 1].parents = <<Len(c)>> /\ k[Len(c) + 1].tree = s
      /\ k[Len(c) + 1].anc = {Len(c) + 1} \cup UNION {c[<<Len(c)>>[i]].anc : i \in DOMAIN <<Len(c)>>}
  <2>1. IsSeq(c)
    BY <1>2
  <2> QED
    BY <2>1, CommitFacts
<1>8. k[Len(c) + 1].anc = {Len(c) + 1} \cup c[Len(c)].anc
  BY <1>1, <1>7
<1> HIDE DEF k
<1>9. Len(c) + 1 = Len(cs) + 2 /\ Len(cs) + 1 \in 1 .. Len(c) /\ \A i \in 1 .. Len(cs) : i \in 1 .. Len(c)
  BY <1>2
<1>10. /\ \A i \in 1 .. Len(cs) : k[i] = cs[i]
       /\ k[Len(cs) + 1].parents = <<tip>> /\ k[Len(cs) + 1].tree = t
       /\ k[Len(cs) + 2].parents = <<Len(cs) + 1>> /\ k[Len(cs) + 2].tree = s
       /\ k[Len(cs) + 2].anc = {Len(cs) + 1, Len(cs) + 2} \cup cs[tip].anc
  BY <1>2, <1>3, <1>7, <1>8, <1>9
<1>11. Recorded(k, n, l)
  BY <1>4, <1>5, <1>6, <1>10 DEF Recorded
<1> QED
  BY <1>2, <1>11 DEF k, c, s, t

\* The world w whose branch c ends in h, where the receipts ds were issued, and what the gate sees of it.
OnBranch(u, ds, c, h, w, g) ==
  /\ DOMAIN w = DOMAIN u
  /\ w.cs = c /\ w.head = h /\ w.base = u.base /\ w.docs = ds /\ w.body = u.body /\ w.pins = u.pins
  /\ w.route = u.route /\ w.author = u.author /\ w.description = "plain" /\ w.readiness = u.readiness
  /\ g.cs = c /\ g.head = h /\ g.base = u.base /\ g.docs = ds /\ g.legacy = u.legacy
  /\ g.ev = NoEvidence /\ g.up = NoUserpath /\ g.enforcement = u.enforcement /\ g.program = u.program

LEMMA BranchFields ==
  ASSUME NEW ds, NEW c1, NEW h1, NEW v, v = [Local EXCEPT !.docs = ds, !.cs = c1, !.head = h1],
         NEW c, NEW h, NEW w, w = [v EXCEPT !.cs = c, !.head = h], NEW rs, Local.route = "receipts"
  PROVE  OnBranch(Local, ds, c, h, w, GateWorld(w, rs))
BY DEF Local, World, GateWorld, OnBranch

\* The two commits behind the receipt's head are records: C06 has nothing to say.
Behind(g, r, l) ==
  /\ Recorded(g.cs, r.digest, l) /\ g.head = Len(cs) + 2 /\ g.program
  /\ g.base \in 1 .. Len(cs) /\ tip \in 1 .. Len(cs)
  /\ r.path = "ra" /\ r.digest # 0 /\ r.digest # cs[g.base].tree["ra"]
  /\ LET d == g.docs[r.digest]
     IN  /\ d.head = tip /\ d.work_item = WorkItem /\ "ledger" \notin d.files
         /\ DOMAIN Files(g) \subseteq d.files \cup {"ra", "ledger"}
         /\ Tip["ra"] # cs[g.base].tree["ra"] => "ra" \in d.files
  /\ Tip["ledger"] = cs[g.base].tree["ledger"] /\ l # Tip["ledger"]
  /\ l.has = TRUE /\ LedgerRecordDocument(l, Tip["ledger"], {r})
  /\ Tip["ra"] # r.digest

LEMMA NothingBehind ==
  ASSUME NEW g, NEW r, NEW l, GraphOk(cs), Behind(g, r, l)
  PROVE  C06(g, {r}) = {}
<1> USE DEF Behind
<1> DEFINE d == g.docs[r.digest]
           n1 == Len(cs) + 1
           n2 == Len(cs) + 2
<1>1. Len(cs) \in Nat /\ tip \in cs[tip].anc /\ \A x \in cs[tip].anc : x \in 1 .. Len(cs)
  BY Appended DEF GraphOk
<1>2. g.cs[tip] = cs[tip] /\ g.cs[g.base] = cs[g.base]
  BY DEF Recorded
<1>3. "ra" \in Paths /\ "ledger" \in Paths /\ "ra" \in ReceiptPaths
  BY DEF Paths, ReceiptPaths, ReceiptIssue
<1>4. ReceiptHead(g, r) = tip
  BY DEF ReceiptHead
<1>5. TrailingCommits(g, {r}) \subseteq {n1, n2} /\ n1 \in TrailingCommits(g, {r}) /\ n2 \in TrailingCommits(g, {r})
  <2>1. (UNION {g.cs[ReceiptHead(g, y)].anc : y \in {r}}) = cs[tip].anc
    BY <1>2, <1>4
  <2>2. g.cs[g.head].anc = {n1, n2} \cup cs[tip].anc
    BY DEF Recorded
  <2>3. \A x \in cs[g.base].anc : x \in 1 .. Len(cs)
    BY DEF GraphOk
  <2>4. n1 \notin cs[tip].anc /\ n2 \notin cs[tip].anc /\ n1 \notin cs[g.base].anc /\ n2 \notin cs[g.base].anc
    BY <1>1, <2>3
  <2> QED
    BY <1>2, <2>1, <2>2, <2>4 DEF TrailingCommits, RangeCommits
<1>6. Touched(g.cs, n1) = {"ra"} /\ Touched(g.cs, n2) = {"ledger"}
  <2>1. g.cs[n1].parents = <<tip>> /\ g.cs[n2].parents = <<n1>>
    BY DEF Recorded
  <2>2. \A y : DOMAIN <<y>> = {1} /\ <<y>>[1] = y
    OBVIOUS
  <2>3. \A p \in Paths : /\ p \in Touched(g.cs, n1) <=> g.cs[tip].tree[p] # g.cs[n1].tree[p]
                         /\ p \in Touched(g.cs, n2) <=> g.cs[n1].tree[p] # g.cs[n2].tree[p]
    BY <2>1, <2>2 DEF Touched
  <2>4. Touched(g.cs, n1) \subseteq Paths /\ Touched(g.cs, n2) \subseteq Paths
    BY DEF Touched
  <2>5. /\ \A p \in Paths : g.cs[tip].tree[p] # g.cs[n1].tree[p] <=> p = "ra"
        /\ \A p \in Paths : g.cs[n1].tree[p] # g.cs[n2].tree[p] <=> p = "ledger"
    BY <1>2, <1>3 DEF Recorded, Tip
  <2> QED
    BY <1>3, <2>3, <2>4, <2>5
<1>7. TrailingPaths(g, {r}) = {"ra", "ledger"}
  <2>1. {"ra", "ledger"} \subseteq Names(g.cs, g.base, g.head)
    BY <1>2, <1>3 DEF Names, Recorded
  <2> QED
    BY <1>5, <1>6, <2>1 DEF TrailingPaths
<1>8. "ra" \in TrailingRecords(g, {r}) /\ "ledger" \in TrailingRecords(g, {r})
  <2>1. "ra" \in OwnReceiptPaths(g, {r})
    BY <1>3 DEF OwnReceiptPaths, HeadTree, Recorded
  <2>2. CoveredLedgerAnchor(g, {r}) = g.base
    BY BaseAnchor
  <2>3. HeadTree(g)["ledger"] = l
    BY DEF HeadTree, Recorded
  <2>4. Has(HeadTree(g), "ledger")
    BY <2>3 DEF Has, NoTree
  <2>5. LedgerRecordPath(g, g.base, {r})
    BY <1>2, <2>3, <2>4 DEF LedgerRecordPath
  <2> QED
    BY <1>7, <2>1, <2>2, <2>5 DEF TrailingRecords
<1>9. EditedAfterReceiptHead(g, {r}) = {}
  BY <1>7, <1>8 DEF EditedAfterReceiptHead
<1>10. DOMAIN Files(g) \subseteq d.files \cup RecordPaths(g, {r})
  <2>1. (UNION {Names(g.cs, g.base, ReceiptHead(g, y)) : y \in {r}}) = Names(cs, g.base, tip)
    BY <1>2, <1>4 DEF Names
  <2>2. RecordPaths(g, {r}) = {"ra", "ledger"} \ Names(cs, g.base, tip)
    BY <1>7, <1>8, <2>1 DEF RecordPaths
  <2>3. "ledger" \notin Names(cs, g.base, tip)
    BY DEF Names, Tip
  <2>4. "ra" \in Names(cs, g.base, tip) => "ra" \in d.files
    BY DEF Names, Tip
  <2> QED
    BY <2>2, <2>3, <2>4
<1>11. (UNION {g.docs[y.digest].files : y \in {r}}) = d.files
  OBVIOUS
<1> HIDE DEF d
<1> QED
  BY <1>9, <1>10, <1>11 DEF C06, Refuse

LEMMA HonestOnBranch ==
  ASSUME Inv, NEW d, env.route = "receipts", env.author # "bot", env.readiness # "violation", VerifyBundle(Local), body = {},
         Tip.rb = cs[Local.base].tree.rb, Tip.ledger = cs[Local.base].tree.ledger,
         Enforcement(Local) # "off", d = OwnReceipt("ra"), d.admission = "admitted"
  PROVE  \E w \in HonestWorlds(d) : CmdRun(w) = "success"
<1> DEFINE u == Local
           n == Len(docs) + 1
           ds == Append(docs, d)
           r == [path |-> "ra", digest |-> n]
           t1 == [Tip EXCEPT !.ra = n]
           c1 == Commit(cs, <<tip>>, t1)
           v == Filed(d)
           l == AttachDelivered(v, {r}, r, "created")
           c == Commit(c1, <<Len(c1)>>, [t1 EXCEPT !.ledger = l])
           w == Attached(v, l)
           g == GateWorld(w, {r})
           old == cs[u.base].tree
           m == Own(u, "ra", n)
<1>1. /\ u.cs = cs /\ u.head = tip /\ u.docs = docs /\ u.body = {} /\ u.route = "receipts" /\ u.author # "bot"
      /\ u.program = env.program /\ u.enforcement = env.enforcement /\ u.readiness # "violation" /\ HeadTree(u) = Tip
  BY LocalFields DEF Local, World
<1>2. GraphOk(cs) /\ tip \in 1 .. Len(cs) /\ u.base \in 1 .. Len(cs) /\ Len(docs) \in Nat /\ IsSeq(cs) /\ IsSeq(docs)
  BY StateFacts DEF Inv, GraphInv, GraphOk, RecordInv, RecordsOk
<1>3. Len(ds) = n /\ ds[n] = d /\ \A i \in 1 .. Len(docs) : ds[i] = docs[i]
  BY <1>2, Appended
<1>4. TreeOk(Tip, Len(docs)) /\ TreeOk(old, Len(docs))
  BY <1>2, StateFacts DEF Inv, RecordInv, RecordsOk
<1>5. /\ Measures(u, "ra", n, d) /\ d.x = NoExemption /\ DOMAIN d.rows # {}
      /\ \A e \in DOMAIN d.rows : d.rows[e] = "verified"
  <2>1. Exempts(u, opinion, m, d)
    <3>1. d = CmdExempt(u, m, <<0, 0>>, "first", opinion)
      BY <1>1 DEF OwnReceipt, Own
    <3> QED
      BY <3>1, ExemptedReceipt
  <2>2. Measures(u, "ra", n, m)
    BY OwnFacts
  <2> HIDE DEF m, u, n
  <2>3. d = m /\ d.x = NoExemption /\ DOMAIN d.rows # {} /\ \A e \in DOMAIN d.rows \ d.x.entities : d.rows[e] = "verified"
    BY <2>1, ExemptedRows
  <2>4. d.x.entities = {}
    BY <2>3 DEF NoExemption
  <2> QED
    BY <2>2, <2>3, <2>4
<1> HIDE DEF m
<1>6. /\ d.id = n /\ d.mode = "diff" /\ d.base = u.base /\ d.head = tip /\ d.files = DOMAIN Files(u)
      /\ d.work_item = WorkItem /\ d.dec = NoDecision
      /\ d.rows = MeasuredRows(u, Tip, DOMAIN Files(u), SupersededSelf(u, u.base, tip, "ra", WorkItem))
      /\ d.boundary = DOMAIN d.rows \cap {"new"}
      /\ d.cashed = IF \E e \in DOMAIN d.rows \cap {"new"} : d.rows[e] = "verified" THEN {"canary"} ELSE {}
  <2> HIDE DEF u, n
  <2> QED
    BY <1>1, <1>5 DEF Measures
<1>7. /\ \A p \in {"bundle", "arc"} : p \in DOMAIN Files(u) => ~Has(Tip, p)
      /\ "new" \in DOMAIN d.rows => Tip.can.has /\ Tip.can.measured = Tip.src
      /\ DOMAIN Files(u) # {}
  <2> DEFINE X == SupersededSelf(u, u.base, tip, "ra", WorkItem)
  <2>1. X \subseteq {"ra"}
    BY DEF SupersededSelf
  <2> HIDE DEF u, X
  <2>2. /\ \A p \in {"src", "bundle", "wf", "caller", "ra", "rb", "arc"} :
             p \in DOMAIN Files(u) /\ p \notin X /\ Has(Tip, p) => p \in DOMAIN d.rows
        /\ \A p \in {"bundle", "wf", "caller", "ra", "rb", "arc"} : p \in DOMAIN d.rows => d.rows[p] = "not_measured"
        /\ "new" \in DOMAIN d.rows /\ d.rows["new"] = "verified" => Tip.can.has /\ Tip.can.measured = Tip.src
        /\ DOMAIN d.rows # {} => DOMAIN Files(u) # {}
    BY <1>6, OwnRows DEF X
  <2> QED
    BY <1>5, <2>1, <2>2
<1>8. env.program
  BY <1>1, StateFacts DEF SettingOk, Enforcement
<1>9. "ledger" \notin d.files
  <2> HIDE DEF u
  <2>1. cs[u.base].tree["ledger"] = cs[tip].tree["ledger"]
    BY DEF u, Tip
  <2> QED
    BY <1>1, <1>6, <2>1, SourcePaths, ListedPaths DEF Files
<1>10. /\ v = [Local EXCEPT !.docs = ds, !.cs = c1, !.head = Len(cs) + 1]
       /\ v.docs = ds /\ v.cs = c1 /\ v.head = Len(cs) + 1 /\ v.base = u.base
  <2> HIDE DEF c1, ds, n
  <2>1. v = [Local EXCEPT !.docs = ds, !.cs = c1, !.head = Len(cs) + 1]
    BY DEF Filed, c1, ds, n
  <2> HIDE DEF v
  <2>2. v.docs = ds /\ v.cs = c1 /\ v.head = Len(cs) + 1 /\ v.base = Local.base
    BY <2>1 DEF Local, World
  <2> QED
    BY <2>1, <2>2
<1>11. Len(c1) = Len(cs) + 1 /\ c1[Len(c1)].tree = t1 /\ Recorded(c, n, l)
  <2> HIDE DEF n, l
  <2> QED
    BY <1>2, <1>4, RecordedBranch DEF TreeOk
<1>12. c1[u.base] = cs[u.base] /\ t1.ledger = Tip.ledger
  <2>1. c1[u.base] = cs[u.base]
    <3> HIDE DEF t1, u
    <3> QED
      BY <1>2, CommitFacts
  <2>2. "ra" \in Paths /\ "ledger" \in Paths
    BY DEF Paths
  <2> QED
    BY <1>4, <2>1, <2>2 DEF TreeOk
<1>13. w = [v EXCEPT !.cs = c, !.head = Len(cs) + 2]
  <2>1. Len(cs) \in Nat
    BY <1>2, Appended
  <2> HIDE DEF n, v, c1, t1, ds, c
  <2>2. Len(v.docs) = n /\ HeadTree(v) = t1 /\ v.head = Len(c1) /\ Len(v.cs) + 1 = Len(cs) + 2
    BY <1>3, <1>10, <1>11, <2>1 DEF HeadTree
  <2> QED
    BY <1>10, <2>2 DEF Attached, c
<1>14. l = RecordDelivery(MergeAttachment(Tip.ledger, BuildAttachment(r), Tip.ledger), BuildAttachment(r), "created")
  <2>1. r.digest = n /\ cs[u.base].tree.ledger = Tip.ledger
    OBVIOUS
  <2> HIDE DEF v, r, n, c1, t1, ds, u
  <2>2. v.docs[r.digest] = d /\ HeadTree(v).ledger = Tip.ledger /\ v.cs[v.base].tree.ledger = Tip.ledger
    BY <1>3, <1>10, <1>11, <1>12, <2>1 DEF HeadTree
  <2>3. CoveredLedgerAnchor(v, {r}) = v.base
    BY <1>9, <2>2, BaseAnchor
  <2> QED
    BY <2>2, <2>3 DEF AttachDelivered, AttachMerged, AnchorLedger
<1> HIDE DEF u, v, c1, t1, ds, c, w, g, l, old
<1>15. OnBranch(u, ds, c, Len(cs) + 2, w, g)
  <2> HIDE DEF r
  <2> QED
    BY <1>1, <1>10, <1>13, BranchFields DEF g, u
<1>16. /\ LedgerRecordDocument(l, Tip.ledger, {r}) /\ l.has = TRUE
       /\ \E a \in l.attachments : a.digest = r.digest
       /\ \A a \in l.attachments : a.digest = r.digest => a.delivery = "posted"
       /\ \A a \in Tip.ledger.attachments : a.digest # r.digest
  <2>1. \A a \in Tip.ledger.attachments : a.digest # r.digest
    BY <1>2, <1>4 DEF TreeOk
  <2> HIDE DEF r
  <2> QED
    BY <1>14, <2>1, FreshRecord
<1>17. l # Tip.ledger
  BY <1>16
<1>18. w \in HonestWorlds(d)
  <2>1. /\ v.docs[r.digest] = d /\ HeadTree(v).ledger = Tip.ledger /\ BaseTree(v).ledger = Tip.ledger
        /\ v.author # "bot" /\ r.path \in ReceiptPaths
    <3>1. v.docs[r.digest] = d /\ r.path \in ReceiptPaths
      BY <1>3, <1>10 DEF ReceiptPaths, ReceiptIssue
    <3>2. HeadTree(v).ledger = Tip.ledger /\ BaseTree(v).ledger = Tip.ledger
      BY <1>10, <1>11, <1>12 DEF HeadTree, BaseTree, u
    <3>3. v.author # "bot"
      BY <1>10 DEF Local, World
    <3> QED
      BY <3>1, <3>2, <3>3
  <2> HIDE DEF r
  <2>2. CoveredLedgerAnchor(v, {r}) = v.base
    BY <1>9, <2>1, BaseAnchor
  <2>3. AnchorLedger(v, {r}) = Tip.ledger
    BY <2>1, <2>2 DEF AnchorLedger, BaseTree
  <2>4. LedgerRecordDocument(AttachMerged(v, {r}, r).ledger, Tip.ledger, {r})
    BY <1>16, <2>1, <2>3, FreshRecord DEF AttachMerged
  <2>5. ~AttachRefused(v, {r}, {}, FALSE, r)
    BY <1>6, <2>1, <2>3, <2>4 DEF AttachRefused, MatchAutomatedAuthor
  <2>6. l \in CmdAttach(v, {r}, {}, FALSE, r, "created")
    BY <1>16, <2>3, <2>5 DEF CmdAttach, l
  <2> QED
    BY <2>6 DEF HonestWorlds, w, v, r, n
<1>19. /\ w.cs = c /\ w.head = Len(cs) + 2 /\ w.base = u.base /\ w.docs = ds /\ w.body = {} /\ w.pins = u.pins
       /\ w.route = "receipts" /\ w.author # "bot" /\ w.description = "plain" /\ w.readiness # "violation"
       /\ DOMAIN w = DOMAIN Local
       /\ g.cs = c /\ g.head = Len(cs) + 2 /\ g.base = u.base /\ g.docs = ds /\ g.legacy = u.legacy
       /\ g.ev = NoEvidence /\ g.up = NoUserpath /\ g.enforcement = u.enforcement /\ g.program
  BY <1>1, <1>8, <1>15 DEF OnBranch, u
<1>20. /\ c[tip] = cs[tip] /\ c[u.base] = cs[u.base]
       /\ BaseTree(w) = old /\ BaseTree(g) = old /\ HeadTree(w) = HeadTree(g)
       /\ HeadTree(g)["ra"] = n /\ HeadTree(g)["ledger"] = l
       /\ \A p \in Paths \ {"ra", "ledger"} : HeadTree(g)[p] = Tip[p]
  BY <1>2, <1>11, <1>19 DEF Recorded, BaseTree, HeadTree, old
<1>21. Files(w) = Files(g) /\ DOMAIN Files(g) = Listed(old, HeadTree(g)) /\ d.files = Listed(old, Tip)
  BY <1>1, <1>6, <1>19, <1>20 DEF Files, RangeFiles, Listed, old, BaseTree, HeadTree, Tip
<1>22. n # 0 /\ n # old["ra"] /\ n # Tip["ra"] /\ Tip["rb"] = old["rb"]
  BY <1>2, <1>4 DEF TreeOk, old, u
<1> HIDE DEF n
<1>23. /\ DOMAIN Files(g) \subseteq d.files \cup {"ra", "ledger"}
       /\ "ra" \in DOMAIN Files(g)
       /\ Tip["ra"] # old["ra"] => "ra" \in d.files
  <2>1. "arc" \in Listed(old, Tip) => ~Has(Tip, "arc")
    BY <1>6, <1>7, <1>21
  <2> QED
    BY <1>20, <1>21, <1>22, <2>1, FiledLists
<1>24. Behind(g, r, l)
  <2>1. Tip["ledger"] = cs[g.base].tree["ledger"]
    BY <1>19 DEF u
  <2>2. g.docs[r.digest] = d
    BY <1>3, <1>19
  <2>3. LedgerRecordDocument(l, Tip["ledger"], {r}) /\ l # Tip["ledger"] /\ l.has = TRUE
    BY <1>16, <1>17
  <2>4. Recorded(g.cs, r.digest, l)
    BY <1>11, <1>19
  <2>5. r.path = "ra" /\ r.digest = n
    OBVIOUS
  <2> HIDE DEF r
  <2> QED
    BY <1>2, <1>6, <1>9, <1>19, <1>22, <1>23, <2>1, <2>2, <2>3, <2>4, <2>5 DEF Behind, old
<1>25. C06(g, {r}) = {}
  <2> HIDE DEF r
  <2> QED
    BY <1>2, <1>24, NothingBehind
<1>26. C13(g, {r}) = {}
  <2>1. g.docs[r.digest].work_item # "none" /\ r.path # "auto"
    BY <1>3, <1>6, <1>19 DEF WorkItem
  <2>2. LedgerLookup(HeadTree(g), r.digest) # {} /\ \A a \in LedgerLookup(HeadTree(g), r.digest) : a.delivery = "posted"
    BY <1>16, <1>20 DEF LedgerLookup
  <2> HIDE DEF r
  <2> QED
    BY <2>1, <2>2 DEF C13, Pause
<1>27. CiReceipts(w) = {r}
  <2>1. ReceiptsFromBody(w) = {}
    BY <1>19 DEF ReceiptsFromBody
  <2>2. "rb" \notin DOMAIN Files(w) /\ HeadTree(w)["rb"] = BaseTree(w)["rb"]
    <3>1. "rb" \in Paths
      BY DEF Paths
    <3>2. HeadTree(g)["rb"] = old["rb"]
      BY <1>20, <1>22, <3>1
    <3> QED
      BY <1>20, <1>21, <3>2 DEF Listed, StatusOf
  <2>3. Has(HeadTree(w), "ra") /\ "ra" \in DOMAIN Files(w) /\ HeadTree(w)["ra"] = n
    BY <1>20, <1>21, <1>22, <1>23 DEF Has, NoTree
  <2>4. {q \in ReceiptIssue : Has(HeadTree(w), q) /\ (Has(BaseTree(w), q) => q \in DOMAIN Files(w))} = {"ra"}
    BY <2>2, <2>3 DEF ReceiptIssue, Has
  <2>5. ReceiptsFromTree(w) = {r}
    BY <2>3, <2>4 DEF ReceiptsFromTree
  <2> QED
    BY <1>19, <2>1, <2>5 DEF CiReceipts
<1>28. ReceiptBinds(w, w.docs[r.digest])
  <2>1. u.base \in cs[tip].anc /\ tip \in cs[tip].anc
    <3>1. u.base \in Commits /\ Fork(cs, main, tip, u.base)
      BY LocalBase DEF Inv, u
    <3>2. u.base \in cs[u.base].anc
      BY <1>2 DEF GraphOk
    <3> QED
      BY <1>2, <3>1, <3>2 DEF Fork, GraphOk
  <2>2. tip # u.base
    <3> SUFFICES ASSUME tip = u.base PROVE FALSE
      OBVIOUS
    <3>1. DOMAIN Files(u) = {}
      BY <1>1 DEF Files, RangeFiles, StatusOf
    <3> QED
      BY <1>7, <3>1
  <2>3. tip \notin cs[u.base].anc
    BY <1>2, <2>1, <2>2 DEF GraphOk
  <2>4. w.cs[w.head].anc = {Len(cs) + 1, Len(cs) + 2} \cup cs[tip].anc /\ w.cs[w.base] = cs[u.base]
    BY <1>11, <1>19, <1>20 DEF Recorded
  <2>5. d.head \in RangeCommits(w.cs, w.base, w.head) /\ IsAncestor(w.cs, d.base, w.head)
    BY <1>6, <2>1, <2>3, <2>4 DEF RangeCommits, IsAncestor
  <2>6. w.docs[r.digest] = d
    BY <1>3, <1>19
  <2> QED
    BY <1>6, <2>5, <2>6 DEF ReceiptBinds
<1>29. ~EarlyFail(w)
  <2>1. \A p \in {"bundle", "wf", "caller"} : HeadTree(w)[p] = Tip[p]
    BY <1>20 DEF Paths
  <2>2. VerifyBundle(w)
    <3>1. VerifyBundle(u)
      BY DEF u
    <3>2. HeadTree(w).bundle = HeadTree(u).bundle /\ HeadTree(w).wf = HeadTree(u).wf /\ HeadTree(w).caller = HeadTree(u).caller
      BY <1>1, <2>1
    <3> QED
      BY <1>19, <3>1, <3>2 DEF VerifyBundle, SignedByPinned, ListedWorkflow, Has
  <2>3. "bundle" \notin DOMAIN Files(w)
    <3>1. "bundle" \notin DOMAIN Files(u)
      BY <1>4, <1>7 DEF TreeOk
    <3> QED
      BY <1>6, <1>21, <1>23, <3>1
  <2>4. ~BundleModifiedByPr(w)
    BY <2>3 DEF BundleModifiedByPr, Edited
  <2> QED
    BY <2>2, <2>4 DEF EarlyFail
<1>30. GoodReceipt(g, r, d)
  <2>1. d.rows = MeasuredChangeReceipt(g, d.base, d.head, "ra", d.work_item, d.id).rows
    <3>1. g.cs[tip].tree = Tip /\ g.cs[u.base].tree = old
      BY <1>19, <1>20 DEF Tip, old
    <3>2. SupersededSelf(g, u.base, tip, "ra", WorkItem) = SupersededSelf(u, u.base, tip, "ra", WorkItem)
      <4>1. \A t \in {old, Tip} : Has(t, "ra") => g.docs[t["ra"]] = docs[t["ra"]]
        <5>1. \A t \in {old, Tip} : t["ra"] \in 0 .. Len(docs)
          BY <1>4 DEF TreeOk
        <5>2. \A t \in {old, Tip} : Has(t, "ra") => t["ra"] \in 1 .. Len(docs)
          BY <1>2, <5>1 DEF Has, NoTree
        <5> QED
          BY <1>3, <1>19, <5>2
      <4>2. u.cs[tip].tree = Tip /\ u.cs[u.base].tree = old /\ u.docs = docs
        BY <1>1 DEF Tip, old
      <4> QED
        BY <3>1, <4>1, <4>2 DEF SupersededSelf
    <3>3. DOMAIN RangeFiles(g.cs, u.base, tip) = DOMAIN Files(u)
      BY <1>1, <1>19, <1>20 DEF RangeFiles, Files
    <3>4. MeasuredChangeReceipt(g, u.base, tip, "ra", WorkItem, d.id).rows =
            MeasuredRows(g, Tip, DOMAIN Files(u), SupersededSelf(u, u.base, tip, "ra", WorkItem))
      BY <3>1, <3>2, <3>3 DEF MeasuredChangeReceipt, MeasuredFiles, ReceiptOf
    <3>5. \A X : MeasuredRows(g, Tip, DOMAIN Files(u), X) = MeasuredRows(u, Tip, DOMAIN Files(u), X)
      BY <1>19 DEF MeasuredRows, Measured
    <3> QED
      BY <1>6, <3>4, <3>5
  <2>2. StructuralHolds(g, d)
    BY <1>5 DEF StructuralHolds, NoExemption
  <2>3. "new" \in DOMAIN d.rows /\ d.rows["new"] = "verified" => HeadTree(g).can.has /\ HeadTree(g).can.measured = HeadTree(g).src
    <3>1. HeadTree(g)["can"] = Tip["can"] /\ HeadTree(g)["src"] = Tip["src"]
      BY <1>20 DEF Paths
    <3> QED
      BY <1>7, <3>1
  <2>4. r.path = "ra" /\ d.admission = "admitted"
    OBVIOUS
  <2> HIDE DEF r
  <2> QED
    BY <1>5, <1>6, <1>19, <2>1, <2>2, <2>3, <2>4 DEF GoodReceipt
<1>31. Passing(w, r)
  <2>1. w.docs[r.digest] = d
    BY <1>3, <1>19
  <2>2. r.path # "auto"
    OBVIOUS
  <2> HIDE DEF r
  <2> QED
    BY <1>6, <1>19, <1>25, <1>26, <1>27, <1>28, <1>29, <1>30, <2>1, <2>2 DEF Passing, g
<1>32. CmdRun(w) = "success"
  <2> HIDE DEF r
  <2> QED
    BY <1>19, <1>31, PassingSucceeds
<1> QED
  BY <1>32, <1>18

\* A branch that measures well is passed as soon as its author files one receipt for it.
THEOREM HonestChangeCorrect == Spec => []HonestChangeAdmitted
<1>1. ASSUME Inv PROVE HonestChangeAdmitted
  <2> SUFFICES ASSUME env.route = "receipts", env.author # "bot", env.readiness # "violation", VerifyBundle(Local), body = {},
                      Tip.rb = cs[Local.base].tree.rb,
                      NEW d, d = OwnReceipt(IF Enforcement(Local) = "off" THEN "body" ELSE "ra"),
                      IF Enforcement(Local) = "off"
                      THEN Tip.ra = cs[Local.base].tree.ra /\ d.admission \in {"admitted", "admitted_with_exemptions"}
                      ELSE d.admission = "admitted" /\ Tip.ledger = cs[Local.base].tree.ledger
               PROVE  \E w \in HonestWorlds(d) : CmdRun(w) = "success"
    BY DEF HonestChangeAdmitted
  <2>1. CASE Enforcement(Local) = "off"
    <3>1. CmdRun([Local EXCEPT !.docs = Append(docs, d), !.body = {Len(docs) + 1}]) = "success"
      BY <1>1, <2>1, HonestInText
    <3> QED
      BY <2>1, <3>1 DEF HonestWorlds
  <2>2. CASE Enforcement(Local) # "off"
    BY <1>1, <2>2, HonestOnBranch
  <2> QED
    BY <2>1, <2>2
<1> QED
  BY <1>1, InvCorrect, PTL
=============================================================================

----------------------------- MODULE Admission ------------------------------
(***************************************************************************)
(* Changes on their way to the main branch: an author edits a branch,      *)
(* issues receipts and their exemptions with the tools of admit_change.py, *)
(* main moves meanwhile, reviews and check runs arrive, the hosted job     *)
(* judges a head while all of that goes on, and a head it passed lands.    *)
(* The branch then starts again from main, with the receipts and the       *)
(* ledger that landed.                                                     *)
(*                                                                         *)
(* A setting is the repository a run is about: its first tree, how its     *)
(* caller configures the job, and the edits its authors make (an edit is a *)
(* function from paths to contents). An author measures the range from     *)
(* where the branch left main, or, where anyBase says so, any other.       *)
(***************************************************************************)
EXTENDS CiGate, Functions

CONSTANTS
    Settings,  \* the repositories, each with the bounds on its commits, receipts and landed changes
    MaxRuns,   \* bound on the check runs of one pull request
    MaxTime    \* bound on the gate's clock

(* What an author may write: receipts are filed by the tools and only removed by hand, attachments are written by
   `attach`, the bundle is replaced and never removed, and no declaration calls the source, the lockfile or the
   bundle derived. *)
DeclarationOk(decl) == Declared(decl) \cap {"src", "lock", "bundle"} = {}

EditOk(e) ==
    /\ "ledger" \notin DOMAIN e
    /\ \A p \in ReceiptIssue \cap DOMAIN e : e[p] = 0
    /\ "bundle" \in DOMAIN e => Has(e, "bundle")
    /\ "decl" \in DOMAIN e => DeclarationOk(e["decl"])

(* A repository starts unbroken, with its bundle and no receipt, and others leave the workflow alone. Only the
   program's own repository holds the ledger, so only it may enforce one. *)
SettingOk(s) ==
    /\ DOMAIN s.tree = Paths
    /\ ~Clash(s.tree) /\ s.tree.ra = 0 /\ s.tree.rb = 0 /\ s.tree.ledger.attachments = {}
    /\ Has(s.tree, "bundle") /\ DeclarationOk(s.tree.decl)
    /\ \A e \in s.edits \cup s.others : EditOk(e)
    /\ \A e \in s.others : "wf" \notin DOMAIN e
    /\ s.outs \subseteq ReceiptIssue \cup {"body"}
    /\ s.program \/ s.enforcement \in {"off", "default"}

ASSUME SettingsAssumption == \A s \in Settings : SettingOk(s)

VARIABLES
    env,       \* the setting, never changed
    cs,        \* the commits
    main,      \* the tip of the base branch
    tip,       \* the tip of the pull request's branch
    docs,      \* the receipts issued, by digest
    body,      \* the digests of the receipts in the pull request's text
    opinion,   \* the second authority's opinion
    checks,    \* GitHub's check runs
    approved,  \* the heads an approving comment names
    ev,        \* the finished-stage evidence
    up,        \* the userpath result of the hosted job
    now,       \* the gate's clock
    job,       \* the hosted job that runs: the repository when it was triggered, what GitHub answered since
    gaps,      \* history: the heads that passed on a receipt that starts within a branch
    landed     \* the number of changes that landed

vars == <<env, cs, main, tip, docs, body, opinion, checks, approved, ev, up, now, job, gaps, landed>>

Idle == [check |-> 0, main |-> 0, head |-> 0, body |-> {}, asked |-> 0, gh |-> NoGithub]

Tip == cs[tip].tree

Apply(t, e) == [p \in Paths |-> IF p \in DOMAIN e THEN e[p] ELSE t[p]]

(* A merge takes each side's own changes; GitHub offers it when no path was changed on both sides. *)
Mergeable(a, b) ==
    LET m == MergeBase(cs, a, b) IN Names(cs, m, a) \cap Names(cs, m, b) = {}

Merged(a, b) ==
    LET m == MergeBase(cs, a, b)
    IN  [p \in Paths |-> IF p \in Names(cs, m, a) THEN cs[a].tree[p] ELSE cs[b].tree[p]]

(* What an invocation sees that is run over base..head while the base branch is at m. *)
World(b, h, m) ==
    [cs |-> cs, base |-> b, head |-> h, main |-> m, branch |-> TRUE, docs |-> docs, body |-> body, now |-> now,
     gh |-> NoGithub, ev |-> ev, up |-> up, evaluator |-> 0, readiness |-> env.readiness,
     program |-> env.program, origin |-> env.origin, route |-> env.route, pins |-> env.pins, author |-> env.author,
     enforcement |-> env.enforcement, description |-> "plain", tools |-> TRUE, job |-> env.job,
     conclusion |-> env.conclusion, legacy |-> env.legacy, token |-> TRUE, authority |-> TRUE]

(* A local invocation of the tools: from where the branch left main to its tip. *)
Local == World(MergeBase(cs, main, tip), tip, main)

----------------------------------------------------------------------------
Init ==
    /\ env \in Settings
    /\ cs = Commit(<<>>, <<>>, env.tree)
    /\ main = 1 /\ tip = 1
    /\ docs = <<>> /\ body = {}
    /\ opinion = NoOpinion
    /\ checks = <<>> /\ approved = {} /\ ev = NoEvidence /\ up = NoUserpath
    /\ now = 0 /\ job = Idle /\ gaps = {} /\ landed = 0

(* A commit on the branch. *)
CommitTip(t) ==
    /\ Len(cs) < env.maxCommits
    /\ t # Tip
    /\ cs' = Commit(cs, <<tip>>, t)
    /\ tip' = Len(cs) + 1

Edit ==
    /\ \E e \in env.edits : CommitTip(Apply(Tip, e))
    /\ UNCHANGED <<env, main, docs, body, opinion, checks, approved, ev, up, now, job, gaps, landed>>

(* Somebody else's change lands: one that is good where it lands. *)
MainMoves ==
    /\ Len(cs) < env.maxCommits
    /\ \E e \in env.others :
         /\ Apply(cs[main].tree, e) # cs[main].tree
         /\ ~Clash(Apply(cs[main].tree, e))
         /\ cs' = Commit(cs, <<main>>, Apply(cs[main].tree, e))
    /\ main' = Len(cs) + 1
    /\ UNCHANGED <<env, tip, docs, body, opinion, checks, approved, ev, up, now, job, gaps, landed>>

(* The branch is brought up to its base branch. *)
Update ==
    /\ Len(cs) < env.maxCommits /\ ~IsAncestor(cs, main, tip)
    /\ Mergeable(tip, main)
    /\ cs' = Commit(cs, <<tip, main>>, Merged(tip, main))
    /\ tip' = Len(cs) + 1
    /\ UNCHANGED <<env, main, docs, body, opinion, checks, approved, ev, up, now, job, gaps, landed>>

(* A new receipt goes into the pull request's text, or is committed at its path. *)
File(d, out) ==
    /\ Len(docs) < env.maxReceipts
    /\ docs' = Append(docs, d)
    /\ IF out = "body" THEN body' = body \cup {Len(docs) + 1} /\ UNCHANGED <<cs, tip>>
       ELSE CommitTip([Tip EXCEPT ![out] = Len(docs) + 1]) /\ UNCHANGED body

(* verify.py, then `exempt` when the author asks for it. *)
Issue ==
    /\ \E b \in IF env.anyBase THEN cs[tip].anc \ {tip} ELSE {Local.base}, out \in env.outs :
         \E d \in {MeasuredChangeReceipt(Local, b, tip, out, WorkItem, Len(docs) + 1)} :
           \/ File(d, out)
           \/ /\ b = Local.base
              /\ \E range \in {<<0, 0>>} \cup env.ranges :
                   \E x \in {CmdExempt(Local, d, range, "first", opinion)} : x # d /\ File(x, out)
    /\ UNCHANGED <<env, main, opinion, checks, approved, ev, up, now, job, gaps, landed>>

(* The only receipt of the work item at head is replaced at its path. *)
PreviousSelfReceipts(t) == {p \in ReceiptIssue : Has(t, p) /\ docs[t[p]].work_item = WorkItem}

CmdReissue ==
    /\ Cardinality(PreviousSelfReceipts(Tip)) = 1
    /\ \E p \in PreviousSelfReceipts(Tip) :
         File(MeasuredChangeReceipt(Local, Local.base, tip, p, WorkItem, Len(docs) + 1), p)
    /\ UNCHANGED <<env, main, opinion, checks, approved, ev, up, now, job, gaps, landed>>

(* A decision is signed into a receipt, which gets a new digest. *)
Decide ==
    /\ \E r \in {x \in ReceiptsFromTree(Local) \cup ReceiptsFromBody(Local) : ~docs[x.digest].dec.has} :
         \E signer \in env.signers, class \in {"historical_receipt", "no_live_contour"} :
           LET d == docs[r.digest]
               entities == {e \in DOMAIN d.rows : DecisionEligibility(Local, d, e, class)}
               signed == CmdExemptDecision(Local, d, entities, class, signer, 1)
           IN  /\ signed # d /\ Len(docs) < env.maxReceipts
               /\ docs' = Append(docs, signed)
               /\ IF r.path = "body" THEN body' = (body \ {r.digest}) \cup {Len(docs) + 1} /\ UNCHANGED <<cs, tip>>
                  ELSE CommitTip([Tip EXCEPT ![r.path] = Len(docs) + 1]) /\ UNCHANGED body
    /\ UNCHANGED <<env, main, opinion, checks, approved, ev, up, now, job, gaps, landed>>

GiveOpinion ==
    /\ \E range \in env.ranges : opinion' = Opine(Local, range, "second")
    /\ opinion' # opinion
    /\ UNCHANGED <<env, cs, main, tip, docs, body, checks, approved, ev, up, now, job, gaps, landed>>

(* `attach`, and the commit of the ledger it wrote. *)
Attach ==
    /\ env.program
    /\ LET context == GateReceiptContext(Local, ReceiptsFromTree(Local))
       IN  \E r \in context.bound, explicit \in BOOLEAN, answer \in {"created", "silent", "not asked"} :
             \E l \in CmdAttach(Local, context.bound, context.unbound, explicit, r, answer) :
               CommitTip([Tip EXCEPT !.ledger = l])
    /\ UNCHANGED <<env, main, docs, body, opinion, checks, approved, ev, up, now, job, gaps, landed>>

----------------------------------------------------------------------------
(* GitHub and the hosted job.                                              *)

Review ==
    /\ env.route = "stage" /\ tip \notin approved
    /\ approved' = approved \cup {tip}
    /\ UNCHANGED <<env, cs, main, tip, docs, body, opinion, checks, ev, up, now, job, gaps, landed>>

(* The other required check; it may miss what a broken source breaks elsewhere. *)
OtherCheck ==
    /\ env.route = "stage" /\ Len(checks) < MaxRuns
    /\ \E status \in {"success", "failure"} :
         checks' = Append(checks, [name |-> "ci", head |-> tip, status |-> status])
    /\ UNCHANGED <<env, cs, main, tip, docs, body, opinion, approved, ev, up, now, job, gaps, landed>>

(* The stage is run on the source of a receipt and its evidence is written down. *)
FinishStage ==
    /\ env.route = "stage"
    /\ \E r \in ReceiptsFromTree(Local) \cup ReceiptsFromBody(Local) :
         LET d == docs[r.digest]
             nm == {e \in DOMAIN d.rows : d.rows[e] = "not_measured"}
         IN  ev' = [has |-> TRUE, car |-> r.digest, base |-> d.base, head |-> d.head, paths |-> d.files, nm |-> nm,
                    source |-> d.head, inputs |-> d.files \cup DOMAIN d.rows,
                    pathCoverage |-> d.files \ nm,
                    entityCoverage |-> {e \in DOMAIN d.rows : d.rows[e] = "verified"}]
    /\ ev' # ev
    /\ UNCHANGED <<env, cs, main, tip, docs, body, opinion, checks, approved, up, now, job, gaps, landed>>

(* The hosted job builds, verifies and gates a fixture, then the candidate itself. *)
RunUserpath ==
    /\ env.route = "source" /\ Len(docs) < env.maxReceipts /\ job = Idle
    /\ LET d == MeasuredChangeReceipt(Local, Local.base, tip, "none", "none", Len(docs) + 1)
           exit == IF d.admission = "admitted" THEN 0 ELSE 1
       IN  /\ docs' = Append(docs, d)
           /\ up' = [has |-> TRUE, base |-> Local.base, head |-> tip, tree |-> Tip,
                     ref |-> IF env.program THEN tip ELSE Tip.bundle.ref, clean |-> TRUE,
                     steps |-> NativeStages, exits |-> <<0, exit>>, exit |-> 0, gate |-> "admit",
                     car |-> Len(docs) + 1]
    /\ up' # up
    /\ UNCHANGED <<env, cs, main, tip, body, opinion, checks, approved, ev, now, job, gaps, landed>>

(* The job is triggered: its check run appears, its checkout and the event it was given stay as they are now. *)
StartCi ==
    /\ job = Idle /\ tip # main /\ Len(checks) < MaxRuns
    /\ checks' = Append(checks, [name |-> "graph-admission", head |-> tip, status |-> "in_progress"])
    /\ job' = [check |-> Len(checks) + 1, main |-> main, head |-> tip, body |-> body, asked |-> 0, gh |-> NoGithub]
    /\ UNCHANGED <<env, cs, main, tip, docs, body, opinion, approved, ev, up, now, gaps, landed>>

(* On the stage route the job asks GitHub one question after another; each is answered as things stand then. *)
Answered(question) ==
    CASE question = "pull" -> [job.gh EXCEPT !.base = MergeBase(cs, job.main, job.head), !.head = tip]
      [] question = "comment" -> [job.gh EXCEPT !.approved = approved]
      [] question = "run" -> [job.gh EXCEPT !.run = tip]
      [] question = "checks" -> [job.gh EXCEPT !.checks = checks]

AskGithub ==
    /\ job # Idle /\ env.route = "stage" /\ job.asked < Len(StageReads)
    /\ job' = [job EXCEPT !.asked = @ + 1, !.gh = Answered(StageReads[job.asked + 1])]
    /\ UNCHANGED <<env, cs, main, tip, docs, body, opinion, checks, approved, ev, up, now, gaps, landed>>

(* What the job sees: its own checkout and event, and what GitHub answered. *)
JobWorld ==
    [World(MergeBase(cs, job.main, job.head), job.head, job.main)
       EXCEPT !.body = job.body, !.gh = job.gh, !.evaluator = IF env.route = "stage" THEN job.check ELSE 0]

(* Every receipt the gate relied on starts where the base branch has been (an author may measure from any commit). *)
StartsOnMain(w) ==
    \/ AutomatedEligible(w) \/ IsDocOnly(DOMAIN Files(w))
    \/ \A r \in GateReceiptContext(w, CiReceipts(w)).bound : docs[r.digest].base \in cs[w.main].line

FinishCi ==
    /\ job # Idle /\ (env.route = "stage" => job.asked = Len(StageReads))
    /\ checks' = [checks EXCEPT ![job.check].status = CmdRun(JobWorld)]
    /\ gaps' = IF checks'[job.check].status = "success" /\ ~StartsOnMain(JobWorld) THEN gaps \cup {job.head} ELSE gaps
    /\ job' = Idle
    /\ UNCHANGED <<env, cs, main, tip, docs, body, opinion, approved, ev, up, now, landed>>

(* The latest run of the required check at this head is green, and the pull request is merged. *)
Land ==
    /\ landed < env.maxLanded /\ job = Idle /\ tip # main
    /\ LET runs == {i \in DOMAIN checks : checks[i].name = "graph-admission" /\ checks[i].head = tip}
       IN  runs # {} /\ checks[Max(runs)].status = "success"
    /\ Mergeable(main, tip)
    /\ cs' = Commit(cs, <<main, tip>>, Merged(main, tip))
    /\ main' = Len(cs) + 1 /\ tip' = main'
    /\ landed' = landed + 1
    /\ body' = {} /\ opinion' = NoOpinion /\ checks' = <<>> /\ approved' = {}
    /\ ev' = NoEvidence /\ up' = NoUserpath
    /\ UNCHANGED <<env, docs, now, job, gaps>>

Tick ==
    /\ env.signers # {} /\ now < MaxTime
    /\ now' = now + 1
    /\ UNCHANGED <<env, cs, main, tip, docs, body, opinion, checks, approved, ev, up, job, gaps, landed>>

Next ==
    \/ Edit \/ MainMoves \/ Update \/ Issue \/ CmdReissue \/ Decide \/ GiveOpinion \/ Attach
    \/ Review \/ OtherCheck \/ FinishStage \/ RunUserpath \/ StartCi \/ AskGithub \/ FinishCi \/ Land \/ Tick

Spec == Init /\ [][Next]_vars

----------------------------------------------------------------------------
(* The bytes of path p at commit n stood in an unbroken tree, at n or before. *)
StoodGood(c, n, p) == \E a \in c[n].anc : ~Clash(c[a].tree) /\ c[a].tree[p] = c[n].tree[p]

(* What breaks wherever it stands never reaches the main branch: the source and the lockfile on main have each stood in
   an unbroken tree of its history, whatever receipts, exemptions and evidence were issued for which ranges, whatever
   moved meanwhile and whenever the job looked. The two together may still clash: the gate judges what the branch was
   measured on, so a merge (of main into the branch behind its receipt, or of the branch into a main that moved), or
   a path set back to the base's bytes behind the receipt, brings together what nobody measured together. And the
   promise ends when a head was passed on a receipt whose range starts within a branch, because C06 compares path
   names: two receipts may list a path between them and neither have measured its bytes. *)
MainStaysGood ==
    gaps \cap cs[main].anc = {} => StoodGood(cs, main, "src") /\ StoodGood(cs, main, "lock")

(* A change that lands replaces the gate's own bundle only by one that a key of the bundle before it has signed,
   that drops none of its checks and whose workflow is the committed one (_evaluate_self_update). This is the route
   of receipts; on the two stage routes evidence excuses the bundle's unmeasured row without those measurements. *)
SelfUpdateTrusted ==
    [][env.route = "receipts" /\ landed' # landed /\ cs'[main'].tree.bundle # cs[main].tree.bundle
         => LET old == cs[main].tree.bundle  new == cs'[main'].tree.bundle
            IN  /\ new.by \cap old.keys # {} /\ old.ids \subseteq new.ids
                /\ new.wf # 0 => new.wf = cs'[main'].tree.wf]_vars

(* Whatever ledger `attach` agrees to write while the receipts are over the whole range, the gate takes the commit of
   it for a record: C06 neither asks a receipt to list it nor calls it an edit behind the receipt. *)
AttachIsAdmissible ==
    env.program /\ checks = <<>> =>
      LET context == GateReceiptContext(Local, ReceiptsFromTree(Local))
      IN  (\A x \in context.bound : docs[x.digest].base = Local.base) =>
          \A r \in context.bound, answer \in {"created", "silent"} :
            \A l \in CmdAttach(Local, context.bound, context.unbound, FALSE, r, answer) :
              LET w == [Local EXCEPT !.cs = Commit(cs, <<tip>>, [Tip EXCEPT !.ledger = l]), !.head = Len(cs) + 1]
              IN  /\ "ledger" \notin EditedAfterReceiptHead(w, context.bound)
                  /\ "ledger" \in DOMAIN Files(w) =>
                       "ledger" \in RecordPaths(w, context.bound) \cup UNION {docs[x.digest].files : x \in context.bound}

(* The receipt an author would issue now for the whole branch, exempted if it can be. *)
OwnReceipt(out) ==
    LET d == MeasuredChangeReceipt(Local, Local.base, tip, out, WorkItem, Len(docs) + 1)
    IN  CmdExempt(Local, d, <<0, 0>>, "first", opinion)

(* The world after the receipt d was committed as ra, and then after the ledger l that attached it was. *)
Filed(d) ==
    [Local EXCEPT !.docs = Append(docs, d), !.cs = Commit(cs, <<tip>>, [Tip EXCEPT !.ra = Len(docs) + 1]),
                  !.head = Len(cs) + 1]

Attached(w, l) ==
    [w EXCEPT !.cs = Commit(w.cs, <<w.head>>, [HeadTree(w) EXCEPT !.ledger = l]), !.head = Len(w.cs) + 1]

(* The receipt in the text of the pull request, or on the branch with the ledger that `attach` writes for it. *)
HonestWorlds(d) ==
    LET r == [path |-> "ra", digest |-> Len(docs) + 1]
    IN  IF Enforcement(Local) = "off" THEN {[Local EXCEPT !.docs = Append(docs, d), !.body = {Len(docs) + 1}]}
        ELSE {Attached(Filed(d), l) : l \in CmdAttach(Filed(d), {r}, {}, FALSE, r, "created")}

(* No honest change is stuck: on the route of receipts a person's branch whose whole range measures well is passed as
   soon as one receipt is filed for it, in the text of the pull request, or on the branch with the ledger record that
   `attach` agrees to write when the ledger is enforced; provided that its bundle verifies, that it presents no broken
   readiness receipt, that neither the text nor the branch carries another receipt (rb, and ra where the text is used,
   are as they are at the base) and, where the ledger is enforced, that it stands as at the base. (Check runs change nothing the tools read
   here, so it is enough to look before the first one.) *)
HonestChangeAdmitted ==
    /\ env.route = "receipts" /\ env.author # "bot" /\ checks = <<>> /\ tip # main /\ env.readiness # "violation"
    /\ VerifyBundle(Local) /\ body = {} /\ Tip.rb = cs[Local.base].tree.rb
    => \A d \in {OwnReceipt(IF Enforcement(Local) = "off" THEN "body" ELSE "ra")} :
         (IF Enforcement(Local) = "off"
          THEN Tip.ra = cs[Local.base].tree.ra /\ d.admission \in {"admitted", "admitted_with_exemptions"}
          ELSE d.admission = "admitted" /\ Tip.ledger = cs[Local.base].tree.ledger)
         => \E w \in HonestWorlds(d) : CmdRun(w) = "success"
=============================================================================

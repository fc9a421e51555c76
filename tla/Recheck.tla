------------------------------ MODULE Recheck -------------------------------
(***************************************************************************)
(* A change, its receipt and the gate that judges the receipt.  An author  *)
(* edits files, verify.py measures the change and writes a receipt, the    *)
(* receipt may be edited by hand before it is committed, and the gate      *)
(* judges the document (schema_check.py) and derives again from the two    *)
(* trees what it had to contain (impact_pair.receipt_problems).            *)
(***************************************************************************)
EXTENDS Verify

CONSTANTS Scenes,   \* repositories: the base tree, and path -> what an author may write there
          MaxEdits, \* bound: files that differ at the head
          Options   \* the hosts and command lines verify.py may run with

Admitted(adm) == adm \in {"admitted", "admitted_with_exemptions"}

-----------------------------------------------------------------------------
(* check_receipt and check_verifier_selection: the document alone. *)

CheckReceipt(r) ==
    LET recorded == DOMAIN r.verdicts
        excluded == {e \in r.excluded : e \notin recorded /\ (e = <<"receipt", r.out>> \/ e \notin r.primary)}
        selected == r.selection.base \cup r.selection.head
        demanded == IF r.fallback
                    THEN FallbackUnits(r.affected) \cup r.seeds \cup {e \in DOMAIN r.affected : ~r.affected[e].listed}
                    ELSE DOMAIN r.affected \cup r.primary
        ids == {x.id : x \in r.rows}
        verified == {e \in recorded : r.verdicts[e].v = "verified"}
        crossing == {e \in DOMAIN r.affected : r.affected[e].nd > 0 /\ r.affected[e].bound \in {"service", "repo"}}
        canaries == {x \in r.rows : x.kind \in {"canary", "shell_behavior"}}
        listed == UNION {x.entities : x \in canaries}
        owes(e) == e \notin r.exempt /\ (e \in verified \/ Admitted(r.admission))
        resting(x) == \E e \in verified : x.id \in r.verdicts[e].ids
        probes == {x \in r.rows : x.kind = "endpoint_probe"}
        seen(x) == {o.verdict : o \in {y \in r.observed : y.id = x.id}}
        quieting(x) == \E e \in crossing \cap x.entities : owes(e)
        unit(e) == \E x \in r.rows : /\ x.id \in r.verdicts[e].ids /\ x.scope = "global_fallback_full_suite"
                                     /\ e \in DOMAIN x.per /\ x.per[e] = "verified"
        rule(name, broken) == IF broken THEN {name} ELSE {}
    IN rule("STRUCTURAL_EXCLUSION_INVALID", excluded # r.excluded)
       \cup rule("REVISION_SELECTION_INCOMPLETE",
                 r.paired /\ (\/ selected \ (recorded \cup excluded) # {} \/ selected \ DOMAIN r.required # {}
                              \/ r.unmeasured # {} /\ Admitted(r.admission)))
       \cup rule("VERIFIER_SELECTION_INVALID",
                 \E s \in DOMAIN r.applied : r.applied[s] # {e \in DOMAIN r.required : s \in r.required[e]})
       \cup rule("ENTITY_WITHOUT_VERDICT", demanded \ (recorded \cup excluded) # {})
       \cup rule("FULL_FALLBACK_TEST_NOT_MEASURED",
                 r.fallback /\ Admitted(r.admission) /\ \E e \in FallbackUnits(r.affected) : e \notin recorded \/ ~unit(e))
       \cup rule("EMPTY_IMPACT_WITHOUT_EXPLANATION",
                 /\ DOMAIN r.affected = {} /\ ~r.fallback /\ r.explanation = "none"
                 /\ r.nonDoc)
       \cup rule("VERIFIED_WITHOUT_VERIFIER", \E e \in verified : r.verdicts[e].ids = {} \/ ~(r.verdicts[e].ids \subseteq ids))
       \cup rule("OBSERVED_ENTRY_INVALID", ~({o.id : o \in r.observed} \subseteq {x.id : x \in probes}))
       \cup rule("ENDPOINT_PROBE_WITHOUT_OBSERVATION", \E x \in probes : resting(x) /\ seen(x) = {})
       \cup rule("PROBE_CLAIM_CONTRADICTS_OBSERVATION", \E x \in probes : resting(x) /\ seen(x) \ {"verified"} # {})
       \cup rule("INFERRED_BOUNDARY_WITHOUT_CANARY", \E e \in crossing \ listed : owes(e))
       \cup rule("CANARY_CLAIM_WITHOUT_COMMITTED_EVIDENCE", \E x \in canaries : ~x.committed /\ (resting(x) \/ quieting(x)))
       \cup rule("ADMISSION_CONTRADICTS_VERDICTS",
                 \/ r.admission = "admitted" /\ (verified # recorded \/ (r.fallback /\ recorded = {}))
                 \/ r.admission = "admitted_with_exemptions" /\ ~(recorded \ verified \subseteq r.exempt))

-----------------------------------------------------------------------------
(* receipt_problems: derived again from the trees. *)

\* _deployable_has_ts: the graphs of both revisions decide.
GraphHasTs(q, d) ==
    \E g \in {q.gb, q.gh} : \E id \in DOMAIN g.nodes :
        LET p == g.nodes[id].path IN p # NoPath /\ Under(p, d) /\ TypeScript(p) /\ ~Foreign(d, p)

\* mandatory_by_entity and fixture_type_check_is_owed: the minimum a receipt
\* has to list, whatever its producer says.
Mandatory(base, head, q, e) ==
    LET p == PathOf(q, e)
        code == e[1] \in {"code_unit", "route"}
        untyped == \/ code /\ ~IsTs(p)
                   \/ e[1] = "deployable_unit" /\ ~GraphHasTs(q, e[2])
                   \/ code /\ IsFixture(p) /\ ~TypeProjectCovers(head, Deployables(q), p)
                   \/ code /\ TypeCheckNotOwed(base, head, Deployables(q), p)
    IN (MatrixMinimum(q, e) \ ((IF CanaryUnreachableTest(q, e) THEN {"canary"} ELSE {})
                               \cup (IF untyped THEN {"type_check"} ELSE {})))
       \cup (IF q.fallback /\ e \in FallbackUnits(q.rows) THEN {"full_fallback_test"} ELSE {})

\* Mutant: the gate takes the exclusions of the receipt as they are.
ExclusionsTrusted(base, head, q, r) == r.excluded

\* structural_exclusions_rederived and _superseded_self_rederived.
ExclusionsRederived(base, head, q, r) ==
    LET known == DOMAIN q.gb.nodes \cup DOMAIN q.gh.nodes
        same(p) == Exists(base, p) /\ Exists(head, p) /\ base[p].v = head[p].v
        at(t) == IF Exists(t, r.out) THEN {Fact(t[r.out], "workItems")} ELSE {}
        itself(e) == e = <<"receipt", r.out>> /\ r.item # "" /\ at(base) \cup at(head) = {{r.item}}
        changed == {f.path : f \in r.files}
    IN {e \in r.excluded \cap known : /\ NoVerifierFor(e[1])
                                      /\ itself(e) \/ (PathOf(q, e) \notin changed /\ same(PathOf(q, e)))}

\* uncovered_row_kinds and row_measured_verified.
Uncovered(r, e, minimum) ==
    LET rows == {x \in r.rows : x.id \in r.verdicts[e].ids /\ e \in DOMAIN x.per /\ x.per[e] = "verified"}
        kinds == {IF x.scope = "global_fallback_full_suite" THEN "full_fallback_test" ELSE x.kind : x \in rows}
    IN {v \in minimum : (IF v = "full_fallback_test" THEN v ELSE KindOfVerifier(v)) \notin kinds}

\* receipt_problems, what is compared.
Differences(r, q, excluded, mandatory) ==
    LET expected == q.base \cup q.head
        new == q.head \ q.base
        workflow == \E e \in expected : NodeOf(q, e).kind = "workflow_configuration"
        enforced == r.paired \/ workflow \/ q.fallback \/ r.explanation = "bound"
        verified == {e \in DOMAIN mandatory \cap DOMAIN r.verdicts : r.verdicts[e].v = "verified"}
        contradicted(e) == \E x \in r.rows : x.id \in r.verdicts[e].ids /\ e \in DOMAIN x.per /\ x.per[e] # "verified"
        rule(name, broken) == IF broken THEN {name} ELSE {}
    IN IF q.refusal # "" THEN {"query refused"}
       ELSE IF ~enforced /\ new = {} /\ q.unmeasured = {} THEN {}
       ELSE rule("explanation not bound", r.explanation = "bound" /\ (~q.bindable \/ q.unmeasured # {} \/ ~r.paired))
            \cup rule("head graph binding missing", ~r.paired /\ (new # {} \/ q.unmeasured # {}))
            \cup rule("selection differs", r.paired /\ (\/ r.selection # [base |-> q.base, head |-> q.head]
                                                        \/ r.affected # q.rows))
            \cup rule("exclusion not rederived", r.excluded # excluded)
            \cup rule("missing verdicts", expected \ (DOMAIN r.verdicts \cup excluded) # {})
            \cup rule("required omits entities", expected \ DOMAIN r.required # {})
            \cup rule("required omits obligations", \E e \in DOMAIN mandatory \cap DOMAIN r.required : ~(mandatory[e] \subseteq r.required[e]))
            \cup rule("output scope missing", enforced /\ Admitted(r.admission) /\ \E e \in verified : Uncovered(r, e, mandatory[e]) # {})
            \cup rule("contradicts its own row", enforced /\ Admitted(r.admission) /\ \E e \in verified : contradicted(e))
            \cup rule("head not measured", q.unmeasured # {})

Rederived(base, head, r, q) ==
    Differences(r, q, ExclusionsRederived(base, head, q, r), [e \in Selected(q) |-> Mandatory(base, head, q, e)])

\* receipt_problems: the query goes as far as the receipt says it went.
ReceiptProblems(base, head, r) ==
    LET files == {f \in DiffFiles(base, head, {}) : f.path \in {g.path : g \in r.files}}
    IN IF files = {} THEN {} ELSE Rederived(base, head, r, PairQuery(base, head, files, r.reach))

-----------------------------------------------------------------------------
(* The life of one change. *)

VARIABLES scene,    \* the repository
          head,     \* the tree of the head revision
          measured, \* what verify.py wrote: {} or {receipt}
          receipt,  \* what is committed, and may have been edited by hand
          findings  \* {} or {the findings of the gate}

vars == <<scene, head, measured, receipt, findings>>

BaseTree == scene.base
Files == DiffFiles(BaseTree, head, {})

Init == scene \in Scenes /\ head = scene.base /\ measured = {} /\ receipt = {} /\ findings = {}

\* The author writes or removes a file.
WriteFile(p) ==
    /\ measured = {} /\ \E c \in scene.contents[p] : head' = [q \in DOMAIN head \cup {p} |-> IF q = p THEN c ELSE head[q]]
    /\ Cardinality(DiffFiles(BaseTree, head', {})) <= MaxEdits
    /\ UNCHANGED <<scene, measured, receipt, findings>>

RemoveFile(p) ==
    /\ measured = {} /\ p \in DOMAIN head
    /\ head' = [q \in DOMAIN head \ {p} |-> head[q]]
    /\ Cardinality(DiffFiles(BaseTree, head', {})) <= MaxEdits
    /\ UNCHANGED <<scene, measured, receipt, findings>>

\* run: a query that refuses, or an explanation of what is not empty, writes no receipt.
RunVerify(opt) ==
    /\ measured = {} /\ Files # {}
    /\ \E q \in {PairQuery(BaseTree, head, Files, Reach(opt.depth))} :
          /\ q.refusal = "" /\ (opt.explanation = "bound" => q.bindable /\ q.unmeasured = {})
          /\ measured' = {Aggregate(Context(BaseTree, head, Files, q, opt))}
    /\ receipt' = measured' /\ UNCHANGED <<scene, head, findings>>

\* The claims a hand may write: every verdict verified, resting on the ids it had, on those of
\* the rows that verified the entity, or on a probe as well; a query that went less far, and
\* only what it selects.
Raised(r, ids) ==
    [r EXCEPT !.admission = "admitted", !.verdicts = [e \in DOMAIN @ |-> [v |-> "verified", ids |-> ids[e]]]]
Kept(r) == [e \in DOMAIN r.verdicts |-> r.verdicts[e].ids]
Trimmed(r) == [e \in DOMAIN r.verdicts |-> {x.id : x \in {y \in r.rows : e \in DOMAIN y.per /\ y.per[e] = "verified"}}]
Probed(r, seen) ==
    LET probe == [id |-> <<"endpoint_probe", NoPath>>, kind |-> "endpoint_probe", scope |-> "", entities |-> DOMAIN r.verdicts,
                  per |-> [e \in DOMAIN r.verdicts |-> "verified"], committed |-> FALSE]
    IN [Raised(r, [e \in DOMAIN r.verdicts |-> Trimmed(r)[e] \cup {probe.id}]) EXCEPT
            !.rows = @ \cup {probe}, !.observed = {[id |-> probe.id, verdict |-> v] : v \in seen}]
Shrunk(r, q, reach) ==
    [Raised(r, Kept(r)) EXCEPT
        !.reach = reach, !.selection = [base |-> q.base, head |-> q.head], !.affected = q.rows,
        !.verdicts = [e \in DOMAIN @ \cap Selected(q) |-> @[e]], !.required = [e \in DOMAIN @ \cap Selected(q) |-> @[e]],
        !.applied = [s \in DOMAIN @ |-> @[s] \cap Selected(q)], !.excluded = @ \cap Selected(q),
        !.explanation = IF q.draft THEN "draft" ELSE @]

\* A hand edits the claims of a receipt; what the verifiers recorded stays.
EditReceipt(r) ==
    /\ receipt = measured /\ measured # {} /\ findings = {}
    /\ \E s \in {[r EXCEPT !.admission = "admitted"], Raised(r, Kept(r)), Raised(r, Trimmed(r)),
                 [Raised(r, Kept(r)) EXCEPT !.paired = FALSE]}
                \cup {Probed(r, seen) : seen \in {{}, {"failed"}, {"verified"}}}
                \cup {Shrunk(r, PairQuery(BaseTree, head, Files, reach), reach) :
                         reach \in {Reach({0}), Reach({1}), [Reach({DEFAULT_MAX_DEPTH}) EXCEPT !.types = {{}}]}}
                \cup {[r EXCEPT !.admission = "admitted", !.verdicts = [x \in DOMAIN @ \ {e} |-> @[x]]] : e \in DOMAIN r.verdicts}
                \cup {[r EXCEPT !.admission = "admitted", !.required[e] = {},
                                !.verdicts[e] = [v |-> "verified", ids |-> Trimmed(r)[e]]] : e \in DOMAIN r.verdicts}
                \cup {[r EXCEPT !.admission = "admitted", !.excluded = @ \cup {e}, !.verdicts = [x \in DOMAIN @ \ {e} |-> @[x]]] :
                         e \in DOMAIN r.verdicts} :
          s # r /\ receipt' = {s}
    /\ UNCHANGED <<scene, head, measured, findings>>

\* The gate: the document and what is derived again.
Gate(r) ==
    /\ receipt = {r} /\ findings = {}
    /\ findings' = {CheckReceipt(r) \cup ReceiptProblems(BaseTree, head, r)}
    /\ UNCHANGED <<scene, head, measured, receipt>>

Next == \/ \E p \in DOMAIN scene.contents : WriteFile(p)
        \/ \E p \in DOMAIN scene.contents : RemoveFile(p)
        \/ \E opt \in Options : RunVerify(opt)
        \/ \E r \in receipt : EditReceipt(r)
        \/ \E r \in receipt : Gate(r)

Spec == Init /\ [][Next]_vars

-----------------------------------------------------------------------------
(* Properties. *)

\* The files a file of a tree imports or re-exports from.
ImportsOf(t, f) == {Resolve(t, f, i.spec) : i \in Fact(t[f], "imports") \cup Fact(t[f], "reexports")} \ {NoPath}

\* The files that import a changed file, directly or through others, as far as a query goes.
Dependents(t, changed, depth) ==
    LET hops == UNION {{<<p, f>> : p \in ImportsOf(t, f)} : f \in TsFiles(t)}
        hop == IF depth = {} THEN Cardinality(TsFiles(t)) ELSE Max(depth)
    IN IF hop = 0 THEN {} ELSE Reachable(hops, changed, hop - 1)

\* The files a receipt answers for: what changed, and what depended on it before or does after.
Reached(r) ==
    LET changed == {x.path : x \in r.files}
    IN Dependents(BaseTree, changed, r.reach.depth) \cup Dependents(head, changed, r.reach.depth)

\* Whatever depended on a changed file before the change, or does after it, as
\* far as the depth the producer was run with, is named by the receipt: under a
\* global fallback by the deployable unit it is part of (traverse,
\* merge_revisions, selected).
DependentsReached ==
    \A r \in measured : \A f \in Reached(r) :
        \/ Code(f) \in DOMAIN r.verdicts
        \/ r.fallback /\ \E e \in DOMAIN r.verdicts : e[1] = "deployable_unit" /\ Under(f, e[2])

\* A file of the head that no longer compiles, and compiled before, is in no
\* change the gate lets pass as it was measured, unless it lies past the depth
\* the receipt was measured with: the producer takes it from --max-depth, the
\* gate from the receipt (v_type_check, aggregate, receipt_problems).
NoBrokenConsumerAdmitted ==
    \A r \in receipt :
        findings = {{}} /\ receipt = measured /\ Admitted(r.admission) =>
            \A p \in TsFiles(head) : TypeErrors(head, p) =>
                \/ p \in DOMAIN BaseTree /\ TypeErrors(BaseTree, p)
                \/ p \notin {x.path : x \in r.files} \cup Reached(r)

\* The producer and the gate derive obligations, exclusions and selections by
\* code of their own; what verify.py writes the gate accepts as a document, with
\* two exceptions: a deployable unit that lost its last TypeScript file, where the
\* producer reads the tree of the head and the gate both graphs; and a global
\* fallback at depth 0 over the manifest of a unit, where the base alone selects
\* the unit's files and the merged rows do not (collect_entities, selected).
LostTypeScript == \E e \in UNION {DOMAIN r.required : r \in measured} :
                     e[1] = "deployable_unit" /\ DeployableHasTs(BaseTree, e[2]) /\ ~DeployableHasTs(head, e[2])
SplitFallback == \E r \in measured : /\ r.fallback /\ r.reach.depth = {0}
                                     /\ \E e \in r.seeds : e[1] = "deployable_unit"
HonestReceiptAccepted ==
    findings # {} /\ receipt = measured => LostTypeScript \/ SplitFallback \/ findings = {{}}

\* What a hand gains by raising, dropping or excluding verdicts, forgetting
\* obligations, trimming the rows a verdict rests on or shortening the query:
\* of every entity the query the receipt names still selects, each verifier the
\* matrix makes mandatory did run and did verify it.  A hand that leaves the
\* query and the rows of the verdicts alone gains nothing: all was verified.  A
\* receipt without revision graphs is bound only to what is new at the head; the
\* pauses for a selection nobody answered and for a change without verdicts are
\* the producer's alone (receipt_problems, check_receipt).
Measured(m, q, e) ==
    \A v \in Mandatory(BaseTree, head, q, e) :
        \E x \in m.rows : x.id[1] = v /\ e \in DOMAIN x.per /\ x.per[e] = "verified"
EditedReceiptRefused ==
    \A r \in receipt : \A m \in measured :
        findings = {{}} /\ Admitted(r.admission) /\ (r.paired \/ r.selection.head \ r.selection.base # {}) =>
            /\ m.unmeasured = {}
            /\ \E q \in {PairQuery(BaseTree, head, Files, r.reach)} :
                  \A e \in (Selected(q) \cap DOMAIN m.verdicts) \ m.exempt : Measured(m, q, e)
            /\ r.reach = m.reach /\ (\A e \in DOMAIN r.verdicts : r.verdicts[e].ids = m.verdicts[e].ids) =>
                  \A e \in DOMAIN m.verdicts \ m.exempt : m.verdicts[e].v = "verified"

\* The types of the variables.
TypeOK == /\ DOMAIN head \subseteq DOMAIN BaseTree \cup DOMAIN scene.contents
          /\ Cardinality(measured) <= 1 /\ Cardinality(receipt) <= 1
=============================================================================

------------------------------- MODULE Verify -------------------------------
(***************************************************************************)
(* The producer of a change admission receipt:                             *)
(* .github/graph-admission/tools/graph/verify.py.  It asks the pair query  *)
(* what a change reaches, decides which verifiers every entity owes, runs  *)
(* them, and writes the verdicts down.                                     *)
(*                                                                         *)
(* A run c is [base, head, files, q, opt]: the two trees, the diff, the    *)
(* answer of PairQuery and the options of the command line and the host:   *)
(* the tools that are down, the verifiers that are disabled, selected or   *)
(* crash, whether dependencies are installed, the canary documents.  A row *)
(* is what one run of one verifier recorded; per gives the verdict of each *)
(* entity it judged.                                                       *)
(***************************************************************************)
EXTENDS Impact

-----------------------------------------------------------------------------
(* contracts/graph-verified-change/verifier-matrix.v1.json. *)

NodeMandatory ==
    [code_unit |-> {"fitness_rules", "type_check"}, config_key |-> {"config_schema"},
     contract |-> {"contract_diff"}, data_model |-> {"schema_diff"},
     deployable_unit |-> {"type_check", "fitness_rules"}, document |-> {"doc_reference"},
     receipt |-> {}, work_item |-> {}, route |-> {"route_config_consistency", "contract_diff", "type_check"},
     systemd_unit |-> {"systemd_unit_semantics"}, source_file |-> {"source_file_integrity"}]
KindMandatory ==
    [workflow_configuration |-> {"config_schema"}, bash_source |-> {"shell_syntax", "shell_behavior"},
     bats_test |-> {"shell_syntax", "shell_behavior"}, source_input_contract |-> {"source_input_contract"},
     source_input_data |-> {"source_input_contract"}, source_input_control |-> {"source_input_contract"},
     native_patch_manifest |-> {"config_schema"}, native_patch_payload |-> {"config_schema"}]
EdgeMandatory ==
    [calls |-> {"type_check"}, imports |-> {"type_check"}, verifies |-> {}, names |-> {},
     consumes_contract |-> {"contract_diff", "type_check"}, implements_contract |-> {"contract_diff", "type_check"},
     deploys_to |-> {"type_check", "fitness_rules"}, documents |-> {"doc_reference"}, maps_model |-> {"schema_diff"},
     provides_route |-> {"type_check", "contract_diff", "route_config_consistency", "canary"},
     reads_config |-> {"config_schema", "canary"}, declares_source_input |-> {"source_input_contract"},
     reads_source_input |-> {"source_input_contract"}, activates |-> {"systemd_unit_semantics"},
     orders_after |-> {"systemd_unit_semantics"}, references |-> {"systemd_unit_semantics"}]
AppliesTo ==
    [type_check |-> {"code_unit", "deployable_unit", "route"}, contract_diff |-> {"contract", "route", "code_unit"},
     route_config_consistency |-> {"route"}, schema_diff |-> {"data_model"}, config_schema |-> {"config_key", "code_unit"},
     fitness_rules |-> {"code_unit", "deployable_unit"}, doc_reference |-> {"document"},
     canary |-> {"code_unit", "deployable_unit", "route", "config_key", "contract"},
     source_input_contract |-> {"code_unit"}, targeted_test |-> {"code_unit"}, property_check |-> {"code_unit"},
     shell_syntax |-> {"code_unit"}, shell_behavior |-> {"code_unit"}, systemd_unit_semantics |-> {"systemd_unit"},
     source_file_integrity |-> {"source_file"}, full_fallback_test |-> {"code_unit", "deployable_unit"}]
Selectable == [code_unit |-> {"targeted_test", "property_check"}, route |-> {"targeted_test"}]

\* The kind a verifier's row has in a receipt.
KindOfVerifier(v) == CASE v = "route_config_consistency" -> "config_schema"
                       [] v = "full_fallback_test" -> "targeted_test"
                       [] v = "source_input_contract" -> "other"
                       [] OTHER -> v

NoVerifierFor(type) == NodeMandatory[type] = {} /\ type \notin DOMAIN Selectable

-----------------------------------------------------------------------------
(* Which verifiers an entity owes. *)

NodeOf(q, e) == IF e \in DOMAIN q.gh.nodes THEN q.gh.nodes[e] ELSE q.gb.nodes[e]
PathOf(q, e) == NodeOf(q, e).path
PairEdges(q) == q.gb.edges \cup q.gh.edges

\* The edge types that bind an entity: those of its path in the impact, those to
\* and from other affected entities and, when it changed, all that leave it.
HopTypes(q, e) ==
    LET affected == Selected(q)
    IN (IF e \in DOMAIN q.rows THEN q.rows[e].types ELSE {})
       \cup {x.type : x \in {y \in PairEdges(q) : y.from = e /\ (y.to \in affected \/ e \in q.seeds)}}
       \cup {x.type : x \in {y \in PairEdges(q) : y.to = e /\ y.from \in affected}}

\* The matrix's minimum, before anything is discharged.
MatrixMinimum(q, e) ==
    LET n == NodeOf(q, e)
        kinds == IF n.kind \in DOMAIN KindMandatory THEN KindMandatory[n.kind] ELSE {}
    IN {v \in NodeMandatory[n.type] \cup kinds \cup UNION {EdgeMandatory[x] : x \in HopTypes(q, e)} :
           n.type \in AppliesTo[v]}

InferredBoundary(q, e) == /\ e \in DOMAIN q.rows /\ q.rows[e].nd > 0 /\ q.rows[e].bound \in {"service", "repo"}

\* canary_unreachable_test.
CanaryUnreachableTest(q, e) == e[1] = "code_unit" /\ ~InferredBoundary(q, e) /\ IsTest(PathOf(q, e))

IsTs(p) == p.ext \in JS_TS_EXT
TypeScript(p) == p.ext \in {"ts", "tsx", "mts", "cts", "d.ts", "d.mts", "d.cts"}
Foreign(d, p) == \E i \in (Len(d) + 1)..Len(p.dir) : p.dir[i] \in {"node_modules", "vendor", "graph-admission"}

\* deployable_has_ts: the tree of the head decides.
DeployableHasTs(t, d) == \E p \in DOMAIN t : Under(p, d) /\ TypeScript(p) /\ ~Foreign(d, p)

IsFixture(p) == Range(p.dir) \cap {"fixtures", "__fixtures__", "testdata"} # {}
Above(p) == {SubSeq(p.dir, 1, i) : i \in 0..Len(p.dir)}
Innermost(dirs) == {d \in dirs : \A e \in dirs : Len(e) <= Len(d)}
Deployables(q) == {e[2] : e \in {x \in DOMAIN q.gb.nodes \cup DOMAIN q.gh.nodes : x[1] = "deployable_unit"}}

\* type_project_of and nested_type_project: the deployable above a file, else
\* the nearest directory with a tsconfig.json, else the root when it has one.
TypeProjectOf(t, deps, p) ==
    LET owned == Innermost(deps \cap Above(p))
        nested == IF IsFixture(p) \/ Foreign(<<>>, p) THEN {}
                  ELSE Innermost({d \in Above(p) \ {<<>>} : Exists(t, Path(d, "tsconfig", "json"))})
        root == IF Exists(t, Path(<<>>, "tsconfig", "json")) THEN {<<>>} ELSE {}
    IN IF owned # {} THEN owned ELSE IF nested # {} THEN nested ELSE root

\* tsconfig_names: the files a configuration includes.
TsconfigNames(t, k, p) ==
    LET include == Fact(t[k], "include")
    IN IF include = {} THEN Fact(t[k], "extends") = {} /\ Under(p, k.dir) ELSE \E d \in include : Under(p, d)

TsconfigBases == <<"tsconfig", "tsconfig.build", "tsconfig.test">>

\* tsconfigs_for: every configuration of a project or, for a file, the test one
\* when the file is a test or only that names it, else the first that names it.
TsconfigsFor(t, d, p) ==
    LET at(b) == Path(d, b, "json")
        all == {at(TsconfigBases[i]) : i \in DOMAIN TsconfigBases} \cap DOMAIN t
        test == at("tsconfig.test")
        naming == {i \in DOMAIN TsconfigBases : at(TsconfigBases[i]) \in all /\ TsconfigNames(t, at(TsconfigBases[i]), p)}
    IN IF p = NoPath THEN all
       ELSE IF test \in all /\ IsTest(p) THEN {test}
       ELSE IF naming # {} THEN {at(TsconfigBases[Min(naming)])}
       ELSE IF at("tsconfig") \in all THEN {at("tsconfig")}
       ELSE all

TypeProjectCovers(t, deps, p) == \E d \in TypeProjectOf(t, deps, p) : TsconfigsFor(t, d, p) # {}

\* not_owed_entries, not_owed_in_force and type_check_not_owed: an entry that is
\* unexpired, the same in the profiles of both revisions and covers no TypeScript
\* discharges a file that no compiler project could cover.
TypeCheckNotOwed(base, head, deps, p) ==
    LET entries(t) == IF Exists(t, Profile) THEN {x \in Fact(t[Profile], "notOwed") : ~x.expired} ELSE {}
        both == DOMAIN base \cup DOMAIN head
    IN /\ ~TypeScript(p)
       /\ \E x \in entries(base) \cap entries(head) : Under(p, x.dir) /\ ~\E f \in both : Under(f, x.dir) /\ TypeScript(f)
       /\ ~\E d \in deps : Under(p, d)
       /\ ~\E d \in Above(p) : Path(d, "tsconfig", "json") \in both

\* targeted_test_plan: the specs of the head that verify an affected entity, or are one.
SpecsOf(c, e) ==
    LET froms == {x.from : x \in {y \in c.q.gh.edges : y.to = e /\ y.type = "verifies" /\ y.from[1] = "code_unit"}}
    IN {f[2] : f \in {x \in froms \cup ({e} \cap {<<"code_unit", p>> : p \in DOMAIN c.head}) :
                         IsTest(x[2]) /\ Exists(c.head, x[2])}}

\* collect_entities: what the producer requires of an entity.
Required(c, e) ==
    LET q == c.q
        p == PathOf(q, e)
        code == e[1] \in {"code_unit", "route"}
        notTyped == \/ code /\ ~IsTs(p)
                    \/ e[1] = "deployable_unit" /\ ~DeployableHasTs(c.head, e[2])
                    \/ code /\ IsFixture(p) /\ ~TypeProjectCovers(c.head, Deployables(q), p)
                    \/ code /\ TypeCheckNotOwed(c.base, c.head, Deployables(q), p)
        fallback == IF q.fallback /\ e \in FallbackUnits(q.rows) THEN {"full_fallback_test"} ELSE {}
        asked == {s \in c.opt.selected : /\ e[1] \in AppliesTo[s]
                                         /\ s = "targeted_test" => SpecsOf(c, e) # {} /\ "tests" \notin c.opt.down
                                         /\ s = "property_check" => e \in c.opt.properties}
    IN ((MatrixMinimum(q, e) \cup fallback) \ ((IF CanaryUnreachableTest(q, e) THEN {"canary"} ELSE {})
                                               \cup (IF notTyped THEN {"type_check"} ELSE {}))) \cup asked

Entities(c) == Selected(c.q)
Needing(c, v) == IF v \in c.opt.disabled THEN {} ELSE {e \in Entities(c) : v \in c.req[e]}

-----------------------------------------------------------------------------
(* The verifiers. *)

Rank(v) == CASE v = "failed" -> 2 [] v = "not_measured" -> 1 [] v = "verified" -> 0
Worst(vs) == CHOOSE v \in vs : \A w \in vs : Rank(w) <= Rank(v)

\* record: a row is written only when the verifier had entities to judge.
Record(v, at, scope, per) ==
    IF DOMAIN per = {} THEN {}
    ELSE {[id |-> <<v, at>>, kind |-> KindOfVerifier(v), scope |-> scope, entities |-> DOMAIN per, per |-> per,
           committed |-> FALSE]}

Judged(v, per) == Record(v, NoPath, "", per)

\* What the compiler finds wrong in a file of the program: an import that
\* resolves to nothing, or a name the module it comes from does not export.
RECURSIVE Exported(_, _, _, _)
Exported(t, p, name, depth) ==
    \/ name \in Fact(t[p], "exports") \cup {x.sym : x \in Fact(t[p], "contracts")}
    \/ /\ depth < 6
       /\ \E r \in Fact(t[p], "reexports") :
             /\ r.sym \in {"*", name}
             /\ \E q \in {Resolve(t, p, r.spec)} \ {NoPath} : Exported(t, q, name, depth + 1)

Internal(t, i) == i.spec.pkg = "" \/ PackagesNamed(t, i.spec.pkg) # {}
Unresolved(t, p) == \E i \in Fact(t[p], "imports") : Internal(t, i) /\ Resolve(t, p, i.spec) = NoPath
TypeErrors(t, p) ==
    \/ Unresolved(t, p)
    \/ \E i \in Fact(t[p], "imports") :
          /\ Internal(t, i)
          /\ \E r \in {Resolve(t, p, i.spec)} \ {NoPath}, s \in i.symbols : s[2] # "*" /\ ~Exported(t, r, s[2], 0)

\* postbuild_tsconfigs_for: the configurations of a deployable that check its build output and
\* name the file.
PostbuildTsconfigsFor(t, d, p) ==
    IF Exists(t, Profile) THEN {k \in Fact(t[Profile], "postbuild") \cap DOMAIN t : k.dir = d /\ TsconfigNames(t, k, p)} ELSE {}

\* v_type_check: each configuration compiles once, one of build output only when the build
\* succeeds.  A compiler that ends abnormally, or fails without naming an error, measured
\* nothing; an error of the configuration itself fails all.  A file is judged by a configuration
\* that lists it; an error elsewhere leaves it not measured; a deployable answers for all its files.
TypeVerdicts(c, ents, broken, dangling) ==
    LET cfgs == [e \in ents |->
                    IF e[1] = "deployable_unit" THEN TsconfigsFor(c.head, e[2], NoPath)
                    ELSE UNION {TsconfigsFor(c.head, d, PathOf(c.q, e)) \cup PostbuildTsconfigsFor(c.head, d, PathOf(c.q, e)) : d \in TypeProjectOf(c.head, Deployables(c.q), PathOf(c.q, e))}]
        all == UNION {cfgs[e] : e \in ents}
        listed == [k \in all |-> {p \in TsFiles(c.head) : TsconfigNames(c.head, k, p)}]
        errors == [k \in all |-> listed[k] \cap broken]
        uninstalled(k) == ~c.opt.installed /\ listed[k] \cap dangling # {}
        unbuilt(k) == "build" \in c.opt.down /\ Exists(c.head, Profile) /\ k \in Fact(c.head[Profile], "postbuild")
        ran == {k \in all : "tsc" \notin c.opt.down /\ ~uninstalled(k) /\ ~unbuilt(k)}
        global(k) == Fact(c.head[k], "invalid") # {}
        lame(k) == c.opt.tsc = "aborts" \/ (~global(k) /\ c.opt.tsc = "silent" /\ errors[k] = {})
        elsewhere(k, e) == e[1] # "deployable_unit" /\ PathOf(c.q, e) \notin listed[k]
                           /\ \E j \in ran : PathOf(c.q, e) \in listed[j]
        verdict(k, e) == IF k \notin ran \/ lame(k) THEN "not_measured"
                         ELSE IF global(k) THEN "failed"
                         ELSE IF e[1] = "deployable_unit" THEN IF errors[k] = {} THEN "verified" ELSE "failed"
                         ELSE IF PathOf(c.q, e) \in errors[k] THEN "failed"
                         ELSE IF PathOf(c.q, e) \notin listed[k] THEN "not_measured"
                         ELSE IF errors[k] = {} THEN "verified"
                         ELSE "not_measured"
        speaks(k) == {e \in ents : k \in cfgs[e] /\ ~(k \in ran /\ ~lame(k) /\ ~global(k) /\ elsewhere(k, e))}
    IN Judged("type_check", [e \in {x \in ents : cfgs[x] = {}} |-> "not_measured"])
       \cup UNION {Record("type_check", k, "", [e \in speaks(k) |-> verdict(k, e)]) : k \in all}

VTypeCheck(c) ==
    TypeVerdicts(c, Needing(c, "type_check"), {p \in TsFiles(c.head) : TypeErrors(c.head, p)},
                 {p \in TsFiles(c.head) : Unresolved(c.head, p)})

\* v_contract_diff: a contract fails when it is removed or breaks; a consumer is
\* judged by its edges of the head graph.  (ContractDiff has the comparison of
\* schemas; here a contract is the set of its fields.)
VContractDiff(c) ==
    LET at(t, k) == IF Exists(t, k[2]) THEN {x \in Fact(t[k[2]], "contracts") : x.sym = k[3]} ELSE {}
        fields(t, k) == UNION {x.fields : x \in at(t, k)}
        changed(k) == at(c.base, k) # at(c.head, k)
        contract(k) == IF at(c.base, k) = {} /\ at(c.head, k) = {} THEN "not_measured"
                       ELSE IF at(c.head, k) = {} THEN "failed"
                       ELSE IF fields(c.base, k) \subseteq fields(c.head, k) THEN "verified"
                       ELSE "failed"
        edges(e) == {x.to : x \in {y \in c.q.gh.edges : y.from = e /\ y.to[1] = "contract" /\ y.type = "consumes_contract"}}
        edge(e, k) == LET text == c.head[PathOf(c.q, e)]
                      IN IF {r[2] : r \in {x \in Fact(text, "reads") : x[1] = k[3]}} \subseteq fields(c.head, k) THEN
                                  IF Fact(text, "opaque") # {} /\ changed(k) THEN "not_measured" ELSE "verified"
                         ELSE "failed"
    IN Judged("contract_diff", [e \in Needing(c, "contract_diff") |->
           IF e[1] = "contract" THEN contract(e)
           ELSE IF edges(e) = {} THEN "verified"
           ELSE Worst({edge(e, k) : k \in edges(e)})])

\* v_route_config: a route that is gone fails when the base has a consumer of
\* it; a Nest route needs one complete bootstrap that registers its controllers.
VRouteConfig(c) ==
    LET gone(e) == e \notin DOMAIN c.q.gh.nodes
        consumers(e) == {x \in c.q.gb.edges : x.to = e /\ x.type = "consumes_contract"}
        dep(e) == Innermost(Deployables(c.q) \cap Above(PathOf(c.q, e)))
        marks(d) == IF Exists(c.head, Path(d, "package", "json")) THEN Fact(c.head[Path(d, "package", "json")], "markers") ELSE {}
        roots(d) == {p \in TsFiles(c.head) : Under(p, d) /\ Fact(c.head[p], "bootstrap") # {}}
        servers(e) == {x.from[2] : x \in {y \in c.q.gh.edges : y.to = e /\ y.type = "provides_route"}}
        owners(e) == UNION {Innermost(Deployables(c.q) \cap Above(p)) : p \in servers(e)}
        registered(d) == UNION {Fact(c.head[p], "registers") : p \in roots(d)}
        nest(e) == \E d \in dep(e) : "nest" \in marks(d)
        verdict(e) == IF gone(e) THEN IF consumers(e) # {} THEN "failed" ELSE "verified"
                      ELSE IF dep(e) = {} THEN "not_measured"
                      ELSE IF ~nest(e) THEN "verified"
                      ELSE IF Cardinality(owners(e)) > 1 \/ \E d \in dep(e) : Cardinality(roots(d)) # 1 THEN "not_measured"
                      ELSE IF \E d \in dep(e), p \in servers(e) : ~IsTest(p) /\ p \notin registered(d) THEN "failed"
                      ELSE "verified"
    IN Judged("route_config_consistency", [e \in Needing(c, "route_config_consistency") |-> verdict(e)])

\* v_schema_diff: a model that lost fields, or is gone, fails when a consumer of
\* the base still names at the head what was lost.
VSchemaDiff(c) ==
    LET schema(e) == PathOf(c.q, e)
        at(t, e) == IF Exists(t, schema(e)) THEN {m \in Fact(t[schema(e)], "models") : m.name = e[2]} ELSE {}
        lost(e) == UNION {m.fields : m \in at(c.base, e)} \ UNION {m.fields : m \in at(c.head, e)}
        removed(e) == at(c.base, e) # {} /\ at(c.head, e) = {}
        consumers(e) == {x.from[2] : x \in {y \in c.q.gb.edges : y.to = e /\ y.type = "maps_model" /\ y.from[1] = "code_unit"}}
        named(e) == \E p \in consumers(e) \cap DOMAIN c.head :
                        \/ removed(e) /\ e[2] \in Fact(c.head[p], "uses")
                        \/ \E f \in lost(e) : <<e[2], f>> \in Fact(c.head[p], "usesFields")
        verdict(e) == IF ~Exists(c.head, schema(e)) THEN "failed"
                      ELSE IF "prisma" \notin c.opt.down /\ Fact(c.head[schema(e)], "invalid") # {} THEN "failed"
                      ELSE IF removed(e) \/ lost(e) # {} THEN IF named(e) THEN "failed" ELSE "verified"
                      ELSE IF "prisma" \in c.opt.down THEN "not_measured"
                      ELSE "verified"
    IN Judged("schema_diff", [e \in Needing(c, "schema_diff") |-> verdict(e)])
-----------------------------------------------------------------------------
(* Findings of the tree, and those the base already had. *)

TRANSPORT == {"controller", "gateway"}
PRIVATE == {"controller", "gateway", "processor"}
PERSISTENCE == {"prisma", "repository"}
Role(t, p) == Fact(t[p], "role")

\* module_of: the directory under a deployable's src.
ModuleOf(d, p) == LET i == Len(d) + 1 IN IF Len(p.dir) > i /\ p.dir[i] = "src" THEN {p.dir[i + 1]} ELSE {}

\* tarjan_scc: a cycle is a file that a chain of imports leads back to.
Reachable(hops, from, n) ==
    LET step(S) == {h[2] : h \in {x \in hops : x[1] \in S}}
        r[i \in 0..n] == IF i = 0 THEN step(from) ELSE LET prev == r[i - 1] IN prev \cup step(prev)
    IN r[n]

\* fitness_violations: <<rule, entity, key>>.
FitnessViolations(t, g) ==
    LET deps == {e[2] : e \in {x \in DOMAIN g.nodes : x[1] = "deployable_unit"}}
        owner(p) == Innermost(deps \cap Above(p))
        manifest(d) == Path(d, "package", "json")
        needs(d) == IF Exists(t, manifest(d)) THEN Fact(t[manifest(d)], "dependencies") ELSE {}
        hops == {e \in g.edges : e.type = "imports" /\ e.prov = "deterministic" /\ e.from[1] = "code_unit"}
        files == {e \in hops : g.nodes[e.to].path # NoPath /\ e.from[2] \in DOMAIN t /\ e.to[2] \in DOMAIN t}
        fr01 == {<<"FR-01", e.from, e.to>> : e \in {x \in files : /\ Role(t, x.from[2]) \cap TRANSPORT # {}
                                                               /\ Role(t, x.to[2]) \cap PERSISTENCE # {}}}
        fr03 == {<<"FR-03", e.from, e.to>> : e \in
                    {x \in files : /\ Role(t, x.to[2]) \cap PRIVATE # {}
                                   /\ \E d \in owner(x.from[2]) \cap owner(x.to[2]) :
                                         \E m \in ModuleOf(d, x.from[2]), n \in ModuleOf(d, x.to[2]) : m # n}}
        fr04 == {<<"FR-04", e.from, e.to>> : e \in
                    {x \in hops : /\ g.nodes[x.to].path = NoPath
                                  /\ x.to[3] \notin needs(<<>>) \cup UNION {needs(d) : d \in owner(x.from[2])}
                                  /\ PackagesNamed(t, x.to[3]) = {}}}
        fr05 == {<<"FR-05", e.from, e.to>> : e \in
                    {x \in files : \E d \in owner(x.from[2]), f \in owner(x.to[2]) :
                                      d # f /\ g.nodes[<<"deployable_unit", f>>].kind \notin {"library", "shared_package"}}}
        inner == {<<e.from, e.to>> : e \in {x \in files : owner(x.from[2]) \cap owner(x.to[2]) # {}}}
        ends == {r[1] : r \in inner}
        reach == [e \in ends |-> Reachable(inner, {e}, Cardinality(ends))]
        cycle(e) == {f \in reach[e] \cap ends : e \in reach[f]}
        fr02 == {<<"FR-02", e, cycle(e)>> : e \in {x \in ends : x \in reach[x]}}
    IN fr01 \cup fr02 \cup fr03 \cup fr04 \cup fr05

\* declared_config_keys: the keys .env.example and the environment schemas declare.
EnvSources(t) == {p \in DOMAIN t : p = EnvExample \/ Fact(t[p], "declares") # {}}
DeclaredKeys(t) == UNION {Fact(t[p], "keys") \cup Fact(t[p], "declares") : p \in EnvSources(t)}
ForeignReaders(g) == {e \in DOMAIN g.nodes : g.nodes[e].vendored}

\* config_violations: <<rule, reader, key>>; foreign code owes no declaration.
ConfigViolations(t, g) ==
    IF EnvSources(t) = {} THEN {}
    ELSE UNION {{<<"UNDECLARED_CONFIG_KEY", Code(p), k>> : k \in Fact(t[p], "env") \ DeclaredKeys(t)} :
                   p \in {q \in DOMAIN t : q.ext \in CODE_EXT \cup {"py", "rs"} /\ Code(q) \notin ForeignReaders(g)}}

\* load_baseline and split_baseline: a committed baseline freezes what it lists
\* until it expires; without one what the base tree already has is frozen.
NewFindings(c, before, found) ==
    LET profile == IF Exists(c.head, Profile) THEN Fact(c.head[Profile], "baseline") ELSE {}
        frozen == IF profile = {} THEN before
                  ELSE UNION {b.entries : b \in {x \in profile : ~x.expired}}
    IN found \ frozen

NativeKinds == {"native_patch_manifest", "native_patch_payload"}

\* v_workflow_config: one row for each workflow.
VWorkflowConfig(c) ==
    LET ents == {e \in Needing(c, "config_schema") : e[1] = "code_unit" /\ IsWorkflow(e[2])}
        verdict(e) == IF ~Exists(c.head, e[2]) \/ c.head[e[2]].v # NodeOf(c.q, e).hash THEN "not_measured"
                      ELSE IF Fact(c.head[e[2]], "invalid") # {} THEN "failed"
                      ELSE IF Fact(c.head[e[2]], "unknown") # {} THEN "not_measured"
                      ELSE "verified"
    IN UNION {Record("config_schema", e[2], "", [x \in {e} |-> verdict(x)]) : e \in ents}

\* v_native_patch_binding: one row for the native patches, as their binding outside answers.
VNativePatch(c) ==
    Record("config_schema", Path(<<>>, "native", ""), "",
           [e \in {x \in Needing(c, "config_schema") : NodeOf(c.q, x).kind \in NativeKinds} |-> c.opt.native])

\* v_config_schema: a key is declared, or no new reader of it is.
VConfigSchema(c) ==
    LET new == NewFindings(c, ConfigViolations(c.base, c.q.gb), ConfigViolations(c.head, c.q.gh))
        ents == {e \in Needing(c, "config_schema") : /\ ~(e[1] = "code_unit" /\ IsWorkflow(e[2]))
                                                    /\ NodeOf(c.q, e).kind \notin NativeKinds}
        broken(e) == IF e[1] = "config_key" THEN e[2] \notin DeclaredKeys(c.head) /\ \E v \in new : v[3] = e[2]
                     ELSE \E v \in new : v[2] = e
    IN VWorkflowConfig(c) \cup VNativePatch(c)
       \cup Judged("config_schema", [e \in ents |-> IF EnvSources(c.head) = {} THEN "not_measured"
                                                    ELSE IF broken(e) THEN "failed"
                                                    ELSE "verified"])

\* v_fitness: a deployable unit answers for its files; actionlint too judges a workflow.
FitnessVerdicts(c, new) ==
    LET mine(e) == IF e[1] = "deployable_unit"
                   THEN {v \in new : Innermost(Deployables(c.q) \cap Above(v[2][2])) = {e[2]}}
                   ELSE {v \in new : v[2] = e}
        native(e) == IF e[1] # "code_unit" THEN "verified"
                     ELSE IF ~IsWorkflow(e[2]) THEN "verified"
                     ELSE IF ~Exists(c.head, e[2]) \/ "actionlint" \in c.opt.down THEN "not_measured"
                     ELSE IF Fact(c.head[e[2]], "invalid") # {} THEN "failed"
                     ELSE "verified"
    IN Judged("fitness_rules", [e \in Needing(c, "fitness_rules") |->
           Worst({native(e), IF mine(e) # {} THEN "failed" ELSE "verified"})])

VFitness(c) ==
    FitnessVerdicts(c, NewFindings(c, FitnessViolations(c.base, c.q.gb), FitnessViolations(c.head, c.q.gh)))

\* v_doc_reference: what a document names and either revision has, the head must have.
VDocReference(c) ==
    LET names(p) == {Code(f) : f \in Fact(c.head[p], "mentions")} \cup {<<"route", r[1], r[2]>> : r \in Fact(c.head[p], "mentionsRoutes")}
                    \cup {<<"data_model", m>> : m \in Fact(c.head[p], "mentionsModels")}
        dangling(n) == IF n[1] = "code_unit" THEN Exists(c.base, n[2]) /\ ~Exists(c.head, n[2])
                       ELSE n \in DOMAIN c.q.gb.nodes /\ n \notin DOMAIN c.q.gh.nodes
        verdict(e) == IF Exists(c.head, PathOf(c.q, e)) /\ \E n \in names(PathOf(c.q, e)) : dangling(n) THEN "failed" ELSE "verified"
    IN Judged("doc_reference", [e \in Needing(c, "doc_reference") |-> verdict(e)])

-----------------------------------------------------------------------------
(* Evidence measured elsewhere. *)

\* A canary document is [at, valid, rows, process, tap]: where it lies, whether its
\* evidence can be verified, the verdicts it lists, whether they come from process probes.
Committed(c, d) == d.at \in DOMAIN c.head

\* v_canary: the worst verdict a document lists; a committed document has a row
\* of its own, and the other entities share the row of this run's log.
CanaryEntities(c) == Needing(c, "canary") \cup {e \in Entities(c) : InferredBoundary(c.q, e)}
CanaryListing(c, e) ==
    UNION {IF ~d.valid THEN {"not_measured"} ELSE {d.rows[x] : x \in DOMAIN d.rows \cap {e}} : d \in c.opt.canaries}
CanaryVerdict(c, e) == IF CanaryListing(c, e) = {} THEN "not_measured" ELSE Worst(CanaryListing(c, e))
CanaryVerified(c) == {e \in CanaryEntities(c) : CanaryVerdict(c, e) = "verified"}

VCanary(c) ==
    LET ents == CanaryEntities(c)
        documents == {d \in c.opt.canaries : d.valid /\ Committed(c, d)}
        decided(e) == \E d \in documents : e \in DOMAIN d.rows /\ d.rows[e] = CanaryVerdict(c, e)
    IN UNION {{[r EXCEPT !.committed = TRUE] :
                  r \in Record("canary", d.at, "", [e \in DOMAIN d.rows \cap ents |-> d.rows[e]])} : d \in documents}
       \cup Judged("canary", [e \in {x \in ents : ~decided(x)} |-> CanaryVerdict(c, e)])

\* v_shell_syntax: the parse, and a sourced function that is still called must not go.
VShellSyntax(c) ==
    LET removed(p) == IF Exists(c.base, p) THEN Fact(c.base[p], "defines") \ Fact(c.head[p], "defines") ELSE {}
        broken(p) == \E q \in DOMAIN c.head : p \in Fact(c.head[q], "sources") /\ Fact(c.head[q], "functions") \cap removed(p) # {}
        verdict(p) == IF ~Exists(c.head, p) \/ "bash" \in c.opt.down THEN "not_measured"
                      ELSE IF Fact(c.head[p], "invalid") # {} \/ broken(p) THEN "failed"
                      ELSE IF Fact(c.head[p], "unknown") # {} THEN "not_measured"
                      ELSE "verified"
    IN UNION {Record("shell_syntax", PathOf(c.q, e), "", [x \in {e} |-> verdict(PathOf(c.q, x))]) : e \in Needing(c, "shell_syntax")}

\* v_shell_behavior: exactly one committed document of process probes speaks;
\* a Bats file needs its whole test inventory too.
VShellBehavior(c) ==
    LET choices(e) == {d \in c.opt.canaries : d.valid /\ Committed(c, d) /\ d.process /\ e \in DOMAIN d.rows}
        unknown(e) == Exists(c.head, PathOf(c.q, e)) /\ Fact(c.head[PathOf(c.q, e)], "unknown") # {}
        verdict(e) == IF unknown(e) \/ Cardinality(choices(e)) # 1 THEN "not_measured"
                      ELSE IF PathOf(c.q, e).ext = "bats" /\ \E d \in choices(e) : ~d.tap THEN "not_measured"
                      ELSE CHOOSE v \in {d.rows[e] : d \in choices(e)} : TRUE
    IN UNION {{[r EXCEPT !.committed = verdict(e) = "verified"] :
                  r \in Record("shell_behavior", PathOf(c.q, e), "", [x \in {e} |-> verdict(x)])} : e \in Needing(c, "shell_behavior")}

\* v_systemd_unit_semantics and v_source_file_integrity: the file of the head as
\* the graph has it; for a unit, what it refers to must be there too.
VSystemd(c) ==
    LET verdict(e) == LET p == PathOf(c.q, e)
                      IN IF ~Exists(c.head, p) THEN "not_measured"
                         ELSE IF Fact(c.head[p], "invalid") # {} THEN "failed"
                         ELSE IF \E x \in Fact(c.head[p], "exec") : ~Exists(c.head, x.path) THEN "failed"
                         ELSE "verified"
    IN Judged("systemd_unit_semantics", [e \in Needing(c, "systemd_unit_semantics") |-> verdict(e)])
VSourceFile(c) ==
    LET verdict(e) == LET p == PathOf(c.q, e)
                      IN IF ~Exists(c.head, p) THEN "not_measured"
                         ELSE IF c.head[p].v # NodeOf(c.q, e).hash THEN "failed"
                         ELSE "verified"
    IN Judged("source_file_integrity", [e \in Needing(c, "source_file_integrity") |-> verdict(e)])

\* _run_source_input_control and v_source_input_contract: the controls of every
\* declared input an entity belongs to; ok lists the controls that behave.
VSourceInput(c) ==
    LET manifest == Path(<<>>, "source-inputs", "json")
        entries == IF Exists(c.head, manifest) THEN Fact(c.head[manifest], "inputs") ELSE {}
        owned(x) == {Code(p) : p \in {manifest, x.source, x.consumer} \cup x.controls}
        control(p) == IF ~Exists(c.head, p) THEN "failed"
                      ELSE IF "python" \in c.opt.down THEN "not_measured"
                      ELSE IF Fact(c.head[p], "control") = {"fails"} THEN "failed"
                      ELSE "verified"
        states(e) == UNION {{control(p) : p \in x.controls} \cup {"verified"} : x \in {y \in entries : e \in owned(y)}}
        verdict(e) == IF ~Exists(c.head, manifest) THEN "failed"
                      ELSE IF Fact(c.head[manifest], "invalid") # {} THEN "failed"
                      ELSE IF states(e) = {} THEN "not_measured"
                      ELSE Worst(states(e))
    IN Judged("source_input_contract", [e \in Needing(c, "source_input_contract") |-> verdict(e)])

-----------------------------------------------------------------------------
(* Suites. *)

\* What a command of the tree answers: the suite facts of the deployable's
\* manifest say whether it passes, fails, runs out of time or runs nothing.
SuiteVerdict(answer) == CASE answer = "passes" -> "verified"
                          [] answer = "fails" -> "failed"
                          [] OTHER -> "not_measured"

\* full_fallback_test_runner, absent_suite_declaration and v_global_fallback_test:
\* the deployables of a fallback, and the code units in none under the root.
VGlobalFallback(c) ==
    LET ents == IF c.q.fallback THEN FallbackUnits(c.q.rows) ELSE {}
        dir(e) == IF e[1] = "deployable_unit" THEN e[2] ELSE <<>>
        suite(d) == LET m == Path(d, "package", "json") IN IF Exists(c.head, m) THEN Fact(c.head[m], "suite") ELSE {}
        statics(d) == IF Exists(c.head, Profile) THEN {x.answer : x \in {y \in Fact(c.head[Profile], "static") : y.dir = d}} ELSE {}
        absent(d) == statics(d) # {} /\ ~\E p \in DOMAIN c.head : IsTest(p)
        ci(d) == {x.verdict : x \in {y \in c.opt.ci : y.dir = d}}
        verdict(d) == IF "full_fallback_test" \in c.opt.disabled THEN "not_measured"
                      ELSE IF d \notin FullTests(c.head) THEN IF absent(d) /\ "fails" \in statics(d) THEN "failed" ELSE "not_measured"
                      ELSE IF c.opt.ci # {} THEN IF Cardinality(ci(d)) = 1 THEN CHOOSE v \in ci(d) : TRUE ELSE "not_measured"
                      ELSE IF suite(d) = {} THEN "not_measured"
                      ELSE Worst({SuiteVerdict(a) : a \in suite(d)})
    IN UNION {Record("full_fallback_test", Path(d, "", ""), "global_fallback_full_suite",
                     [e \in {x \in ents : dir(x) = d} |-> verdict(d)]) : d \in {dir(e) : e \in ents}}

\* v_targeted_test: the specs of the plan; without a runner the row carries no verdict.
VTargetedTest(c) ==
    LET on == "targeted_test" \in c.opt.selected \ c.opt.disabled
        ents == IF on THEN {e \in Entities(c) : SpecsOf(c, e) # {}} ELSE {}
        answer(p) == IF Fact(c.head[p], "suite") = {} THEN {"passes"} ELSE Fact(c.head[p], "suite")
        row == Judged("targeted_test", [e \in ents |-> Worst({SuiteVerdict(a) : a \in UNION {answer(p) : p \in SpecsOf(c, e)}})])
    IN IF "tests" \in c.opt.down THEN {[r EXCEPT !.per = << >>] : r \in row} ELSE row

\* v_property_check: a declared property of an affected entity.
VPropertyCheck(c) ==
    LET on == "property_check" \in c.opt.selected \ c.opt.disabled
    IN UNION {Judged("property_check", [x \in {e} |-> "verified"]) : e \in IF on THEN Entities(c) \cap c.opt.properties ELSE {}}

-----------------------------------------------------------------------------
(* The receipt. *)

\* run_verifier: a verifier that crashes leaves not_measured for all it owed.
RunVerifier(c, v, rows) ==
    IF v \in c.opt.crashed THEN Judged(v, [e \in Needing(c, v) |-> "not_measured"]) ELSE rows

\* run: the verifiers in their order.
Rows(c) ==
    UNION {RunVerifier(c, "type_check", VTypeCheck(c)), RunVerifier(c, "contract_diff", VContractDiff(c)),
           RunVerifier(c, "route_config_consistency", VRouteConfig(c)), RunVerifier(c, "schema_diff", VSchemaDiff(c)),
           RunVerifier(c, "config_schema", VConfigSchema(c)), RunVerifier(c, "fitness_rules", VFitness(c)),
           RunVerifier(c, "doc_reference", VDocReference(c)), RunVerifier(c, "canary", VCanary(c)),
           RunVerifier(c, "shell_syntax", VShellSyntax(c)), RunVerifier(c, "shell_behavior", VShellBehavior(c)),
           RunVerifier(c, "systemd_unit_semantics", VSystemd(c)), RunVerifier(c, "source_file_integrity", VSourceFile(c)),
           RunVerifier(c, "source_input_contract", VSourceInput(c)), RunVerifier(c, "full_fallback_test", VGlobalFallback(c)),
           RunVerifier(c, "targeted_test", VTargetedTest(c)), RunVerifier(c, "property_check", VPropertyCheck(c))}

\* Mutant: whatever has no verifier is excluded, changed or not.
StructuralExclusionsAnyContent(c) == {e \in Entities(c) : c.req[e] = {} /\ NoVerifierFor(e[1])}

\* structural_exclusions: an entity no verifier can judge, that did not change
\* and has the same file at both revisions, owes no verdict.
StructuralExclusions(c) ==
    {e \in Entities(c) : /\ e \notin c.q.seeds /\ c.req[e] = {} /\ NoVerifierFor(e[1])
                         /\ LET p == PathOf(c.q, e) IN Exists(c.base, p) /\ Exists(c.head, p) /\ c.base[p].v = c.head[p].v}

\* superseded_self_exclusions: the earlier version of this very receipt.
SupersededSelf(c) ==
    LET e == <<"receipt", c.opt.out>>
        at(t) == IF Exists(t, c.opt.out) THEN {Fact(t[c.opt.out], "workItems")} ELSE {}
    IN {x \in Entities(c) \cap {e} : c.opt.item # "" /\ at(c.base) \cup at(c.head) = {{c.opt.item}}}

\* load_exemptions: an owner, a date to come, and an entity that is not verified.
LoadExemptions(asked, verdicts) == {x.entity : x \in {y \in asked : /\ y.owned /\ y.current /\ ~y.structural
                                                                     /\ y.entity \in DOMAIN verdicts
                                                                     /\ verdicts[y.entity].v # "verified"}}

\* admission_verdict.
AdmissionVerdict(verdicts, exempt) ==
    LET left == {verdicts[e].v : e \in DOMAIN verdicts \ exempt}
    IN IF "failed" \in left THEN "refused"
       ELSE IF "not_measured" \in left \/ DOMAIN verdicts = {} THEN "paused_safe"
       ELSE IF exempt # {} THEN "admitted_with_exemptions"
       ELSE "admitted"

\* aggregate, for one entity: every required verifier must have judged it, the
\* worst verdict wins, an inferred boundary needs a canary.  Of the rows of one
\* verifier the entity rests on one, a worst.
EntityVerdict(c, all, e) ==
    LET said == {r \in all : e \in DOMAIN r.per}
        got == {r.per[e] : r \in said}
        missing == c.req[e] \ {r.id[1] : r \in said}
        v == IF "failed" \in got THEN "failed"
             ELSE IF missing # {} \/ "not_measured" \in got \/ c.req[e] = {} \/ got = {} THEN "not_measured"
             ELSE IF InferredBoundary(c.q, e) /\ e \notin CanaryVerified(c) THEN "not_measured"
             ELSE "verified"
        rests(w) == LET rows == {r \in said : r.id[1] = w}
                    IN (CHOOSE r \in rows : \A s \in rows : Rank(s.per[e]) <= Rank(r.per[e])).id
    IN [v |-> v, ids |-> {rests(w) : w \in {r.id[1] : r \in said}}]

\* verifier_selection: a verifier asked for that applied to no entity.
Unanswered(c) == {s \in c.opt.selected : ~\E e \in Entities(c) : s \in c.req[e]}

\* aggregate.
Conclude(c, rows, excluded) ==
    LET verdicts == [e \in Entities(c) \ excluded |-> EntityVerdict(c, rows, e)]
        exempt == LoadExemptions(c.opt.exemptions, verdicts)
        adm == AdmissionVerdict(verdicts, exempt)
    IN [paired |-> TRUE, selection |-> [base |-> c.q.base, head |-> c.q.head], unmeasured |-> c.q.unmeasured,
        fallback |-> c.q.fallback, explanation |-> IF c.q.draft /\ c.opt.explanation = "none" THEN "draft" ELSE c.opt.explanation, seeds |-> c.q.seeds, affected |-> c.q.rows,
        primary |-> {e \in c.q.seeds : e[1] = "code_unit" \/ Code(PathOf(c.q, e)) \notin c.q.seeds},
        required |-> c.req, rows |-> rows, verdicts |-> verdicts, excluded |-> excluded, exempt |-> exempt,
        applied |-> [s \in {"targeted_test", "property_check"} |-> {e \in Entities(c) : s \in c.req[e]}],
        files |-> c.files, nonDoc |-> c.q.nonDoc, reach |-> Reach(c.opt.depth), observed |-> {}, out |-> c.opt.out, item |-> c.opt.item,
        admission |-> IF adm # "refused" /\ (Unanswered(c) # {} \/ c.q.unmeasured # {}) THEN "paused_safe" ELSE adm]

Aggregate(c) == Conclude(c, Rows(c), StructuralExclusions(c) \cup SupersededSelf(c))

\* run and prepare_head.
Context(base, head, files, q, opt) ==
    LET c == [base |-> base, head |-> head, files |-> files, q |-> q, opt |-> opt]
    IN [base |-> base, head |-> head, files |-> files, q |-> q, opt |-> opt,
        req |-> [e \in Selected(q) |-> Required(c, e)]]
=============================================================================

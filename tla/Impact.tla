------------------------------- MODULE Impact -------------------------------
(***************************************************************************)
(* What a change reaches: the query of impact.py on one graph and the      *)
(* query of impact_pair.py on the graphs of both revisions, under          *)
(* .github/graph-admission/tools/graph/.                                   *)
(*                                                                         *)
(* A changed file is [path, status] with status M, A, D or R; a rename is  *)
(* R of the old path and A of the new one.  A row of an impact says how    *)
(* an entity was reached: the hops that are not deterministic (nd), their  *)
(* number (depth), the edge types on the way, the widest boundary, and     *)
(* whether only the global fallback lists it.  How far a query may go is   *)
(* [depth, types]: at most one limit to the hops, and at most one set of   *)
(* the edge types that are followed.                                       *)
(***************************************************************************)
EXTENDS Builder

DEFAULT_MAX_DEPTH == 3
Reach(depth) == [depth |-> depth, types |-> {}]

JS_TS_EXT == {"ts", "tsx", "js", "jsx", "mjs", "cjs", "mts", "cts", "d.ts", "d.mts", "d.cts"}
SOURCE_EXTS == JS_TS_EXT \cup {"prisma", "py", "rs", "go", "java", "kt", "cs", "c", "cpp", "h"}
Profile == Path(<<".arcana">>, "verify", "json")
EnvExample == Path(<<>>, ".env", "example")

\* diff_files: git reports a rename as the old path and the new one.
DiffFiles(base, head, renamed) ==
    {[path |-> p, status |-> CASE p \notin DOMAIN head -> IF p \in renamed THEN "R" ELSE "D"
                               [] p \notin DOMAIN base -> "A"
                               [] OTHER -> "M"] :
        p \in {q \in DOMAIN base \cup DOMAIN head :
                  ~(q \in DOMAIN base /\ q \in DOMAIN head /\ base[q] = head[q])}}

ByPath(g, p) == {id \in DOMAIN g.nodes : g.nodes[id].path = p}

\* classify_file.
ClassifyFile(g, p) ==
    LET types == {id[1] : id \in ByPath(g, p)}
    IN IF p.base \in {"pnpm-lock", "package-lock"} \/ p.ext = "lock" THEN "lockfile"
       ELSE IF p.dir = <<>> /\ (p = EnvExample \/ (p.ext \in {"json", "yaml"}
                             /\ p.base \in {"package", "tsconfig", "nx", "turbo", "pnpm-workspace"})) THEN "global_config"
       ELSE IF p.dir # <<>> /\ p.dir[1] = "receipts" /\ p.ext = "json" THEN "receipt"
       ELSE IF p.ext = "prisma" THEN "data_model"
       ELSE IF p.ext = "bats" \/ (IsTest(p) /\ p.ext \in JS_TS_EXT \cup {"json", "py", "sh"}) THEN "test"
       ELSE IF "systemd_unit" \in types THEN "systemd_unit"
       ELSE IF "source_file" \in types THEN "source_file"
       ELSE IF "contract" \in types THEN "contract"
       ELSE IF "route" \in types THEN "route"
       ELSE IF p.ext = "md" \/ "docs" \in Range(p.dir) THEN "doc"
       ELSE IF p.ext \in JS_TS_EXT \cup {"sh"} THEN "code"
       ELSE IF p.ext \in {"json", "yml", "yaml", "toml"} THEN "config"
       ELSE "other"

\* _is_deployable_asset_path.
IsAsset(p) == p.ext \in {"php", "css"} \/ (p.ext = "json" /\ Range(p.dir) \cap {"locale", "locales"} # {})

\* deployable_root_for_uncovered and _committed_full_test_is_supported: the
\* innermost deployable above the asset, bound when its full test is declared.
BoundAsset(g, profiled, p) ==
    LET roots == {id[2] : id \in {x \in DOMAIN g.nodes : x[1] = "deployable_unit" /\ Under(p, x[2])}}
    IN \E d \in roots : (\A e \in roots : Len(e) <= Len(d)) /\ d \in profiled

\* A profile's declaration of full tests, as the tree commits it.
FullTests(t) == IF Exists(t, Profile) THEN Fact(t[Profile], "fullTest") ELSE {}

-----------------------------------------------------------------------------
(* check_staleness: a whole-file node must have the hash of its file, a    *)
(* deployable unit that of its manifest. *)

FILE_HASH_TYPES == {"code_unit", "document", "receipt", "deployable_unit", "systemd_unit", "source_file"}
DEPLOYABLE_MANIFEST_NAMES == <<<<"package", "json">>, <<"Cargo", "toml">>, <<"pyproject", "toml">>, <<"setup", "py">>, <<"setup", "cfg">>>>

DeployableManifest(t, d) ==
    LET names == {i \in DOMAIN DEPLOYABLE_MANIFEST_NAMES :
                     Exists(t, Path(d, DEPLOYABLE_MANIFEST_NAMES[i][1], DEPLOYABLE_MANIFEST_NAMES[i][2]))}
        i == IF names = {} THEN 1 ELSE Min(names)
    IN Path(d, DEPLOYABLE_MANIFEST_NAMES[i][1], DEPLOYABLE_MANIFEST_NAMES[i][2])

Mismatched(g, t) ==
    LET file(id) == IF id[1] = "deployable_unit" THEN DeployableManifest(t, id[2]) ELSE g.nodes[id].path
    IN {id \in DOMAIN g.nodes : /\ id[1] \in FILE_HASH_TYPES /\ g.nodes[id].path # NoPath
                                /\ ~(Exists(t, file(id)) /\ t[file(id)].v = g.nodes[id].hash)}

-----------------------------------------------------------------------------
(* Traversal. *)

\* Mutant: only what a node declares is followed, never who depends on it.
NeighboursForwardOnly(g, n, types, open) == {<<e, e.to>> : e \in {x \in g.edges : x.from = n /\ x.type \in {"provides_route", "deploys_to"}}}

\* neighbours: dependents by reverse edges; forward, what the node declares.  A
\* deployable unit opens its contents only when its manifest is a seed.
Neighbours(g, n, types, open) ==
    LET src == g.nodes[n]
        followed(e) == \A T \in types : e.type \in T
        declared(e) == \/ e.type \in {"provides_route", "deploys_to"}
                       \/ /\ e.type \in {"implements_contract", "maps_model"}
                          /\ src.type = "code_unit"
                          /\ \/ g.nodes[e.to].path = src.path
                             \/ g.nodes[e.to].path = NoPath
                                /\ (e.type = "implements_contract" \/ src.path.ext = "prisma")
    IN {<<e, e.from>> : e \in {x \in g.edges : x.to = n /\ followed(x) /\ (x.type = "deploys_to" => n \in open)}}
       \cup {<<e, e.to>> : e \in {x \in g.edges : x.from = n /\ followed(x) /\ declared(x)}}

BoundaryRank(b) == CASE b = "repo" -> 2 [] b = "service" -> 1 [] OTHER -> 0
MaxBoundary(a, b) == IF BoundaryRank(a) >= BoundaryRank(b) THEN a ELSE b

Earlier(a, b) == a.nd < b.nd \/ (a.nd = b.nd /\ a.depth < b.depth)

\* traverse: shortest paths by (hops not deterministic, hops); a node at the
\* depth limit is not expanded.
RECURSIVE Settle(_, _, _, _, _, _)
Settle(g, seeds, reach, open, best, done) ==
    LET pending == DOMAIN best \ done IN
    IF pending = {} THEN best
    ELSE LET n == CHOOSE x \in pending : \A y \in pending : ~Earlier(best[y], best[x])
             b == best[n]
             step(e) == [nd |-> b.nd + (IF e.prov = "deterministic" THEN 0 ELSE 1), depth |-> b.depth + 1,
                         types |-> b.types \cup {e.type}, bound |-> MaxBoundary(b.bound, e.bound), listed |-> FALSE]
             next == IF \E max \in reach.depth : b.depth >= max THEN {}
                     ELSE {x \in Neighbours(g, n, reach.types, open) : x[2] \notin seeds \cup done}
             to == {x[2] : x \in next}
             offers(m) == {step(x[1]) : x \in {y \in next : y[2] = m}} \cup (IF m \in DOMAIN best THEN {best[m]} ELSE {})
             least(m) == CHOOSE o \in offers(m) : \A r \in offers(m) : ~Earlier(r, o)
         IN Settle(g, seeds, reach, open, [m \in DOMAIN best \cup to |-> IF m \in to THEN least(m) ELSE best[m]], done \cup {n})

Seed == [nd |-> 0, depth |-> 0, types |-> {}, bound |-> "", listed |-> FALSE]

Without(rows, seeds) == [m \in DOMAIN rows \ seeds |-> rows[m]]

Traverse(g, seeds, reach, open) == Without(Settle(g, seeds, reach, open, [s \in seeds |-> Seed], {}), seeds)

-----------------------------------------------------------------------------
(* query on one graph. *)

\* The nodes a changed file seeds: its own, the deployable unit whose manifest
\* it is, or, where there is none, the compiled units beneath it.
SeedsOf(g, f, keys) ==
    LET p == f.path
        unit == <<"deployable_unit", p.dir>>
        manifest == p.ext = "json" /\ p.base \in {"package", "tsconfig"} /\ p.dir # <<>>
    IN ByPath(g, p)
       \cup (IF p = EnvExample THEN {<<"config_key", k>> : k \in keys} \cap DOMAIN g.nodes ELSE {})
       \cup (IF manifest /\ unit \in DOMAIN g.nodes THEN {unit} ELSE {})
       \cup (IF manifest /\ unit \notin DOMAIN g.nodes
             THEN {id \in DOMAIN g.nodes : /\ id[1] = "code_unit" /\ g.nodes[id].path # NoPath
                                           /\ Under(g.nodes[id].path, p.dir) /\ g.nodes[id].path.ext \in JS_TS_EXT}
             ELSE {})

Opened(g, f) ==
    IF f.path.ext = "json" /\ f.path.base \in {"package", "tsconfig"} /\ f.path.dir # <<>>
    THEN {<<"deployable_unit", f.path.dir>>} \cap DOMAIN g.nodes ELSE {}

KindOf(g, f, keys) == IF f.path = EnvExample /\ keys # {} THEN "config" ELSE ClassifyFile(g, f.path)

NoAnswer == [seeds |-> {}, rows |-> << >>, fallback |-> FALSE, refusal |-> "", explain |-> FALSE]

\* The files that turn a query into the global fallback.
GlobalFiles(g, files, profiled, keys) ==
    {f \in files : \/ KindOf(g, f, keys) \in {"lockfile", "global_config"}
                   \/ SeedsOf(g, f, keys) = {} /\ IsAsset(f.path) /\ BoundAsset(g, profiled, f.path)}

\* An asset that no declared test binds, or a changed source file that has no node.
UnknownNode(g, f, keys) ==
    /\ SeedsOf(g, f, keys) = {}
    /\ IsAsset(f.path) \/ (f.status # "A" /\ f.path.ext \in JS_TS_EXT \cup {"prisma"})

\* What was reached; under a fallback every other node is listed as well.
Answer(g, seeds, reached, fallback, telling) ==
    LET rest == IF fallback THEN DOMAIN g.nodes \ (seeds \cup DOMAIN reached) ELSE {}
    IN [seeds |-> seeds,
        rows |-> [n \in DOMAIN reached \cup rest |->
                     IF n \in rest THEN [Seed EXCEPT !.types = {"deploys_to"}, !.listed = TRUE] ELSE reached[n]],
        fallback |-> fallback, refusal |-> "",
        explain |-> reached = << >> /\ ~fallback /\ telling]

\* The refusals, in their order, and the answer.
AnswerFor(g, t, files, reach, keys, seeds, global) ==
    IF files = {} THEN [NoAnswer EXCEPT !.refusal = "EMPTY_CHANGE_SET"]
    ELSE IF Mismatched(g, t) # {} THEN [NoAnswer EXCEPT !.refusal = "STALE_GRAPH"]
    ELSE IF \E f \in files \ global : UnknownNode(g, f, keys) THEN [NoAnswer EXCEPT !.refusal = "UNKNOWN_NODE"]
    ELSE Answer(g, seeds, Traverse(g, seeds, reach, UNION {Opened(g, f) : f \in files}), global # {},
                \E f \in files : KindOf(g, f, keys) \notin {"doc", "receipt"})

\* query.
Query(g, t, files, reach, profiled, keys) ==
    AnswerFor(g, t, files, reach, keys, UNION {SeedsOf(g, f, keys) : f \in files}, GlobalFiles(g, files, profiled, keys))

-----------------------------------------------------------------------------
(* The pair of revisions. *)

\* fallback_units: the deployable units listed and the code units in none.  A
\* global fallback collapses the repository onto them.
FallbackUnits(rows) ==
    LET units == {n \in DOMAIN rows : n[1] = "deployable_unit"}
        inside(n) == \E u \in units : u[2] = <<>> \/ (Len(n) = 2 /\ Under(n[2], u[2]))
    IN units \cup {n \in DOMAIN rows : n[1] = "code_unit" /\ ~inside(n)}

\* selected: under a fallback, the seeds, its units and what traversal reached.
Selected(q) ==
    IF q.fallback
    THEN q.seeds \cup FallbackUnits(q.rows) \cup {n \in DOMAIN q.rows : ~q.rows[n].listed}
    ELSE q.seeds \cup DOMAIN q.rows

\* env_example_key_delta: only bare keys came or went, all of them known.
EnvKeys(base, head, files, gb, gh) ==
    LET delta == (Fact(base[EnvExample], "keys") \cup Fact(head[EnvExample], "keys"))
                 \ (Fact(base[EnvExample], "keys") \cap Fact(head[EnvExample], "keys"))
    IN IF /\ [path |-> EnvExample, status |-> "M"] \in files
          /\ base[EnvExample].v = head[EnvExample].v
          /\ \A k \in delta : <<"config_key", k>> \in DOMAIN gb.nodes \cup DOMAIN gh.nodes
       THEN delta ELSE {}

\* Mutant: the graph of the base is forgotten.
MergeRevisionsHeadOnly(before, after) == after

\* merge_revisions: an entity reached in either revision, the row with an
\* inferred hop and a service boundary first; the edge types of both rows.
MergeRevisions(before, after) ==
    LET worse(a, b) == \/ a.nd > 0 /\ b.nd = 0
                       \/ (a.nd > 0) = (b.nd > 0) /\ BoundaryRank(a.bound) > 0 /\ BoundaryRank(b.bound) = 0
        both(a, b) == LET w == IF worse(b, a) THEN b ELSE a
                      IN [w EXCEPT !.types = a.types \cup b.types, !.listed = a.listed /\ b.listed]
    IN [n \in DOMAIN before \cup DOMAIN after |->
           IF n \notin DOMAIN after THEN before[n]
           ELSE IF n \notin DOMAIN before THEN after[n]
           ELSE both(before[n], after[n])]

\* query: the base graph is asked about every file, the head graph about the
\* files it has.
HeadFiles(files) == {f \in files : f.status \notin {"D", "R"}}

\* empty_revision_metadata: edges to what changed from what did not, containment aside.
ExternalReverseEdges(g, seeds) == {e \in g.edges : e.to \in seeds /\ e.from \notin seeds /\ e.type # "deploys_to"}

\* bind_empty_explanation: what an author may explain away.
Bindable(files, gb, gh, before, after) ==
    /\ before.explain /\ HeadFiles(files) # {}
    /\ ExternalReverseEdges(gb, before.seeds) = {} /\ ExternalReverseEdges(gh, after.seeds) = {}

\* What the two answers come to; a source file the head graph has no node for is
\* unmeasured.  An empty answer is drafted an explanation.
JoinAnswers(head, files, gb, gh, keys, before, after, rows) ==
    [gb |-> gb, gh |-> gh,
     refusal |-> IF before.refusal # "" THEN before.refusal
                 ELSE IF Mismatched(gh, head) # {} THEN "STALE_GRAPH" ELSE after.refusal,
     seeds |-> before.seeds \cup after.seeds, rows |-> rows,
     fallback |-> before.fallback \/ after.fallback,
     base |-> Selected(before), head |-> Selected(after),
     draft |-> before.explain /\ rows = << >> /\ ~after.fallback,
     bindable |-> rows = << >> /\ ~after.fallback /\ Bindable(files, gb, gh, before, after),
     nonDoc |-> \E f \in files : KindOf(gb, f, keys) \notin {"doc", "receipt"},
     unmeasured |-> {f.path : f \in {x \in HeadFiles(files) : x.path.ext \in SOURCE_EXTS /\ ByPath(gh, x.path) = {}}}]

JoinRevisions(head, files, gb, gh, keys, before, after) ==
    JoinAnswers(head, files, gb, gh, keys, before, after, MergeRevisions(before.rows, after.rows))

QueryGraphs(base, head, files, reach, gb, gh, keys) ==
    JoinRevisions(head, files, gb, gh, keys, Query(gb, base, files, reach, FullTests(head), keys),
                  IF HeadFiles(files) = {} THEN NoAnswer ELSE Query(gh, head, HeadFiles(files), reach, FullTests(head), keys))

QueryBoth(base, head, files, reach, gb, gh) ==
    QueryGraphs(base, head, files, reach, gb, gh,
                IF [path |-> EnvExample, status |-> "M"] \in files THEN EnvKeys(base, head, files, gb, gh) ELSE {})

PairQuery(base, head, files, reach) == QueryBoth(base, head, files, reach, Build(base), Build(head))
=============================================================================

------------------------------ MODULE Builder -------------------------------
(***************************************************************************)
(* The relationship graph of a tree of files, as                           *)
(* .github/graph-admission/tools/graph/build_graph.py builds it.           *)
(*                                                                         *)
(* A path is [dir, base, ext]; a tree is a function from paths to file     *)
(* contents; of a content only its version v and the facts the extractors  *)
(* read out of the text are kept, a fact that is absent being the empty    *)
(* set.  A graph is a function from node identifiers to nodes and a set of *)
(* edges; a node identifier is a tuple whose first element is the type.    *)
(***************************************************************************)
EXTENDS Naturals, Sequences, FiniteSets, SequencesExt, FiniteSetsExt

CONSTANT SpecNames \* base names that end in .spec or .test

Path(dir, base, ext) == [dir |-> dir, base |-> base, ext |-> ext]
NoPath == Path(<<>>, "-", "")
Fact(c, f) == IF f \in DOMAIN c THEN c[f] ELSE {}
Exists(t, p) == p \in DOMAIN t
Under(p, d) == IsPrefix(d, p.dir)

CODE_EXT == {"ts", "tsx", "js", "jsx", "mjs", "cjs", "mts", "cts", "d.ts", "d.mts", "d.cts"}
DECL_EXT == {"d.ts", "d.mts", "d.cts"}
LEGACY_RESOLVE_CODE_EXT == {"ts", "tsx", "js", "jsx", "mjs", "cjs", "d.ts"}
RESOLVE_EXT == <<"ts", "tsx", "d.ts", "js", "jsx", "mjs", "cjs", "json">>
TS_SPEC_EXT == [js |-> <<"ts", "tsx", "d.ts">>, mjs |-> <<"mts", "d.mts">>, cjs |-> <<"cts", "d.cts">>]

TsFiles(t) == {p \in DOMAIN t : p.ext \in CODE_EXT}
IsTest(p) == p.base \in SpecNames \/ \E i \in DOMAIN p.dir : p.dir[i] \in {"test", "__tests__"}
IsWorkflow(p) == p.dir = <<".github", "workflows">> /\ p.ext \in {"yml", "yaml"}
ShellKind(t, p) == CASE p.ext = "bats" -> "bats_test" [] p.ext = "sh" -> "bash_source" [] OTHER -> ""

-----------------------------------------------------------------------------
(* Graph: the first node of an identifier stays, an edge is kept once, and *)
(* an edge with an end that is no node is dropped when the graph is done.  *)

Code(p) == <<"code_unit", p>>
Node(id, v, p, k) == [type |-> id[1], hash |-> v, path |-> p, kind |-> k, vendored |-> FALSE]
Edge(from, type, to) == [from |-> from, type |-> type, to |-> to, prov |-> "deterministic", bound |-> ""]
Inferred(from, type, to, bound) == [from |-> from, type |-> type, to |-> to, prov |-> "inferred", bound |-> bound]

Add(g, ids, node(_), edges) ==
    [nodes |-> [id \in DOMAIN g.nodes \cup ids |-> IF id \in DOMAIN g.nodes THEN g.nodes[id] ELSE node(id)],
     edges |-> g.edges \cup edges]

Finalize(g) == [g EXCEPT !.edges = {e \in @ : {e.from, e.to} \subseteq DOMAIN g.nodes}]

-----------------------------------------------------------------------------
(* Files, packages and module resolution. *)

\* base: a code unit for every native patch, shell, workflow, TypeScript, Prisma, Rust and
\* Python file; the manifest of a native patch imports the patch beside it.
FileNodes(t) ==
    LET native == {p \in DOMAIN t : Fact(t[p], "native") # {}}
        files == native \cup {p \in DOMAIN t : \/ ShellKind(t, p) # "" \/ IsWorkflow(p)
                                                \/ p.ext \in CODE_EXT \cup {"prisma", "rs", "py"}}
        kind(p) == IF p \in native THEN CHOOSE k \in Fact(t[p], "native") : TRUE
                   ELSE IF ShellKind(t, p) # "" THEN ShellKind(t, p)
                   ELSE IF IsWorkflow(p) THEN "workflow_configuration"
                   ELSE IF p.ext \in DECL_EXT THEN "type_declaration"
                   ELSE ""
    IN Add([nodes |-> << >>, edges |-> {}], {Code(p) : p \in files},
           LAMBDA id : Node(id, t[id[2]].v, id[2], kind(id[2])),
           {Edge(Code(r[1]), "imports", Code(r[2])) :
               r \in {<<p, q>> \in native \X native : /\ p.dir = q.dir /\ Fact(t[p], "native") = {"native_patch_manifest"}
                                                     /\ Fact(t[q], "native") = {"native_patch_payload"}}})

\* base: the literal references of shell and workflow files; a workflow with a
\* command that cannot be resolved may call every shell file.
ShellEdges(t, g) ==
    LET sources == {p \in DOMAIN t : ShellKind(t, p) # "" \/ IsWorkflow(p)}
        refs == {<<p, r>> \in sources \X DOMAIN t : r \in Fact(t[p], "sources")}
        loose == {<<p, q>> \in sources \X DOMAIN t :
                     IsWorkflow(p) /\ Fact(t[p], "unknown") # {} /\ ShellKind(t, q) # ""}
        reused == {<<p, q>> \in sources \X DOMAIN t : IsWorkflow(p) /\ q \in Fact(t[p], "calls")}
        called == {<<p, q>> \in sources \X DOMAIN t :
                      /\ ShellKind(t, p) # "" /\ Fact(t[p], "unknown") = {}
                      /\ q \in Fact(t[p], "sources") /\ Fact(t[p], "functions") \cap Fact(t[q], "defines") # {}}
    IN Add(g, {Code(r[2]) : r \in refs},
           LAMBDA id : Node(id, t[id[2]].v, id[2], IF ShellKind(t, id[2]) # "" THEN "bash_source" ELSE "data_file"),
           {Edge(Code(r[1]), "imports", Code(r[2])) : r \in refs}
           \cup {Inferred(Code(r[1]), "calls", Code(r[2]), "") : r \in loose}
           \cup {Edge(Code(r[1]), "calls", Code(r[2])) : r \in reused \cup called})

\* _source_input_bindings: what the committed declaration of source inputs names.
SourceInputs(t, g) ==
    LET manifest == Path(<<>>, "source-inputs", "json")
        entries == IF Exists(t, manifest) THEN {e \in Fact(t[manifest], "inputs") : Exists(t, e.consumer)} ELSE {}
        targets(e) == ({e.source} \cup (e.controls \ {e.consumer})) \cap DOMAIN t
        sources == {e.source : e \in entries}
        kind(p) == CASE p = manifest -> "source_input_contract" [] p \in sources -> "source_input_data"
                     [] p \in {e.consumer : e \in entries} -> "" [] OTHER -> "source_input_control"
    IN IF ~Exists(t, manifest) THEN g
       ELSE Add(g, {Code(manifest)} \cup UNION {{Code(p) : p \in {e.consumer} \cup targets(e)} : e \in entries},
                LAMBDA id : Node(id, t[id[2]].v, id[2], kind(id[2])),
                UNION {{Edge(Code(e.consumer), "declares_source_input", Code(p)) : p \in {manifest} \cup targets(e)}
                       \cup {Edge(Code(e.consumer), "reads_source_input", Code(p)) : p \in {e.source} \cap DOMAIN t}
                       : e \in entries})

\* _root_is_its_own_package: a workspace root that is an application too.
RootIsItsOwnPackage(t) == Fact(t[Path(<<>>, "package", "json")], "markers") # {}

\* base: the directories of the workspace's packages.
PackageDirs(t) ==
    LET root == Path(<<>>, "package", "json")
        members == IF Exists(t, root)
                   THEN {d \in Fact(t[root], "workspaces") : Exists(t, Path(d, "package", "json"))} ELSE {}
    IN members \cup IF Exists(t, root) /\ (members = {} \/ RootIsItsOwnPackage(t)) THEN {<<>>} ELSE {}

\* base: package name -> directory, for every manifest that has a name.
PackagesNamed(t, name) ==
    {p.dir : p \in {q \in DOMAIN t : q.base = "package" /\ q.ext = "json" /\ name \in Fact(t[q], "name")}}

OrElse(p, q) == IF p # NoPath THEN p ELSE q

FirstExisting(t, cands, accept) ==
    cands[Min({i \in DOMAIN cands : Exists(t, cands[i]) /\ cands[i].ext \in accept \cup {"json", "d.ts", "prisma"}}
              \cup {Len(cands)})]

\* _try_file: the candidates a specifier stands for, in their order; NoPath comes last.
TryFile(t, s, nodenext) ==
    LET withExt(p, exts) == [i \in DOMAIN exts |-> [p EXCEPT !.ext = exts[i]]]
    IN FirstExisting(t, <<s>> \o (IF s.ext = ""
                                  THEN withExt(s, RESOLVE_EXT)
                                       \o withExt(Path(Append(s.dir, s.base), "index", ""), <<"ts", "tsx", "js", "jsx">>)
                                  ELSE IF s.ext \in DOMAIN TS_SPEC_EXT
                                  THEN withExt(s, <<"ts", "tsx">>
                                                  \o IF nodenext THEN TS_SPEC_EXT[s.ext] ELSE <<>>)
                                  ELSE <<>>) \o <<NoPath>>,
                     IF nodenext THEN CODE_EXT ELSE LEGACY_RESOLVE_CODE_EXT)

\* _try_file_dist_fallback: a build output stands for its source.
TryFileDistFallback(t, s, nodenext) ==
    OrElse(TryFile(t, s, nodenext),
           TryFile(t, [s EXCEPT !.dir = [i \in DOMAIN s.dir |-> IF s.dir[i] = "dist" THEN "src" ELSE s.dir[i]]],
                   nodenext))

\* _tsconfig_for: the aliases of the nearest tsconfig.json above a file.
AliasesFor(t, p) ==
    LET above == {d \in {SubSeq(p.dir, 1, i) : i \in 0..Len(p.dir)} : Exists(t, Path(d, "tsconfig", "json"))}
    IN IF above = {} THEN {}
       ELSE Fact(t[Path(CHOOSE d \in above : \A e \in above : Len(e) <= Len(d), "tsconfig", "json")], "paths")

FirstOf(found) == IF found \ {NoPath} = {} THEN NoPath ELSE CHOOSE p \in found \ {NoPath} : TRUE

\* The file a package's name stands for: the path that follows the name, main, the index of src, the index.
PackageEntries(t, spec, d) ==
    (IF spec.at.base # "" THEN <<[spec.at EXCEPT !.dir = d \o @]>> ELSE <<>>)
    \o SetToSeq(Fact(t[Path(d, "package", "json")], "main"))
    \o <<Path(Append(d, "src"), "index", "ts"), Path(d, "index", "ts")>>

\* _resolve_pass: relative, then the aliases of tsconfig, then a package of the workspace.
ResolvePass(t, from, spec, nodenext) ==
    LET try(ps) == FoldRight(LAMBDA p, found : OrElse(TryFileDistFallback(t, p, nodenext), found), ps, NoPath)
        aliases == {a \in AliasesFor(t, from) : a.name = spec.pkg}
    IN try(IF spec.pkg = "" THEN <<spec.at>>
           ELSE SetToSeq({a.to : a \in aliases})
                \o FlattenSeq(SetToSeq({PackageEntries(t, spec, d) : d \in PackagesNamed(t, spec.pkg)})))

\* resolve: the second pass runs only where the first found nothing.
Resolve(t, from, spec) == OrElse(ResolvePass(t, from, spec, FALSE), ResolvePass(t, from, spec, TRUE))

\* resolve_all: the local names a file imports, each with the file it comes from.
SymbolOrigins(t, p) ==
    {[local |-> x[2][1], file |-> x[1], imported |-> x[2][2]] :
        x \in UNION {({Resolve(t, p, i.spec)} \ {NoPath}) \X i.symbols : i \in Fact(t[p], "imports")}}

DeclaredContracts(t, p) ==
    LET inLibrary == \E d \in PackageDirs(t) : d # <<>> /\ d[1] # "apps" /\ Under(p, d)
    IN {c.sym : c \in {x \in Fact(t[p], "contracts") : x.kind = "enum" => inLibrary}}

\* symbol_decl: re-exports are followed, six hops at most.
RECURSIVE SymbolDecl(_, _, _, _)
SymbolDecl(t, p, name, depth) ==
    IF depth > 6 \/ p \notin TsFiles(t) THEN NoPath
    ELSE IF name \in DeclaredContracts(t, p) THEN p
    ELSE FirstOf({SymbolDecl(t, target, name, depth + 1) :
                  target \in {Resolve(t, p, r.spec) : r \in {x \in Fact(t[p], "reexports") : x.sym \in {"*", name}}}})

-----------------------------------------------------------------------------
(* Extractors. *)

XContracts(t, g) ==
    LET declared == UNION {{<<"contract", p, s>> : s \in DeclaredContracts(t, p)} : p \in TsFiles(t)}
        consumed(p) == {<<SymbolDecl(t, o.file, o.imported, 0), o.imported>> :
                           o \in {x \in SymbolOrigins(t, p) : x.imported \notin {"*", "default"}}}
    IN Add(g, declared, LAMBDA id : Node(id, t[id[2]].v, id[2], "contract"),
           {Edge(Code(id[2]), "implements_contract", id) : id \in declared}
           \cup UNION {{Edge(Code(p), "consumes_contract", <<"contract", d[1], d[2]>>) :
                           d \in {x \in consumed(p) : x[1] \notin {NoPath, p}}} : p \in TsFiles(t)})

ContractsOf(t, p, locals) ==
    LET named == {o \in SymbolOrigins(t, p) : o.local \in locals}
    IN {<<"contract", SymbolDecl(t, o.file, o.imported, 0), o.imported>> : o \in named}

\* x_routes: a route is one node however many files serve it.
XRoutes(t, g) ==
    LET served == UNION {{[file |-> p, id |-> <<"route", r.method, r.path>>, dtos |-> r.dtos, ws |-> r.method = "WS"]
                             : r \in Fact(t[p], "routes")} : p \in TsFiles(t)}
        owner(id) == CHOOSE p \in DOMAIN t : \E s \in served : s.id = id /\ s.file = p
    IN Add(g, {s.id : s \in served},
           LAMBDA id : Node(id, t[owner(id)].v, owner(id), IF id[2] = "WS" THEN "ws_event" ELSE ""),
           {Edge(Code(s.file), "provides_route", s.id) : s \in served}
           \cup UNION {{Edge(s.id, "implements_contract", c) : c \in ContractsOf(t, s.file, s.dtos)} : s \in served})

RoutesOf(t) == UNION {{<<"route", r.method, r.path>> : r \in Fact(t[p], "routes")} : p \in TsFiles(t)}

XPrisma(t, g) ==
    LET blocks == UNION {{[file |-> p, name |-> m.name, v |-> m.v, refs |-> m.refs] : m \in Fact(t[p], "models")}
                            : p \in {q \in DOMAIN t : q.ext = "prisma"}}
        names == {b.name : b \in blocks}
        block(n) == CHOOSE b \in blocks : b.name = n
        model(n) == <<"data_model", n>>
    IN Add(g, {model(n) : n \in names},
           LAMBDA id : Node(id, block(id[2]).v, block(id[2]).file, "model"),
           {Edge(Code(b.file), "maps_model", model(b.name)) : b \in blocks}
           \cup UNION {{Edge(model(b.name), "maps_model", model(r)) : r \in (b.refs \cap names) \ {b.name}} : b \in blocks}
           \cup UNION {{Edge(Code(p), "maps_model", model(n)) : n \in Fact(t[p], "uses") \cap names} : p \in TsFiles(t)})

\* _declaration_sibling: the declaration file that is read for a JavaScript module.
DeclarationSibling(r) ==
    CASE r.ext = "js" -> [r EXCEPT !.ext = "d.ts"]
      [] r.ext = "mjs" -> [r EXCEPT !.ext = "d.mts"]
      [] r.ext = "cjs" -> [r EXCEPT !.ext = "d.cts"]
      [] OTHER -> NoPath

\* x_imports: a TypeScript importer of a JavaScript module depends on its
\* declaration file as well.
XImports(t, g) ==
    LET resolved(p) == {r \in {Resolve(t, p, i.spec) : i \in Fact(t[p], "imports")} : Code(r) \in DOMAIN g.nodes /\ r # p}
        targets(p) == UNION {{r} \cup IF p.ext \in {"ts", "tsx", "mts", "cts", "d.ts", "d.mts", "d.cts"}
                                      THEN {DeclarationSibling(r)} \ {p, NoPath} ELSE {} : r \in resolved(p)}
    IN Add(g, {}, LAMBDA id : id,
           UNION {{Edge(Code(p), "imports", Code(r)) : r \in {x \in targets(p) : Exists(t, x)}} : p \in TsFiles(t)})

\* x_config: a key is a node wherever it is read.
XConfig(t, g) ==
    LET reads == UNION {{<<p, k>> : k \in Fact(t[p], "env")} : p \in TsFiles(t)}
    IN Add(g, {<<"config_key", r[2]>> : r \in reads}, LAMBDA id : Node(id, 0, NoPath, ""),
           {Edge(Code(r[1]), "reads_config", <<"config_key", r[2]>>) : r \in reads})

\* x_reuse: a reuse marker imports a shared package that is no file of the tree.
XReuse(t, g) ==
    LET marks == UNION {{<<p, k>> : k \in Fact(t[p], "reuse")} : p \in TsFiles(t)}
    IN Add(g, {<<"code_unit", NoPath, r[2]>> : r \in marks}, LAMBDA id : Node(id, 0, NoPath, "shared_package"),
           {Edge(Code(r[1]), "imports", <<"code_unit", NoPath, r[2]>>) : r \in marks})

\* x_di: a constructor parameter whose type is imported is an inferred call.
XDi(t, g) ==
    Add(g, {}, LAMBDA id : id,
        UNION {{Inferred(Code(p), "calls", Code(o.file), "intra_unit") :
                   o \in {x \in SymbolOrigins(t, p) : x.local \in Fact(t[p], "injects") /\ x.file # p}} : p \in TsFiles(t)})

\* _queue_token: a literal, or the symbol in the file that declares it.
QueueToken(t, p, tok) ==
    IF tok.literal THEN <<"lit", tok.name>>
    ELSE CHOOSE k \in {<<"sym", o.file, o.imported>> : o \in {x \in SymbolOrigins(t, p) : x.local = tok.name}}
                       \cup {<<"sym", p, tok.name>>} :
            k = <<"sym", p, tok.name>> => ~\E o \in SymbolOrigins(t, p) : o.local = tok.name

QueueEnds(t) ==
    UNION {{<<f, p, QueueToken(t, p, q)>> : q \in Fact(t[p], f)} : <<f, p>> \in {"produces", "processes"} \X TsFiles(t)}

XQueue(t, g) ==
    Add(g, {}, LAMBDA id : id,
        {Inferred(Code(x[1][2]), "calls", Code(x[2][2]), "intra_unit") :
            x \in {y \in QueueEnds(t) \X QueueEnds(t) : /\ y[1][1] = "produces" /\ y[2][1] = "processes"
                                                       /\ y[1][3] = y[2][3] /\ y[1][2] # y[2][2]}})

XTests(t, g) ==
    Add(g, {}, LAMBDA id : id,
        UNION {{Edge(Code(p), "verifies", Code(r)) :
                   r \in {Resolve(t, p, i.spec) : i \in Fact(t[p], "imports")} \cap {q \in TsFiles(t) : ~IsTest(q)}}
               : p \in {q \in TsFiles(t) : IsTest(q)}})

\* x_http_client: a call site whose receiver is a client and whose method and
\* path are those of one served route consumes it.
XHttpClient(t, g) ==
    LET receivers(p) == {"axios", "fetch", "api"}
                        \cup {o.local : o \in {x \in SymbolOrigins(t, p) : Fact(t[x.file], "client") # {}}}
        calls(p) == {<<"route", h.method, h.path>> : h \in {x \in Fact(t[p], "http") : x.recv \in receivers(p)}}
    IN Add(g, {}, LAMBDA id : id,
           UNION {{Inferred(Code(p), "consumes_contract", r, "service") : r \in calls(p) \cap RoutesOf(t)} : p \in TsFiles(t)})

\* Containment: a code unit belongs to the innermost package directory above it.
Contained(g, d, dirs) ==
    LET nested == {o \in dirs : o # d /\ IsPrefix(d, o)}
    IN {id \in DOMAIN g.nodes : /\ id[1] = "code_unit" /\ g.nodes[id].path # NoPath /\ Under(g.nodes[id].path, d)
                                /\ ~\E o \in nested : Under(g.nodes[id].path, o)}

\* _adapter_role_evidence and x_deployables.
XDeployables(t, g) ==
    LET dirs == PackageDirs(t)
        manifest(d) == Path(d, "package", "json")
        adapter(d) == \E id \in Contained(g, d, dirs) :
                          id[2] \in TsFiles(t) /\ ~IsTest(id[2])
                          /\ \E o \in SymbolOrigins(t, id[2]) : o.local \in Fact(t[id[2]], "adapts")
        kind(d) == LET m == Fact(t[manifest(d)], "markers")
                   IN IF "nest" \in m THEN "service" ELSE IF "next" \in m THEN "frontend" ELSE IF "bin" \in m THEN "cli"
                      ELSE IF adapter(d) THEN "adapter" ELSE "library"
    IN Add(g, {<<"deployable_unit", d>> : d \in dirs},
           LAMBDA id : Node(id, t[manifest(id[2])].v, Path(id[2], "", ""), kind(id[2])),
           UNION {{Edge(u, "deploys_to", <<"deployable_unit", d>>) : u \in Contained(g, d, dirs)} : d \in dirs})

\* A crate or a Python package is a deployable unit as well.
ManifestDeployables(t, g, base) ==
    LET found == {p \in DOMAIN t : p.base = base /\ p.ext = "toml" /\ Fact(t[p], "package") # {}}
        dirs == {p.dir : p \in found}
    IN Add(g, {<<"deployable_unit", d>> : d \in dirs},
           LAMBDA id : LET p == Path(id[2], base, "toml")
                       IN Node(id, t[p].v, Path(id[2], "", ""), CHOOSE k \in Fact(t[p], "package") : TRUE),
           UNION {{Edge(u, "deploys_to", <<"deployable_unit", d>>) : u \in Contained(g, d, dirs)} : d \in dirs})

EnvReads(t, g, ext) ==
    LET reads == UNION {{<<p, k>> : k \in Fact(t[p], "env")} : p \in {q \in DOMAIN t : q.ext = ext}}
    IN Add(g, {<<"config_key", r[2]>> : r \in reads}, LAMBDA id : Node(id, 0, NoPath, ""),
           {Edge(Code(r[1]), "reads_config", <<"config_key", r[2]>>) : r \in reads})

\* x_rust: `mod x;` is x.rs or x/mod.rs beside the module's directory; a path
\* of the crate or of a workspace crate is followed as far as files exist.
XRust(t, g0) ==
    LET g == ManifestDeployables(t, g0, "Cargo")
        files == {p \in DOMAIN t : p.ext = "rs"}
        modDir(p) == IF p.base \in {"lib", "main", "mod"} THEN p.dir ELSE Append(p.dir, p.base)
        mod(d, m) == LET flat == Path(d, m, "rs")
                     IN IF Exists(t, flat) THEN flat ELSE Path(Append(d, m), "mod", "rs")
        crates == {p.dir : p \in {q \in DOMAIN t : q.base = "Cargo" /\ Fact(t[q], "package") # {}}}
        owner(p) == {d \in crates : Under(p, d) /\ \A e \in crates : Under(p, e) => Len(e) <= Len(d)}
        roots(p, u) == IF u.crate = "crate" THEN owner(p)
                       ELSE {d \in crates : u.crate \in Fact(t[Path(d, "Cargo", "toml")], "name")}
        entry(d) == IF Exists(t, Path(d, "lib", "rs")) THEN Path(d, "lib", "rs") ELSE Path(d, "main", "rs")
        used(p) == {IF u.mod = "" THEN entry(Append(d, "src")) ELSE mod(Append(d, "src"), u.mod) :
                       <<d, u>> \in {x \in crates \X Fact(t[p], "rustUses") : x[1] \in roots(p, x[2])}}
        targets(p) == {mod(modDir(p), m) : m \in Fact(t[p], "mods")} \cup (used(p) \ {p})
    IN EnvReads(t, Add(g, {}, LAMBDA id : id,
                       UNION {{Edge(Code(p), "imports", Code(q)) : q \in targets(p)} : p \in files}), "rs")

\* x_python: a relative import from the importing file, an absolute one from
\* the longest root that has it; a test verifies what it imports.
XPython(t, g0) ==
    LET g == ManifestDeployables(t, g0, "pyproject")
        files == {p \in DOMAIN t : p.ext = "py"}
        manifests == {p.dir : p \in {q \in DOMAIN t : q.base = "pyproject" /\ q.ext = "toml"}}
        roots == {<<>>} \cup manifests \cup {Append(d, "src") : d \in manifests}
        module(d, m) == LET pkg == Path(d \o m, "__init__", "py")
                        IN IF Exists(t, pkg) THEN pkg ELSE Path(d \o Front(m), Last(m), "py")
        absolute(m) == LET ok == {d \in roots : Exists(t, module(d, m))}
                       IN IF ok = {} THEN NoPath
                          ELSE module(CHOOSE d \in ok : \A e \in ok : Len(e) <= Len(d), m)
        relative(p, i) == LET up == i.dots - 1
                          IN IF up > Len(p.dir) THEN NoPath ELSE module(SubSeq(p.dir, 1, Len(p.dir) - up), i.module)
        targets(p) == {IF i.dots > 0 THEN relative(p, i) ELSE absolute(i.module) : i \in Fact(t[p], "pyImports")}
                      \cap (files \ {p})
        served == UNION {{<<p, <<"route", r.method, r.path>>>> : r \in Fact(t[p], "routes")} : p \in files}
        owner(id) == CHOOSE p \in files : <<p, id>> \in served
    IN EnvReads(t, Add(g, {s[2] : s \in served}, LAMBDA id : Node(id, t[owner(id)].v, owner(id), "fastapi"),
                       UNION {{Edge(Code(p), "imports", Code(q)) : q \in targets(p)}
                              \cup {Edge(Code(p), "verifies", Code(q)) :
                                       q \in {x \in targets(p) : IsTest(p) /\ ~IsTest(x)}} : p \in files}
                       \cup {Edge(Code(s[1]), "provides_route", s[2]) : s \in served}), "py")

\* _explicit_targets: the nodes a text names.
ExplicitTargets(t, g, c) ==
    {id \in DOMAIN g.nodes : \/ id[1] \in {"code_unit", "document", "receipt"} /\ id[2] \in Fact(c, "mentions")
                             \/ id[1] = "route" /\ id[2] # "WS" /\ <<id[2], id[3]>> \in Fact(c, "mentionsRoutes")
                             \/ id[1] = "data_model" /\ id[2] \in Fact(c, "mentionsModels")}

XDocs(t, g0) ==
    LET docs == {p \in DOMAIN t : p.ext = "md"}
        g == Add(g0, {<<"document", p>> : p \in docs}, LAMBDA id : Node(id, t[id[2]].v, id[2], ""), {})
    IN Add(g, {}, LAMBDA id : id,
           UNION {{Edge(<<"document", p>>, "documents", x) : x \in ExplicitTargets(t, g, t[p]) \ {<<"document", p>>}}
                  : p \in docs})

\* x_work_items: an identifier in a comment or a document is named, never documented.
XWorkItems(t, g) ==
    LET from(p) == IF p.ext = "md" THEN <<"document", p>> ELSE Code(p)
        named == UNION {{<<from(p), w>> : w \in Fact(t[p], "workItems")} : p \in TsFiles(t) \cup {q \in DOMAIN t : q.ext = "md"}}
    IN Add(g, {<<"work_item", n[2]>> : n \in named}, LAMBDA id : Node(id, 0, NoPath, ""),
           {Edge(n[1], "names", <<"work_item", n[2]>>) : n \in named})

\* x_receipts: a spent receipt has no node and no edge.
XReceipts(t, g) ==
    LET found == {p \in DOMAIN t : /\ p.ext = "json" /\ "receipts" \in Range(p.dir) /\ "archive" \notin Range(p.dir)
                                   /\ Fact(t[p], "receipt") # {}}
        g1 == Add(g, {<<"receipt", p>> : p \in found}, LAMBDA id : Node(id, t[id[2]].v, id[2], ""), {})
    IN Add(g1, {}, LAMBDA id : id,
           UNION {{Edge(<<"receipt", p>>, "verifies", x) :
                      x \in {y \in ExplicitTargets(t, g1, t[p]) : y[1] # "receipt"}} : p \in found})

\* x_systemd: After and Before order units by unique name, a timer activates
\* its unit, a literal path is referenced and, when executable, called.
XSystemd(t, g) ==
    LET units == {p \in DOMAIN t : p.ext \in {"service", "timer"}}
        unit(p) == <<"systemd_unit", p>>
        named(n) == {p \in units : p.base = n.base /\ p.ext = n.ext}
        alone(n) == IF Cardinality(named(n)) = 1 THEN named(n) ELSE {}
        orders == UNION {UNION {{<<p, q>> : q \in alone(n)} : n \in Fact(t[p], "after")}
                         \cup UNION {{<<q, p>> : q \in alone(n)} : n \in Fact(t[p], "before")} : p \in units}
        timers == {p \in units : p.ext = "timer"}
        activated(p) == IF Fact(t[p], "unit") # {}
                        THEN UNION {{q \in alone(n) : q.ext = "service"} : n \in Fact(t[p], "unit")}
                        ELSE {[p EXCEPT !.ext = "service"]} \cap units
        refs == UNION {{<<p, x.path, x.first>> : x \in {y \in Fact(t[p], "exec") : Exists(t, y.path)}} : p \in units}
        target(q) == LET ids == {id \in DOMAIN g.nodes : g.nodes[id].path = q /\ g.nodes[id].path # NoPath}
                     IN IF ids = {} THEN <<"source_file", q>> ELSE IF Code(q) \in ids THEN Code(q) ELSE CHOOSE id \in ids : TRUE
    IN Add(g, {unit(p) : p \in units} \cup {target(r[2]) : r \in refs},
           LAMBDA id : Node(id, t[id[2]].v, id[2], id[2].ext),
           {Edge(unit(o[1]), "orders_after", unit(o[2])) : o \in orders}
           \cup UNION {{Edge(unit(p), "activates", unit(q)) : q \in activated(p)} : p \in timers}
           \cup {Edge(unit(r[1]), "references", target(r[2])) : r \in refs}
           \cup {Edge(unit(r[1]), "calls", target(r[2])) :
                    r \in {x \in refs : x[3] /\ target(x[2])[1] = "code_unit" /\ Fact(t[x[2]], "executable") # {}}})

\* vendored_bundle_roots and vendor_owner_of: a file under a vendored bundle is
\* another program's.
Vendored(t, p) ==
    \E m \in DOMAIN t : m.base = "BUNDLE" /\ m.ext = "json" /\ Fact(t[m], "owner") # {} /\ Under(p, m.dir)

MarkVendored(t, g) ==
    LET mark(n) == [n EXCEPT !.vendored = n.path # NoPath /\ Vendored(t, n.path)]
    IN [g EXCEPT !.nodes = [id \in DOMAIN g.nodes |-> mark(g.nodes[id])]]

\* build: the extractors in their order, the dangling edges dropped, the
\* vendored nodes marked.
Build(t) ==
    MarkVendored(t, Finalize(
        XSystemd(t, XReceipts(t, XWorkItems(t, XDocs(t, XPython(t, XRust(t, XDeployables(t, XHttpClient(t,
        XTests(t, XQueue(t, XDi(t, XReuse(t, XConfig(t, XImports(t, XPrisma(t, XRoutes(t, XContracts(t,
        ShellEdges(t, SourceInputs(t, FileNodes(t))))))))))))))))))))))
=============================================================================

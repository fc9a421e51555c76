----------------------------- MODULE MCRecheck ------------------------------
(***************************************************************************)
(* Three small repositories: a TypeScript workspace with a shared library, *)
(* a service with routes, a schema and a client, and a tree of scripts,    *)
(* units and Python files.                                                 *)
(***************************************************************************)
EXTENDS Recheck, TLC

Lib == <<"packages", "lib">>
Api == <<"apps", "api">>
Src(d) == Append(d, "src")
Ts(d, b) == Path(Src(d), b, "ts")
At(p) == [pkg |-> "", at |-> p]
FromLib == [pkg |-> "@lib", at |-> Path(<<>>, "", "")]
Import(spec, syms) == [spec |-> spec, symbols |-> syms]
Json(d, b) == Path(d, b, "json")

Dto == Ts(Lib, "dto")
Index == Ts(Lib, "index")
Svc == Ts(Api, "svc")
Spec1 == Ts(Api, "svc.spec")
Doc == Path(<<"docs">>, "guide", "md")
Old == Path(<<"receipts">>, "old", "json")
Own == Path(<<"receipts">>, "own", "json")

DtoText(v, fields, exports) == [v |-> v, contracts |-> {[sym |-> "Dto", kind |-> "class", fields |-> fields]}, exports |-> exports]
SvcText(v, reads, syms) == [v |-> v, imports |-> {Import(FromLib, {<<s, s>> : s \in syms})}, exports |-> {"Svc"},
                            reads |-> {<<"Dto", f>> : f \in reads}]
Receipt(v, item) == [v |-> v, receipt |-> {"r"}, workItems |-> {item}, mentions |-> {Svc}]

Workspace ==
    [base |->
        Json(<<>>, "package") :> [v |-> 0, workspaces |-> {Lib, Api}]
        @@ Json(Lib, "package") :> [v |-> 0, name |-> {"@lib"}, suite |-> {"passes"}]
        @@ Json(Lib, "tsconfig") :> [v |-> 0]
        @@ Json(Api, "package") :> [v |-> 0, name |-> {"api"}, markers |-> {"bin"}, suite |-> {"passes"}]
        @@ Json(Api, "tsconfig") :> [v |-> 0]
        @@ Profile :> [v |-> 0, fullTest |-> {Lib, Api}, postbuild |-> {Json(Lib, "tsconfig.dist")}]
        @@ Json(Lib, "tsconfig.dist") :> [v |-> 0, include |-> {Src(Lib)}]
        @@ Dto :> DtoText(0, {"a", "b"}, {"fn"})
        @@ Index :> [v |-> 0, imports |-> {Import(At(Dto), {})}, reexports |-> {[spec |-> At(Dto), sym |-> "*"]}]
        @@ Svc :> SvcText(0, {"a"}, {"Dto", "fn"})
        @@ Spec1 :> [v |-> 0, imports |-> {Import(At(Svc), {<<"Svc", "Svc">>})}]
        @@ Doc :> [v |-> 0, mentions |-> {Svc}]
        @@ Old :> Receipt(0, "W1") @@ Own :> Receipt(0, "W2"),
     contents |->
        Dto :> {DtoText(1, {"a"}, {"fn"}), DtoText(2, {"b"}, {"fn"}), DtoText(4, {"a", "b"}, {}), [v |-> 3]}
        @@ Json(Lib, "tsconfig") :> {[v |-> 1, invalid |-> {"option"}]}
        @@ Index :> {[v |-> 1]}
        @@ Svc :> {SvcText(1, {"b"}, {"Dto"}), SvcText(2, {"a"}, {"Dto", "Gone"})}
        @@ Doc :> {[v |-> 1]}
        @@ Own :> {Receipt(1, "W2"), Receipt(2, "W1")}
        @@ Json(<<>>, "package") :> {[v |-> 1, workspaces |-> {Lib, Api}]}]

Web == <<"apps", "web">>
Ctl == Ts(Api, "ctl")
Repo == Ts(Api, "repo")
Main == Ts(Api, "main")
Page == Ts(Web, "page")
Schema == Path(<<"apps", "api">>, "schema", "prisma")
Canary == Path(<<"receipts">>, "canary", "json")
Flag == Path(<<".github", "workflows">>, "ci", "yml")

CtlText(v, routes, imports) ==
    [v |-> v, role |-> {"controller"}, routes |-> routes, imports |-> imports, exports |-> {"Ctl"}, env |-> {"PORT"}]
Route(m) == [method |-> m, path |-> "/x", dtos |-> {}]
UsesRepo == {Import(At(Repo), {<<"Repo", "Repo">>})}
ModelText(v, fields) == [v |-> v, models |-> {[name |-> "User", v |-> v, refs |-> {}, fields |-> fields]}]

Service ==
    [base |->
        Json(<<>>, "package") :> [v |-> 0, workspaces |-> {Api, Web}]
        @@ Json(Api, "package") :> [v |-> 0, name |-> {"api"}, markers |-> {"nest"}, suite |-> {"passes"}]
        @@ Json(Api, "tsconfig") :> [v |-> 0]
        @@ Json(Web, "package") :> [v |-> 0, name |-> {"web"}, markers |-> {"next"}, suite |-> {"passes"}]
        @@ Json(Web, "tsconfig") :> [v |-> 0]
        @@ EnvExample :> [v |-> 0, keys |-> {"PORT"}]
        @@ Ctl :> CtlText(0, {Route("GET")}, {})
        @@ Repo :> [v |-> 0, role |-> {"repository"}, exports |-> {"Repo"}, uses |-> {"User"}, usesFields |-> {<<"User", "mail">>}]
        @@ Main :> [v |-> 0, bootstrap |-> {"app"}, registers |-> {Ctl}, imports |-> {Import(At(Ctl), {<<"Ctl", "Ctl">>})}]
        @@ Page :> [v |-> 0, http |-> {[recv |-> "api", method |-> "GET", path |-> "/x"]}]
        @@ Schema :> ModelText(0, {"mail", "name"})
        @@ Canary :> [v |-> 0],
     contents |->
        Ctl :> {CtlText(1, {Route("GET")}, UsesRepo), CtlText(2, {}, {}),
                [CtlText(3, {Route("GET")}, {}) EXCEPT !.env = {"PORT", "HOST"}]}
        @@ Main :> {[v |-> 1, bootstrap |-> {"app"}, registers |-> {}, imports |-> {Import(At(Ctl), {<<"Ctl", "Ctl">>})}]}
        @@ Schema :> {ModelText(1, {"mail"}), ModelText(2, {"name"}), [v |-> 3]}
        @@ Page :> {[v |-> 1]}]

Script == Path(<<"ops">>, "run", "sh")
Helper == Path(<<"ops">>, "lib", "sh")
Bats == Path(<<"ops">>, "run", "bats")
Unit == Path(<<"ops">>, "job", "service")
Timer == Path(<<"ops">>, "job", "timer")
Conf == Path(<<"ops">>, "job", "conf")
Tool == Path(<<"tools">>, "tool", "py")
Util == Path(<<"tools">>, "util", "py")
Data == Path(<<"data">>, "table", "csv")
Inputs == Path(<<>>, "source-inputs", "json")
Crate == Path(<<"crate">>, "Cargo", "toml")
LibRs == Path(<<"crate", "src">>, "lib", "rs")
ModRs == Path(<<"crate", "src">>, "core", "rs")
Patch == Path(<<"patches">>, "a", "json")
Payload == Path(<<"patches">>, "a", "patch")
Ops ==
    [base |->
        Script :> [v |-> 0, sources |-> {Helper}, functions |-> {"log"}, executable |-> {"x"}]
        @@ Helper :> [v |-> 0, defines |-> {"log"}]
        @@ Bats :> [v |-> 0, sources |-> {Script}]
        @@ Flag :> [v |-> 0, sources |-> {Script}]
        @@ Unit :> [v |-> 0, exec |-> {[path |-> Script, first |-> TRUE], [path |-> Conf, first |-> FALSE]}]
        @@ Timer :> [v |-> 0] @@ Conf :> [v |-> 0]
        @@ Tool :> [v |-> 0, pyImports |-> {[dots |-> 1, module |-> <<"util">>]}]
        @@ Util :> [v |-> 0]
        @@ Inputs :> [v |-> 0, inputs |-> {[source |-> Data, consumer |-> Tool, controls |-> {Util}]}]
        @@ Data :> [v |-> 0]
        @@ Crate :> [v |-> 0, package |-> {"library"}, name |-> {"crate"}]
        @@ LibRs :> [v |-> 0, mods |-> {"core"}] @@ ModRs :> [v |-> 0]
        @@ Patch :> [v |-> 0, native |-> {"native_patch_manifest"}]
        @@ Payload :> [v |-> 0, native |-> {"native_patch_payload"}]
        @@ Canary :> [v |-> 0],
     contents |->
        Helper :> {[v |-> 1, defines |-> {"log"}], [v |-> 2]}
        @@ Script :> {[v |-> 1, sources |-> {Helper}, functions |-> {"log"}, unknown |-> {"eval"}]}
        @@ Flag :> {[v |-> 1, sources |-> {Script}, invalid |-> {"yaml"}]}
        @@ Conf :> {[v |-> 1]}
        @@ Util :> {[v |-> 1], [v |-> 2, control |-> {"fails"}]}
        @@ Data :> {[v |-> 1]}
        @@ ModRs :> {[v |-> 1]}
        @@ Payload :> {[v |-> 1, native |-> {"native_patch_payload"}]}]

Host == [down |-> {}, disabled |-> {}, selected |-> {}, properties |-> {}, installed |-> TRUE, canaries |-> {}, ci |-> {},
         crashed |-> {}, exemptions |-> {}, depth |-> {3}, tsc |-> "", native |-> "verified", explanation |-> "none", out |-> Own, item |-> "W2"]
CanaryDoc(rows) == [at |-> Canary, valid |-> TRUE, rows |-> rows, process |-> TRUE, tap |-> TRUE]
Live == CanaryDoc([e \in {Code(Page), Code(Ctl), Code(Script), Code(Helper), Code(Bats), <<"route", "GET", "/x">>,
                          <<"config_key", "PORT">>, <<"config_key", "HOST">>} |-> "verified"])

MCOptions == {Host, [Host EXCEPT !.down = {"tsc", "tests"}, !.selected = {"targeted_test"}],
              [Host EXCEPT !.canaries = {Live}, !.selected = {"targeted_test"}, !.crashed = {"doc_reference"}, !.tsc = "aborts"],
              [Host EXCEPT !.canaries = {Live}], [Host EXCEPT !.depth = {1}],
              [Host EXCEPT !.depth = {0}], [Host EXCEPT !.explanation = "bound", !.down = {"build"}],
              [Host EXCEPT !.depth = {}, !.tsc = "silent", !.native = "failed"]}
MCScenes == {Workspace, Service, Ops}
=============================================================================

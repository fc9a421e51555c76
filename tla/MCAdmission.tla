----------------------------- MODULE MCAdmission ----------------------------
(***************************************************************************)
(* Small repositories, each about one kind of change. Source 3 clashes with *)
(* every lockfile, source 2 with lockfile 1, and lockfile 2 asks for a      *)
(* source after 1.                                                          *)
(***************************************************************************)
EXTENDS Admission, TLC

MCClashes == {<<3, 0>>, <<3, 1>>, <<3, 2>>, <<2, 1>>, <<1, 2>>}

GenEntry == [path |-> "gen", argv |-> TRUE, binds |-> TRUE, job |-> "build", runs |-> "none"]

Bundle1 == [has |-> TRUE, ref |-> 1, by |-> {"k1"}, keys |-> {"k1"}, wf |-> 1, ids |-> {"C06", "C16"},
            arms |-> 2, pass |-> TRUE, signers |-> {"s1"}]

Caller1 == [uses |-> 0, ref |-> 1, perms |-> "none", stage |-> "absent", rest |-> 0]

FirstTree ==
    [NoTree EXCEPT !.src = 1, !.gen = 1, !.bundle = Bundle1, !.wf = 1, !.caller = Caller1,
                   !.decl = [has |-> TRUE, artefacts |-> {GenEntry}]]

Setting == [name |-> "feature", tree |-> FirstTree, program |-> FALSE, origin |-> "other", route |-> "receipts",
            pins |-> {"k1"}, author |-> "human", enforcement |-> "off", job |-> "none", conclusion |-> "none",
            edits |-> {}, others |-> {}, outs |-> {"body"}, ranges |-> {}, signers |-> {}, anyBase |-> FALSE, legacy |-> FALSE,
            readiness |-> "none",
            maxCommits |-> 5, maxReceipts |-> 2, maxLanded |-> 1]

SetSrc(n) == "src" :> n

(* The program's own repository: the ledger is enforced. *)
Feature == [Setting EXCEPT !.program = TRUE, !.enforcement = "default", !.outs = {"ra", "rb"},
                           !.edits = {SetSrc(2)}, !.others = {"doc" :> 1}, !.maxCommits = 6]

(* Changes that are good where they are made and clash where they meet. *)
Meeting == [Setting EXCEPT !.name = "meeting", !.edits = {SetSrc(2), SetSrc(1), "src" :> 2 @@ "lock" :> 2},
                           !.others = {"lock" :> 1}, !.maxReceipts = 1]

(* A readiness receipt is presented, and is broken. *)
Unready == [Setting EXCEPT !.name = "unready", !.edits = {SetSrc(2)}, !.readiness = "violation", !.maxCommits = 3]

(* Receipts over parts of a branch. *)
Parts == [Setting EXCEPT !.name = "parts", !.edits = {SetSrc(2), SetSrc(3), "doc" :> 1, "new" :> "hooked" @@ "can" :> [has |-> TRUE, measured |-> 3]},
                         !.anyBase = TRUE, !.maxCommits = 4]

(* Receipts that start within the branch, over a source that was broken, repaired and broken again. *)
Pieces == [Parts EXCEPT !.name = "pieces", !.maxCommits = 5,
                        !.edits = {SetSrc(2), SetSrc(3), "new" :> "hooked" @@ "can" :> [has |-> TRUE, measured |-> 3]}]

(* A caller that vendors the bundle and refreshes it. *)
Bundle2 == [Bundle1 EXCEPT !.ref = 2, !.by = {"k1", "k2"}, !.keys = {"k1", "k2"}, !.wf = 2]
Refreshed(b) == "bundle" :> b @@ "wf" :> 2 @@ "caller" :> [Caller1 EXCEPT !.ref = 2]
Refresh == [Setting EXCEPT !.name = "refresh", !.origin = "connector", !.outs = {"ra", "body"}, !.pins = {"k1", "k2"},
                           !.edits = {Refreshed(Bundle2), Refreshed([Bundle2 EXCEPT !.by = {"k2"}, !.keys = {"k2"}]),
                                      Refreshed([Bundle2 EXCEPT !.ids = {"C06"}]), "wf" :> 3},
                           !.others = {"src" :> 2 @@ "gen" :> 2}, !.maxReceipts = 1]

(* An amendment of the declaration. *)
Amend == [Setting EXCEPT !.name = "amend", !.job = "build", !.conclusion = "success",
                         !.tree.decl.artefacts = {},
                         !.edits = {"gen" :> 2, SetSrc(2), "decl" :> [has |-> TRUE, artefacts |-> {GenEntry}],
                                    "decl" :> [has |-> TRUE, artefacts |-> {[GenEntry EXCEPT !.path = "src*"]}]},
                         !.ranges = {<<1, 2>>}, !.maxReceipts = 1, !.maxCommits = 4]

(* A receipt that landed is archived. *)
Archive == [Setting EXCEPT !.name = "archive", !.outs = {"ra", "body"},
                           !.edits = {SetSrc(2), "arc" :> 1, "ra" :> 0 @@ "arc" :> 1}, !.maxLanded = 2]

(* Finished-stage evidence. *)
Stages == [Setting EXCEPT !.name = "stage", !.origin = "muneral", !.route = "stage",
                          !.tree.caller = [Caller1 EXCEPT !.uses = 1],
                          !.edits = {"caller" :> [Caller1 EXCEPT !.uses = 1, !.rest = 1] @@ "lock" :> 1
                                       @@ "can" :> [has |-> TRUE, measured |-> 1], SetSrc(3)},
                          !.legacy = TRUE, !.maxReceipts = 1, !.maxCommits = 4]

(* The hosted current-source route. *)
Source == [Setting EXCEPT !.name = "source", !.route = "source", !.program = TRUE,
                          !.edits = {"caller" :> [Caller1 EXCEPT !.rest = 1], SetSrc(2), SetSrc(3)}, !.others = {"doc" :> 1},
                          !.maxCommits = 4]

(* An automated author. *)
Bot(conclusion) == [Setting EXCEPT !.name = "bot", !.author = "bot", !.job = "build", !.conclusion = conclusion,
                                   !.edits = {"lock" :> 1, "gen" :> 2, SetSrc(3)}, !.maxCommits = 4]

(* Decisions to proceed. *)
Decisions == [Setting EXCEPT !.name = "decision", !.outs = {"ra", "body"}, !.signers = {"s1", "s2"},
                             !.readiness = "conformant", !.edits = {"new" :> "hooked", "new" :> "leaf", SetSrc(3)}, !.maxCommits = 4]

AllSettings == {Feature, Meeting, Unready, Parts, Pieces, Refresh, Amend, Archive, Stages, Source, Bot("success"), Bot("failure"), Decisions}
=============================================================================

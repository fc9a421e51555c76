-------------------------------- MODULE Repo --------------------------------
(***************************************************************************)
(* The Git repository that the admission tools read: commits, their        *)
(* ancestry and the few paths whose contents the admission rules tell      *)
(* apart. The tools only ever read it through git, so this module is what  *)
(* admit_change.py asks of git, and nothing more.                          *)
(*                                                                         *)
(* A commit records the set of its ancestors (itself included), so no      *)
(* recursion is needed. A tree is a record, one field for each path:       *)
(*   src     a source file that other files depend on                      *)
(*   new     a file that may be added: "leaf" (nobody refers to it) or     *)
(*           "hooked" (picked up by a reference from an existing file)     *)
(*   gen     a generated file, right when it carries the number of src     *)
(*   lock    a dependency lockfile: a change of it reaches every unit; a   *)
(*           source may do with one lockfile and clash with another        *)
(*   doc     a file that matches the policy's doc_only_globs               *)
(*   decl    .arcana/derived-artefacts.v1.json                             *)
(*   bundle  .github/graph-admission (manifest, signatures, keys, tools,   *)
(*           policy with its check ids and its decision signers)           *)
(*   wf      .github/workflows/graph-admission.yml, listed by the manifest *)
(*   caller  the caller workflow that pins the bundle's program_ref        *)
(*   ra, rb  receipts/graph/*.json: the number of a receipt, 0 for none    *)
(*   arc     receipts/archive/*.json, likewise                             *)
(*   can     receipts/graph/*/*.json: a committed canary result            *)
(*   ledger  the work item's evidence ledger: its attachments              *)
(***************************************************************************)
EXTENDS Integers, Sequences, FiniteSets, FiniteSetsExt

CONSTANT
    Clashes  \* the pairs <<src, lock>> with which the files that depend on src fail their verifiers

ASSUME ClashesAssumption == \A c \in Clashes : c[1] # 0

Paths == {"src", "new", "gen", "lock", "doc", "decl", "bundle", "wf", "caller", "ra", "rb", "arc", "can", "ledger"}

ReceiptIssue == {"ra", "rb"}

ReceiptPaths == ReceiptIssue \cup {"arc"}

NoTree == [src |-> 0, new |-> "none", gen |-> 0, lock |-> 0, doc |-> 0, decl |-> [has |-> FALSE, artefacts |-> {}],
           bundle |-> [has |-> FALSE, ref |-> 0, by |-> {}, keys |-> {}, wf |-> 0, ids |-> {},
                       arms |-> 0, pass |-> FALSE, signers |-> {}],
           wf |-> 0, caller |-> [uses |-> 0, ref |-> 0, perms |-> "none", stage |-> "absent", rest |-> 0],
           ra |-> 0, rb |-> 0, arc |-> 0, can |-> [has |-> FALSE, measured |-> 0],
           ledger |-> [has |-> FALSE, attachments |-> {}]]

Has(t, p) == t[p] # NoTree[p]

(* The tree is broken: no path of it by itself, the source with the lockfile beside it. *)
Clash(t) == <<t.src, t.lock>> \in Clashes

(* A commit on top of its parents; `line` is its first-parent line. *)
Commit(cs, parents, tree) ==
    Append(cs, [parents |-> parents,
                anc |-> {Len(cs) + 1} \cup UNION {cs[parents[i]].anc : i \in DOMAIN parents},
                line |-> {Len(cs) + 1} \cup (IF parents = <<>> THEN {} ELSE cs[parents[1]].line),
                tree |-> tree])

IsAncestor(cs, a, b) == a \in cs[b].anc

(* git rev-list base..head *)
RangeCommits(cs, b, h) == cs[h].anc \ cs[b].anc

(* git merge-base: commits are numbered in the order they are made. *)
MergeBase(cs, a, b) == Max(cs[a].anc \cap cs[b].anc)

(* git diff --name-only --no-renames *)
Names(cs, a, b) == {p \in Paths : cs[a].tree[p] # cs[b].tree[p]}

(* What one commit changes: for a merge, only what differs from every parent (git diff-tree -c). *)
Touched(cs, c) == {p \in Paths : \A i \in DOMAIN cs[c].parents : cs[cs[c].parents[i]].tree[p] # cs[c].tree[p]}

(* git diff -M pairs a deleted file with an added one of similar content, an identical one first; the receipts
   of one repository are similar to each other. *)
Gone(old, new) == {p \in ReceiptPaths : Has(old, p) /\ ~Has(new, p)}

BestPair(old, new, pairs) ==
    IF pairs = {} THEN {}
    ELSE {CHOOSE r \in pairs : (\E x \in pairs : old[x[1]] = new[x[2]]) => old[r[1]] = new[r[2]]}

Renamed(old, new) == BestPair(old, new, Gone(old, new) \X Gone(new, old))

(* The changed paths with their status; of a rename only the new path is listed. *)
Status(old, new, renamed, p) ==
    IF \E r \in renamed : r[2] = p THEN "R"
    ELSE IF ~Has(old, p) THEN "A" ELSE IF ~Has(new, p) THEN "D" ELSE "M"

StatusOf(old, new, renamed) ==
    [p \in {q \in Paths : old[q] # new[q]} \ {r[1] : r \in renamed} |-> Status(old, new, renamed, p)]

RangeFiles(cs, b, h) == StatusOf(cs[b].tree, cs[h].tree, Renamed(cs[b].tree, cs[h].tree))

(* The digest of a diff: status, path and resulting blob of every changed path. *)
Digested(files, t) == [p \in DOMAIN files |-> <<files[p], t[p]>>]

DiffDigest(cs, b, h) == Digested(RangeFiles(cs, b, h), cs[h].tree)
=============================================================================

# A TLA+ model of the Arcana agent system

Arcana is an agent runtime written in Rust, with a set of Python tools beside it
that move its program of record to a new writer and that decide which changes
may land. This directory holds TLA+ specifications of both, the TLC runs that
check them on small instances, and TLAPS proofs of the main properties of the
runtime and of the transition for instances of every size. `PROJECT.json` gives, for each
definition, the source lines it stands for.

## 1. Inventory

### The runtime

**Credential broker** (`crates/credential-broker`). *State*: a policy, a ledger
(quota spent, one entry per idempotency key, the next outcome id), a cache of
responses, the state file, the audit file, one task per connection permit.
*Operations*: accept, authorise (policy, then replay or reserve), audit, call
the provider, cache and persist the answer, reply; start with `load_state`.
*Hard*: two critical sections with the provider call between them; a persist
that fails before or after its rename; kills and power losses anywhere; retries
that arrive while the first request is under way. *Correct when*: a key causes
one provider request and has one outcome, for ever; nothing is sent that is not
reserved and charged durably; the quota holds; every connection is released;
the broker can start on what it wrote itself.

**Capability executor, permission cascade, hooks, audit log**
(`core/src/execution.rs`, `permission/`, `hooks/`). *State*: a latch and an id
counter per executor, the attempts, the cancellation token, the lines of
`audit.log` and how many of them are synced. *Operations*: execute (latch,
cancellation, registry, cascade, pre-tool hooks, decision record, tool,
post-tool hooks, result record), `record_run_event`. *Hard*: attempts of one or several executors interleave on one
file; a layer or a hook rewrites the input between its validation and its use;
cancellation between any two steps; appends that fail, tear a line or lose
their sync. *Correct when*: a tool runs only on the input that was authorised,
under a durable decision; every record pair is closed and tells the truth;
after a failed append the executor refuses further work.

**MCP server** (`mcp/src/server.rs`, `suspend.rs`, `envelope.rs`). *State*: the
pending map of suspended calls under their tokens, and for each call a task with
its own executor and three one-shot channels (announcement, resolution, result).
*Operations*: `tools/call` (spawn, then race the announcement against the
result, then park or answer), `arcana.resume` (take the entry, send the
resolution, wait for the result). *Hard*: two resumes with one token; a client
that drops its request between any two steps of the task; a tool that panics; a
process that dies with calls suspended. *Correct when*: a token is good for one
resolution, a suspended call runs only on what its holder saw or sent, it can be
resolved as long as it waits, and every request is answered.

**Agent loop** (`core/src/agent_loop.rs`, `agent_loop/`). *State*: `RunState`
(turns, retries, pauses, polls, nudges, truncations, refused calls), the key in
force and its fingerprint, the session's cost. *Operations*: ask, recover from
each class of connector error, wait out an attempt in flight, settle a reply,
run a tool, end with one of twelve reasons. *Hard*: an answer that is lost
after it was paid for; a retry that must find the first attempt again by its
key; deadlines and budgets in several units; Ctrl-C at any await. *Correct
when*: a turn is paid for once, the cap is passed by one answer at most, a
claim of completion is backed by work, nothing starts after Ctrl-C, every run
ends.

**Execution boundary** (`execution-boundary/src/process.rs`). *State*: per
child a leader, an anchor and what was forked into the group, the cached final
signal, the observer service and its subscriptions. *Operations*: spawn, arm,
wait, terminate with a grace period, finalize (last signal, two reaps, proof of
disappearance), drop, and drop without a runtime. *Hard*: `select!` drops a
finalization halfway and another begins; group numbers are reused; observation
fails; every cleanup step may fail. *Correct when*: no signal goes to somebody
else's group, Ok means that nothing is left, an exit is reported to the child it
belongs to, and nothing is left behind.

**Supervisor** (`crates/supervisor`). *State*: permits, a cancellation token, a
watching task per child with its deadline, liveness and restart window.
*Operations*: spawn (budget, permit, process, record), the prioritised `select!`
of the task, terminate, finalize, restart with backoff. *Hard*: clocks that
outlive the process they are about; failures between the process and its
record; cancellation during a backoff or before a permit. *Correct when*: no
more children live than there are permits, reports are true, a child is killed
only for what it did itself, the restart rate is bounded, cancellation ends
everything.

*How they interact.* The driver calls the executor once for each tool call and
appends its own events to the same log through the executor's latch. The MCP
server builds an executor per call on a shared log. Tools that run programs use
the boundary; the supervisor is the boundary's second client and keeps a
`BoundaryChild` per restart. Driver, supervisor and hooks share the session's
`CostTracker`. The broker is a process of its own behind a socket.

### The transition (`dev-tools/aup-transition`)

**Cutover window** (`cutover/coordinator.py`, `cutover/backends.py`,
`fault_drill/world.py`). *State*: the journal (observations, intents, receipts,
checkpoints, transitions), and the world the effects change: fence, lease,
writer epoch, the epoch each host acknowledges. *Operations*: step, resume with
the reconciliation of a dangling intent, pause, abort, rollback to the known-good
generation, repeated activation of a host, recovery from the journal.
*Hard*: the process dies between an effect and its receipt, or between a receipt
and its checkpoint; the answer of an applied effect is lost; the lease expires
or the source set changes between the guard and the effect; the ladder is read
once per process. *Correct when*: what is recorded was done and authorised, the
writer is swapped once and not after an abort, a completed cutover is whole,
nothing goes backwards, and no outage that ends leaves the window paused for ever.

**Readiness ladder and its gates** (`cutover/coordinator.py`, `cutover/gates.py`).
*State*: the state file with its history, transition receipts found by the state
they lead to, the evidence index. *Operations*: ensure, advance, rollback, each
a receipt and then the state file; one gate per transition. *Hard*: a crash
between the two files; evidence that changes between the evaluation and the
write; a receipt of an earlier advance found again after a rollback. *Correct
when*: the history is one unbroken walk whose every step was earned.

**Data gate** (`data_gate/consume_data_gate.py`). *State*: what is collected
from the program tree, the artifact it wrote last. *Operations*: collect, two
verifiers, aggregate, mint. *Hard*: it reads the ladder while a transition is
under way, or after one was cut off between its two files. *Correct when*: what
it attests is what the evidence shows, and stays true.

*How they interact.* The window asks the ladder for authorisation; the ladder's
gates read the receipts other tools write, among them the data gate's
attestation; the data gate in turn reads the ladder's state.

### Graph admission (`.github/graph-admission/tools/graph`)

**Graph builder, impact, verifiers** (`build_graph.py`, `impact.py`,
`impact_pair.py`, `verify.py`, `schema_check.py`). *State*: none between runs; a
run reads two revisions of a repository and writes a receipt. *Operations*:
extract nodes and edges, traverse what a change reaches in both revisions,
decide which verifiers an entity owes, run them, aggregate; the gate judges the
document and derives it again. *Hard*: producer and gate are written twice and
must agree; a dependency exists in one revision only; a tool is missing or ends
abnormally; the depth and the edges of the query are a caller's, and stand in the
receipt; a receipt is edited by hand. *Correct when*: every dependent within the
query is named, nothing broken among them is admitted, an honest receipt is
accepted, and an edit of a receipt gains nothing that was not measured.

**Contract differ** (`contract_diff.py`). *Operations*: read a declaration,
compare two, find out what one consumer uses (projection), judge it. *Hard*: a
consumer uses a value by many roads, some of which the projection follows, some
it reports, and some it does not notice. *Correct when*: what it calls compatible
can be substituted, and a consumer it verifies is not broken.

**Change gate and hosted job** (`admit_change.py`, `ci_gate.py`). *State*:
commits, receipts by digest, the evidence ledger, exemptions and signed
decisions, stage evidence, check runs. *Operations*: exempt, exempt-decision,
attach, re-issue, gate, run. *Hard*: the branch, main, the pull request's text
and the check runs move while the job looks at a head and asks GitHub one
question after another; receipts are bound to ranges, and their records come
after the head they measured; two changes that are good each for itself meet on
main; the gate's own bundle is replaced by a change that it judges. *Correct
when*: what breaks wherever it stands never gets to main, the bundle is replaced
only by one its keys signed, what `attach` writes is admissible, and an honest
change is not stuck.

*How they interact.* `verify` asks `impact_pair` what a change reaches, which
asks the builder for two graphs; `contract_diff` is one of the verifiers; the
gate reads the receipts that `verify` wrote and repeats the derivation; the
hosted job collects receipts and evidence and calls the gate.

### The other parts

They are listed in `PROJECT.json` with their status: the interrupt listener, the
knowledge-base cascade, the skill store and interpreter and the broker's
lifecycle script have protocols worth modelling and are in the plan. The prompt budget, the tool-call dialect, the workspace policy
and the scanner are functions on text. Login, usage, models and the remote
connectors are single requests. The drills, the gate oracle and the fixtures are
tests of the parts above.

## 2. Modules

| module | models | companions |
| --- | --- | --- |
| `IdempotentCall` | what the broker promises about a key (abstract) | |
| `Broker` | connection handlers, ledger, files, process | `MCBroker`, `BrokerProofs` |
| `Executor` | attempts, cascade, hooks, audit log, its readers | `MCExecutor`, `ExecutorProofs` |
| `Mcp` | the MCP server's calls and resumes, over `Executor` | `MCMcp`, `ExecutorProofs` |
| `Driver` | one run of the loop, the Model Connector, Ctrl-C | `MCDriver`, `DriverProofs` |
| `Boundary` | process groups, their owners, the exit observer, the kernel's numbers | `MCBoundary`, `BoundaryProofs` |
| `Supervisor` | spawn calls, watching tasks, restarts, permits | `MCSupervisor`, `SupervisorProofs` |
| `Window` | the cutover window and the world it changes | `MCWindow`, `WindowProofs` |
| `Gates`, `DataGate`, `Ladder` | evidence gates; data gate; the ladder over both | `MCLadder`, `LadderProofs` |
| `ContractDiff` | schemas, their differences, the verdict on a consumer | `MCContractDiff` |
| `Builder`, `Impact`, `Verify`, `Recheck` | graph; traversal; producer of receipts; the gate's second derivation | `MCRecheck` |
| `Repo`, `Structural`, `Exemption`, `Records`, `Decision`, `Stage`, `Gate`, `CiGate`, `Admission` | commits and ranges; the split of a change; exemptions; what may follow a receipt; receipts and decisions; stage evidence; the checks; the hosted job; the life of a pull request | `MCAdmission`, `AdmissionProofs` |

Each of the last two chains EXTENDS from left to right; only its last module has
variables, the others are the functions its actions are made of.

**Grain.** A step is what the code does between two points at which another
task can run or the process can die: a critical section of a mutex (the broker),
an access to the latch, counter, token or log (the executor), an await (driver,
boundary, supervisor), a durable write or an effect (window, ladder), a command
(admission). Within a step everything the code does is one action, its saves
included. Where the code tries conditions in an order, the model has
`IF ... ELSE IF`; `CASE` stands only for alternatives that exclude each other.

**Broker.** `authorize` and its persist are one critical section and one action
(`AuthorizeFresh`), `Finish` the second one. `Persist` has the three outcomes
that matter: nothing published, published and synced, and published but not
synced. `disk` is what a restarted process reads; `durable` is the set of files
that a power loss may leave. A key's reservation stays in memory when its
persist failed, as in the code. The Absent file, `load_state`'s checks
(`DurableInvariantsHold`) and the transaction file of a dead process with the
same pid are modelled. Of the audit file the model keeps the charges. Sums are
saturating at `U32Max`. `sent`, `decided` and `told` are history.

**Executor.** An attempt is a record that walks through its executor's `Cascade`
layer by layer. A layer is what it may answer: the schema and contract layers
decide on the input, hooks and operator may rewrite it, the suspend layer waits.
A failed append may have written the line, a part of it, or nothing; a torn
fragment spoils the next line. Executors in several processes share the log and
nothing else. Record ids restart at 1 with every executor.

**Mcp** EXTENDS `Executor`: the attempts are the calls of one server, each on the
executor that `build_executor` made for it, and `TaskStep` is any step of an
attempt outside the suspend layer. At that layer `Announce`, `AnnounceFails` and
`Resolve` take the place of the free choice that `Executor` has there, and end
in the same `TakeAnswer`. A one-shot channel is a value: open, closed, or what
was sent on it. rmcp may drop a handler at its await (`DropCall`, `DropResume`),
which drops what the handler holds and not the task. Nothing cancels a call: its
token is made for it and kept by nobody. A panic of a tool ends its task.

**Driver.** The Model Connector is external and is modelled from
`ConnectorError`'s contract as the code uses it: a running key is refused with a
conflict, a settled key is replayed, and an answer is charged when it settles,
whether or not the caller is still there. A prompt is the number of the history
it was made from; the fingerprint of a request is what `stamp` compares. Time is
counted in pauses. The executor's answers are nondeterministic: denied, not run,
vetoed, failed, succeeded.

**Boundary.** A child has a leader, an anchor and kin, each running, dying
(SIGKILL was sent), a zombie or gone. `run` and its `select!` are the owner's
steps; any of them may be interrupted where the code awaits, resumed as a
termination, or dropped. The observer service polls, and sends what it polled in
a later step. Other programs take and release the numbers that are free. A
process that leaves the group with `setsid` is outside the boundary's promise,
and outside the model.

**Supervisor.** It uses the process group through what `Boundary` shows: an Ok
means that the group is gone (proved), and a child that is dropped or whose
cleanup failed has been sent its last signal (checked by TLC). `biased` is kept:
an arm is taken only when the arms above it are not ready. The clock is a
counter; backoff takes any number of ticks.

**Window.** The journal is what recovery and resume read of it. `step` is the
observation, the guard with the intent, one action per effect, the judgement,
the receipt, the checkpoint and the transition, so that a crash may fall between
any two; `resume` reads each key back, issues what is absent and reads again.
`applied` counts what the server did for a key, `AnswerLost` is an effect whose
answer the network swallowed. Of the lease only its validity is kept.
`ackedEpoch` is what each host acknowledges. The operator's commands are actions
of any mode and phase, as in the code: `ReactivateHost` makes a host acknowledge
an epoch that is not below the writer's, before the commit too;
`RollbackToKnownGood`, where the known-good generation is corrupt, pauses whatever
the window was, an aborted one included, and otherwise changes nothing the model
keeps.

**Ladder, Gates, DataGate.** An evidence index maps a receipt class to its
documents in the order of capture; of a document only what a requirement reads
is kept. Every requirement is PASS, BLOCK or NOT_MEASURED and a gate passes only
on PASS. The data gate's collection is a record of what the program tree holds.
`Consume` runs beside the ladder, and reads its state file wherever a transition
stands or was cut off. `IndexCounts` says which answers about conflicts of the
index plane a collector may give: the one that is committed gives none, the
fixtures of `selftest` count them, and the run has both (observation 11).

**ContractDiff.** An expression is a base call with its fields, literals or
members, and a chain of calls; a declaration is such an expression, of the Zod
family or a class whose decorators are applied in their order and whose parents
may be mapped types. `SchemaOf` reads the schema. `Conforms`, the reference, asks
of values which of them a schema admits. A consumer is the set of places where it
meets the value, each with a key: it reads a member, sends a literal, destructures,
spreads, hands the value on, returns it, reads it under another name.
`Projection` says which of these it follows, which it reports as dynamic, and
which it does not notice (`UNNOTICED`).

**Builder, Impact, Verify, Recheck.** A file is a version and the facts the
extractors read out of its text (imports, exports, routes, contracts, ...); the
parsers themselves are outside. What a tool answers is a function of these
facts: `TypeErrors` is what `tsc` says of a file. An option of a run of the
producer says which tools are missing or end abnormally, what canaries saw, how
deep the query goes and whether a generated explanation is bound. The receipt
carries the depth and the edge types of its query, and `Rederived` uses these.
`Recheck` composes author, producer, a hand that edits the receipt (raises, drops
or excludes verdicts, forgets obligations, trims rows, claims probes, shortens
the query), and the gate.

**Repo to Admission.** A tree has a dozen paths, each the representative of a
kind: a source, a generated file, a lock file, the bundle, the workflow, its
caller, the declaration, a receipt, its archive, the ledger. Whether a tree is
broken is a relation of two paths: `Clashes` holds the pairs of a source and a
lock file with which the source's dependents fail. A verifier finds out when it
measures a head that has such a pair; the gate takes the rows of the receipt as
they are, re-derives the rest, and runs no verifier. A digest is the content it is a
digest of. A world `w` is what one command sees: commits, base, head, receipts,
the event, GitHub's answers. `Admission` lets authors, main, reviewers, other
checks and the hosted job act on it. The job keeps the checkout and the event it
started with (`job`), asks GitHub one question in each `AskGithub`, and judges in
`FinishCi` with the answers it got then. `attach` looks at the ledger it is about
to write twice, as in the code, and writes only if the gate would take it.

## 3. Runs

| run | question | instance | distinct states |
| --- | --- | --- | --- |
| `broker_ledger` | ledger, files and policy over any sequence of requests, failures, kills, power losses and restarts with two policy generations | 1 connection, 2 keys, 2 fingerprints (one expires, at different costs), 2 pids | 2,228,512 |
| `broker_concurrent` | two handlers race at the capacity limit; refinement of `IdempotentCall`; every connection is released | 2 connections, 2 keys, 2 fingerprints, capacity 1, fairness | 272,616 |
| `executor` | two attempts and the driver's events on one executor, whose hooks rewrite the input in front of a rule that denies one and veto behind it | 2 attempts, 1 of them cancelled, 3 inputs, 1 hook, 1 event | 1,341,254 |
| `mcp` | two calls that suspend or not, and resumes with any token and any resolution | 2 calls, 2 resumes, 2 inputs, fairness | 775,856 |
| `driver` | all paths of a run without an exact first prompt | 3 turns, cap 1, costs 0 and 1, 2 edge retries, 1 connector retry, 2 calls, fairness | 1,796,494 |
| `boundary` | two children that fork, end, are interrupted and dropped, and other programs | 2 children, 1 number, fairness | 151,200 |
| `supervisor` | two calls compete for a permit through several restart windows | 2 calls, 1 permit, 1 restart per window, clock to 4, fairness | 229,164 |
| `window` | a whole cutover by a coordinator that dies and resumes in a failing world | 2 hosts, 3 faults, crashes or repeated activations, ladder from 7, fairness | 1,069,562 |
| `ladder` | receipts in any order, transitions, rollbacks, crashes and consumptions | thresholds of 2, 2 digests, 1 rollback, 2 changes of the sources, 9 groups of evidence | 1,368,773 |
| `contracts` | every contract and its edited successor against the values both admit | 2 edits, 14 roots, 18 calls, 9 decorators, 12 consumers | 267,649 |
| `verify` | every change of up to two files, its receipt, an edited receipt, and the gate | 3 repositories, 8 options of the producer | 111,750 |
| `admission` | the life of pull requests while main, reviews and check runs move | 13 repositories, 2 check runs | 318,159 |

**Why these bounds are enough to be interesting.** The broker needs two keys for
a conflict of quota, one more key than its capacity to meet it, and two
connections for a retry that overtakes its first attempt. Two attempts on one
executor race for its latch and its ids; the two calls of `mcp` share a log, and
two resumes are one more than a token admits. Three turns let
a turn be lost, another one be answered, and the limit be met; two edge retries
allow a cut, a wait and another cut. One number for two children makes every
reuse happen; the capacity of the observer service (256 in the code) therefore
does not bind in this run, where one subscription exists at a time. A clock of
four and a window of one give a child three windows, which is what `RestartRate`
needs. Two hosts let one acknowledge and the other fail; three faults are an
outage, the crash that meets it, and one more during the recovery. The ladder's
thresholds (10, 2, 72 and 24 in the code) are scaled to two, the smallest number
at which "consecutive" and "enough" differ from "one"; a group of evidence is
what one gate reads, the other gates being satisfied from the start. Two edits
are needed for a field that changes its kind and its limits. The three
repositories of `verify` have a chain of three files, so that the depth limit
and an edge present in one revision only both occur; the eight options query to
depth 3, 1, 0 and without a limit, so that dependents lie within and past it, with
all tools, none, canaries, a verifier that crashes, a compiler that aborts or
fails without a diagnostic, a build that is down, and native patches that fail.
Each repository of `admission` asks one question: a feature under the enforced
ledger, changes that are good where they are made and clash where they meet, a
broken readiness receipt, receipts over parts of a branch (with a source that
breaks once, or that is broken, repaired and broken again), a refresh of the bundle, an amendment of the declaration, the archive of
a spent receipt, finished-stage evidence, the hosted source route, an automated
author with a green and with a red job, and signed decisions. In `executor` and
`mcp` a state in which no process is left is checked and not counted, since
nothing follows it; in `executor`, what follows the cancellation of both attempts,
or of one beside a line of the driver's, is not explored (the theorems of
`ExecutorProofs` have no such bound). Symmetry is used for connections, keys and attempts only in
runs without liveness.

**Deadlock** is checked for the broker and the boundary, which never stop. A
run of the executor, a server that died, the driver, the supervisor's finite set
of calls, a window, and a bounded number of edits, receipts or changes do end.

**Fairness.** A task that is ready is polled by the runtime: weak fairness of a
handler's, driver's or task's next step. Each await that is assumed to end has a
bound in the code (the exception: a tool of an MCP call is assumed to return or
to panic): `REQUEST_DEADLINE` in the broker, the attempt timeouts and the pause and wait budgets in the driver, the reap and probe
timeouts in the boundary, the grace period and backoff in the supervisor. Not
fair are callers, the operator, the Model Connector (its answers may never
come), a child's own exit, an MCP client's resumes and disconnections, crashes
and restarts. The kernel is assumed to end a process that was sent SIGKILL, and the
observer's thread to go round its loop. For the window, a live coordinator goes
on, a dead one is started again (`GoesOn`), and an outage of services, network
or hosts ends (`Heal`), which is what `scenarios.py` lets happen; nobody has to
abort, and nothing makes the ladder advance.

### What the properties say

Each is stated in words at its definition; the hazards it answers are in
`PROJECT.json`. For each property of each run a mutant of a mapped definition
(next to the original) shows a plausible mistake in the code that the run would
catch.

*Broker*: `StateFilesSound` (every file a crash leaves is within its quota and
one `load_state` accepts), `ChargedEntryKept`, `LedgerAndAuditAgree` (reserved
and charged before sent, no charge the durable ledger does not hold, a place for
every response), `ImplementsIdempotentCall`, `EveryConnectionReleased`.
*Executor*: `RecordsTellTheTruth` (pairs closed, outcomes true, ids distinct),
`NoEntryAfterFailure`, `Governed` (run only on what was authorised, recorded and
not denied by the rules). *Mcp*: `SuspensionSound` (resolved once, by the holder
of the token, on the input that was seen or sent, answered to that holder,
resolvable while it waits), `EveryRequestAnswered`.
*Driver*: `ChargesAccounted` (one charge per turn, the cap passed by one answer
at most, a known cost), `CompletedMeansWork`, `NothingStartsAfterCancel`,
`Termination`. *Boundary*: `NothingCrossesOver` (no signal, no observation),
`OkMeansGone`, `NothingStranded`, `ObserversReleased`. *Supervisor*:
`LiveWithinPermits`, `ReportsAreEarned`, `RestartRate`, `CancelEnds`. *Window*:
`PhasesEarned`, `CutoverIsWhole`, `EffectsAuthorised`, `NeverBackwards`,
`ComesToRest`. `NeverBackwards` says of an abort what the code keeps: it comes
before the commit is recorded, only a refused rollback leads out of it, and the
writer is never swapped afterwards. *Ladder*: `HistoryIsAWalk`,
`TransitionsEarned` (counts, hours, drills and the checklist of each transition,
stated without the code's aggregation), `AttestationStands` (a ref of the data
gate is about a state the ladder is in and stays in, and about evidence that had
what D06 to D12 ask for; there is no receipt into SWITCHING without an
attestation). *Contracts*: `CompatibleIsSubstitutable`, `VerifiedConsumerSafe`
(a consumer that the diff verifies reads and writes what the new schema allows,
by every road the projection notices; those it does not notice are observation
13). *Verify*: `DependentsReached` and `NoBrokenConsumerAdmitted` (as far as the
depth of the receipt goes), `HonestReceiptAccepted` (with its two named
exceptions), `EditedReceiptRefused` (what an edited receipt that passes still
guarantees: of what its own query selects, each mandatory verifier ran and
verified; and where query and rows were left alone, everything was verified).
*Admission*: `MainStaysGood` (the source and the lock file on main have each
stood in an unbroken tree, which is not to say in one together: observation 19),
`SelfUpdateTrusted`, `AttachIsAdmissible`, `HonestChangeAdmitted` (with all its
premises at the definition; with an enforced ledger the record is the one that
`attach` agrees to write, so that it also says that `attach` agrees).

## 4. Proofs

`tlapm` checks the theorems below for every value of the constants that satisfies
the named assumptions of each module: any number of connections, keys, attempts,
executors, children, numbers, calls or hosts, and any limits.

**Broker** (`BrokerProofs`; assumptions on outcomes, policies, bounds, `None`, and
`KeysAssumption`: there are finitely many keys, since one has at most 128
characters of a fixed alphabet, `policy.rs:128`).
`IInv` adds five facts to the properties: a restart reads one of
the files that a power loss may leave, and handlers run only in a living process
(`FilesInv`); memory and all those files agree on the entry of a key that was
sent or decided, and its charge is audited (`SettledInv`); a fresh lease is its
key's entry in memory and in every file, and is not decided, nor sent before its
own step sends it (`LeaseInv`); a key has one such lease (`ExclusiveInv`); and
every copy of a response is the one decided (`CopiesInv`). Without them
at-most-once is not inductive: nothing would tell the step that sends that no
other handler, and no earlier process, has sent. `AtMostOnceCorrect`,
`ReservedBeforeSentCorrect`, `EntryKeptCorrect` and the refinement
`RefinementCorrect` follow, with `TypeCorrect` first.

`BooksInv` adds what the ledger's figures say, of memory and of every file a
crash may leave: written under one policy, as many entries as outcome ids were
given out, the ids all different, the charges adding up to `quota_spent`, every
cached response that of an entry (`SoundInv`); a charge in the audit file has
one entry, the same in memory and in all files (`ChargeInv`); a response under
way carries its lease's id (`ResponseInv`). The sum over the ledger is a fold
over the keys; the section *Sums over the keys* shows that it is the unique
function that adds one key at a time, so that a reservation adds its charge to
it. `AgreementCorrect`, `QuotaCorrect` and `StateFilesCorrect` follow; that a
call finds room for its response counts the keys that are cached against those
that are reserved. `StateFilesCorrect` has a hypothesis: no policy sets its
quota to `u32::MAX`, where the saturating sum hides an overrun (observation 5).

**Executor** (`ExecutorProofs`). `IInv` ties each attempt's program counter to
the lines it has in the log (none, a decision, a decision and a result), to
their ids below the executor's counter and to the synced prefix.
`AttributionCorrect`, `PairsCorrect`, `OutcomeCorrect`, `IdsCorrect`,
`LatchCorrect` follow, and `RecordsCorrect` joins the three about records. For
the rules a second invariant is added (`Cleared`): past a rule layer that nothing
in front of it bypasses and nothing behind it overwrites, an attempt holds an
input the rules do not deny. `RulesCorrect` follows from both, and
`GovernedCorrect` joins it with the attribution.

**MCP server** (also in `ExecutorProofs`). Every step of the server is
a step of the executor or leaves the attempts alone (`ExecutorSteps`), so `IInv`
carries over and with it `ServerGoverned`. `SuspendInv` follows a token: what
the channel of a suspended call holds at each position of its handler and its
task, that an answer in it was sent by the one resume that took the token out
of the map, with that resume's resolution, and that a reply names the input the
tool ran on. `SuspensionCorrect` and `ServerTypeCorrect` follow.

**Driver** (`DriverProofs`). The theorems about money, `OneChargeCorrect`,
`CostCorrect`, `CapCorrect`, `QuestionsCorrect` and their conjunction
`ChargesCorrect`, are stated under `~FirstPrompt`: with an exact first prompt
the invariant behind them, and `OneChargePerTurn` itself, fail (observation 4).
`KeyInv` says that every key but the one in force was settled in an earlier
turn, that a re-dispatch carries the fingerprint of the key in force, that a
charge the loop has not seen can only be that key's, and at which positions of
the loop there is one. `CompletedCorrect`, `InterruptCorrect` and `TypeCorrect`
hold without that condition.

**Boundary** (`BoundaryProofs`; `NamesAssumption`). `SignalInv` adds that
the leader, whose pid is the group's number, is not reaped before the final
signal was sent, and that no finalization begins before it: `SignalsCorrect`.
`OkInv` adds what has been reaped at each step of a finalization: `OkCorrect`.
`ObserverInv` follows a subscription and the polled exit through the reuse of a
number: `ObservationsCorrect`. `CrossingCorrect` joins the first and the last.

**Supervisor** (`SupervisorProofs`; `CallsAssumption`, `LimitsAssumption`).
Every live child belongs to a task that holds a permit (`PermitsCorrect`); a
report is made only after an Ok (`ReportsCorrect`); each clock that is running is
at least as late as the process it is about (`TimeoutsCorrect`); `EarnedCorrect`
joins the two. For `RateCorrect` the invariant places each restart in its
window: windows follow one another, hold at most `MaxRestarts` each and are
longer than `Window`, so an interval of one window's length meets at most two of
them.

**Window** (`WindowProofs`; `HostsAssumption`, `BoundsAssumption`). `Facts` adds
to the properties what a crash must not lose: a dangling intent is that of the
next phase, observed and authorised (`IntentInv`); a process gets through the
keys of that phase and of no other (`TodoInv`); each of them was applied or is
still to come, unless an answer was unknown or a rejection is known (`DoneInv`);
the server has done nothing beyond the next phase, and its epoch,
acknowledgements and fence are what it has done (`AuthorityInv`); nothing is
under way after an abort (`AbortInv`). A host that repeats its activation after
the commit acknowledges no epoch below the writer's, so it takes nothing from what
the phase HOSTS_ACTIVATING did (`ActivatedUnderEpoch`). `view <= ladder` is why a ladder
that is read once is enough: it only rises while the window is open.
`EarnedCorrect`, `AuthorisedCorrect` and `WholeCorrect` follow. For the action
property `BackwardsCorrect` a second invariant follows an aborted window
(`AbortedInv`): a rollback is refused only where the known-good generation is
corrupt, nothing repairs it, and with it no phase is begun; all that a resumed
window can still do is reconcile the intent that dangled when it was aborted, and
a commit among these finds the lease released (`ApplyLease`, `EpochMoves`).

**Ladder** (`LadderProofs`; `GatesAssumption`, in which a parity gate wants at
least two receipts, the literal of `gates.py:205`, and `LadderAssumption`).
`LadderInv` adds that a transition under way has its receipt on file, leads out
of the recorded state and rests on documents that earned it (`RunInv`), and that
a history has 1 + state + 2n entries after n rollbacks (`FileInv`): the state
file is written in a later step than the receipt, and a process may die between
them. `WalkCorrect` follows, and `LadderTypeCorrect`. `EarnedCorrect` rests on
`PassIsEarned`, that a gate which passes has what the decision asks for, shown
gate by gate (`Gate1` to `PresenceGates`) over the documents of `EvidenceOf` the
transition; the hard part is the first gate. `ShadowRuns` is a fold that cuts the projections
into runs of equal digests, and `TransitionsEarned` speaks of blocks of
positions: `RunsDescribe` and `LongestIsLongest` show that the two agree for
every sequence of documents. `AttestationCorrect` rests on `GateStands`, that a
verifier whose checks all pass found the state and the evidence the property
names, and on the ladder's order of writing: the state file, which A07 reads, is
written last, and a rollback lowers it from SHADOW_PROJECTION only.

**Admission** (`AdmissionProofs`; `SettingsAssumption`, and `ClashesAssumption`:
only a source that is there clashes). The theorems hold for any
repositories, edits, exemptions and opinions, and for any number of commits,
receipts, check runs and landed changes, and for any relation `Clashes` of sources
and lock files. The assumption says what a repository starts with (an unbroken
tree, its bundle, no receipt), that other authors leave the workflow alone, that
receipts and ledger rows come from the tools (what a hand may do to a receipt is
the subject of `Recheck`), that a declaration names neither source, lock file nor
bundle as an artefact, and that only the program's own repository, which holds the
ledger, enforces it. A change of others lands where it leaves main unbroken at
that moment (`MainMoves`).

`Inv` has to say where a branch stands, since every judgement is about a range
that was looked at earlier and lands later. `GraphInv` and `RecordInv` are
ancestry, trees and receipts: a receipt lists what its range changes, and its rows
are those measured at its head (`RowsOk`), since the gate does not measure again.
`BranchOk`: a head left main at a commit of main's own line, below which both have the same
history, and a parent of a commit of the branch is the branch's commit before it
or main as it was when it was merged in. `ChecksInv`: in a passed head the source
and the lock file have each stood in an unbroken tree of its history (`Sound`),
and it brings no bundle that is not trusted relative to the commit where it left
main (`PassedOk`). `JobInv`: what a job that is under way has read of main
gives the same fork as main has now. `LineInv` is the property, along main's line.
Without the fork, a check that passed before main moved would say nothing about
the merge.

- `MainStaysGoodCorrect`. A receipt that the gate takes has no failed row, and no
  exemption or decision covers one (`CleanReceipt`, `NoFailedSource`); so the tree
  of its head is unbroken if it lists the source or the lock file. Behind that head
  a path may only change in commits that C06 reads: `Walk` goes back through them
  by least counterexample, so what the path holds at the head it held at a
  receipt's head, or main had it (`PathPassed`, `SourcePassed`). A merge takes each
  path from one side, and on both sides it has stood in an unbroken tree. That is
  all that can be said: that it stood there *with* the other path is lost in the
  merge. An automated author's receipt is written by the gate itself over the whole
  range, its rows lowered to what the required job concluded and never raised, so
  the head it passes is unbroken (`AutomatedUnbroken`).
- `SelfUpdateCorrect`. A changed bundle is unmeasured and needs the structural
  exemption, whose recheck repeats the signature, the battery and the workflow
  over the range of the head (`BundlePassed`); a merge takes main's bundle or the
  head's, and the two agree with what was checked because the fork does.
- `AttachCorrect`. The anchor of the ledger does not move when the commit of the
  attachment is added (`AnchorKept`), every row that is new since the anchor is
  that of a receipt under judgement, also once the delivery was recorded
  (`DeliveredRecord`), and a ledger that differs
  from that of the base and of every receipt's head was written behind those heads
  (`LedgerTrails`): the commit either is listed by a receipt or trails all of
  them as a record.
- `HonestChangeCorrect`. `attach` agrees, because both of its looks at the ledger
  see what the job will see (`FreshRecord`, `RecordedBranch`). The world in which the receipt was measured and the one
  the job looks at differ in the receipt only (`Same`), so every measurement comes
  out the same when the gate repeats it (`RecheckedAgain`); with the receipt in the
  tree, what the range lists besides is its own path (`FiledLists`) and what is
  behind its head are records (`NothingBehind`).

**Induction over data.** The library's induction theorems take an operator and
cannot be used here. Where a proof needs one (the sum over the ledger's keys, the
scan of the projections) it goes by least counterexample instead: the sizes or
lengths at which the claim fails form a set of naturals, and one that is not
empty has a least element (`LeastNatural`, from the well-foundedness of `<`).

**Only model-checked.** All liveness (`EveryConnectionReleased`,
`EveryRequestAnswered`, `Termination`, `NothingStranded`, `ObserversReleased`,
`CancelEnds`, `ComesToRest`), which is out of the prover's reach. The properties
of `ContractDiff` and `Recheck`: schemas, exports and the symbols of a file are
recursive operators, which the prover cannot take. Every other invariant and
action property of a run is stated by a theorem.

## 5. Observations

All runs pass; what was found on the way where the code, its comments or its
documents disagree is listed here. Each of the first group is reproduced by
adding the property named to the cfg of the module's run, or by the setting
named.

*The runtime.*

1. *Replay after a failed sync* (`broker_runtime.rs:315`, `ReplayIsDurable`). The
   response is put into the in-memory cache before it is persisted and stays
   there when that fails, so the next retry is answered with `replayed`; the
   comment at 317-319 says "do not claim a replayable response when the second
   sync fails". No second provider call results.
2. *Writing after a failed append* (`execution.rs:109-115`,
   `NothingAfterFailure`). `record_run_event` looks at the latch and does not set
   it when its own append fails.
3. *Pairing by invocation id* (`mcp/src/server.rs:123`, `PairingByIdSound`). Ids
   are unique within an executor only, two executors number from 1 on one log,
   and the learning trace may pair one attempt's decision with another's result
   (added to `Mcp.cfg`).
4. *Paying twice* (`agent_loop.rs:1963`, `FirstPrompt = TRUE`). With an exact
   first prompt a re-dispatch of the first turn is composed differently, gets a
   new key, and may be charged beside the attempt it repeats.
5. `RestartPolicy` calls its window sliding, where the code counts in windows
   that follow one another, so that around a boundary twice the number is
   possible; at a quota of exactly `u32::MAX` the saturating sum no longer shows
   an overrun; the wall-clock deadline starts again with every restart;
   `ChildHandle::pid` keeps the first process's number.

*The window* (`EffectOnce` and `CommitRevalidated` are the drill's rules O03 and
O16, and fail).

6. After a crash between checkpoint and transition the phase is entered again
   and its effects are issued again: O03 asks for one application. `cas_commit`
   refuses the second commit, which is why `CutoverIsWhole` holds.
7. The source set may change between the guard and the CAS; O16 asks for a
   revalidation. Likewise a reconciliation issues the effect of FINAL_SYNC
   without looking at the lease (O14), and a host may die between QUIESCING's
   guard and its effect.
8. `abort` looks at the recorded phase: after a CAS that was applied and whose
   answer was lost it is accepted, with the writer swapped. It may die between
   the fence and the lease.
9. `rollback_to_known_good` (834-840) asks for no state and `_pause` (644-653)
   returns early for PAUSED_SAFE only: a rollback that is refused takes an ABORTED
   window to PAUSED_SAFE, from where it may be resumed. `resume` then reconciles
   an intent that dangled when the window was aborted: one further phase may be
   recorded, the fence raised again among its effects, or WRITE_COMMITTED where
   the CAS had been applied before the abort; the writer is not swapped.
   `reactivate_host` (850-863) has no state either: before the commit it makes a
   host acknowledge the target epoch, so that "acknowledged" does not mean
   "committed"; and recovery loads rejected acknowledgements.
   `GATE_NOT_SATISFIED` is never cleared by `_pause_cleared`, also when the ladder
   has advanced meanwhile.

*The ladder and the data gate.*

10. A receipt is found by the state it leads to (`coordinator.py:312`): after a
    rollback the second advance reuses the first one's receipt and does not
    evaluate the gate, against the docstring at 381-385 (`ReceiptRechecks`).
11. `collect_evidence` records no conflict count for the index plane, so D10 is
    always NOT_MEASURED and the tool as committed cannot mint the attestation into
    SWITCHING, where the module's docstring (13-15) and the fixtures of `selftest`
    (1345, 1435-1441), which carry a count, have a gate that attests
    (`IndexCounts = {"none"}` is the tool as committed). A06's TRIGGERED is never produced. A08 asks for
    `FenceProof/v1` where `gates.py` knows `FenceProofReceipt/v1`; E5.1's receipt
    class matches no schema.
12. `gates.py:290-291` asks for W consecutive hourly fence observations, and
    `_fence_observation_window` counts them wherever they stand
    (`TransitionsEarned` says what is counted); bake observations are counted
    too, and the drills of the cutover pass on existence; the longest stable run
    of all time is taken, not the last.

*Contract differ.*

13. Once the kinds differ no limits are compared, and an enumeration of texts
    that becomes a number counts as widening (`BlindSpot`, left out of both
    properties). Members of an intersection and an optional top level are never
    compared, and are reported as `NON_SEMANTIC_TEXT`, which the docstring
    reserves for equal schemas. The projection notices neither that a consumer
    returns the value nor that it reads it under another name
    (`contract_diff.py:1838-1846`, `1888-1889`), so `edge_verdict` (2165-2171)
    verifies a consumer that reads a removed key there: `UNNOTICED`, left out of
    `VerifiedConsumerSafe`. `deepPartial` leaves the fields of nested objects
    required.

*Verify.*

14. The comment at `build_graph.py:2025` says of a receipt "It keeps its node";
    an archived one gets none. A node first settled at the depth limit is not
    expanded. Producer and gate disagree on a unit that lost its last TypeScript
    file (`LostTypeScript`). Receipts without revision graphs are bound only to
    what is new at the head. `aggregate` says that an empty list of verdicts
    pauses, `check_receipt` accepts it as admitted outside a fallback. The gate
    derives with the depth and the edge types that stand in the receipt
    (`impact_pair.py:669-678`), which are the producer's `--max-depth` or a later
    edit: at depth 0, or with `edge_types` empty, a receipt passes with the
    dependents missing. The empty impact is then explained by the generated draft,
    which `schema_check` takes, where a bound explanation is refused as soon as
    external reverse edges exist. The ids of a verdict may be trimmed to drop rows
    that are not mandatory, or a second row of one verifier. At depth 0, under a
    global fallback over the manifest of a unit, the honest receipt is refused
    (`SplitFallback`).

*Change gate.*

15. A receipt that is moved *and* rewritten is one rename path in
    `git diff -M` (`admit_change.py:160`), so the byte comparison of the archive
    case has nothing to compare (2017-2020, 2161), against its docstring
    (1996-2001).
16. On "refreshed" `attach` works on a copy of the row (4721-4725) and the
    delivery it then records (4605) never reaches the ledger; where delivery is
    enforced C13 pauses for ever.
17. C06 compares path names. Of two receipts over parts of a branch, one may list
    the source after an early commit and the other start behind a later one, so
    that every path is listed and the bytes that land were measured by neither.
    `gaps` holds the heads that were passed on a receipt that starts within a
    branch, and `MainStaysGood` excepts what descends from them. On the two stage
    routes the evidence excuses the unmeasured row of a changed bundle, and the
    signature and the battery of `_evaluate_self_update` are not asked for:
    `SelfUpdateTrusted` is about the route of receipts.
18. Under ledger enforcement a refresh of the bundle in the program's repository
    cannot carry its ledger commit. Signers of a decision are looked up at the
    receipt's base when it is issued and at the gate's when it is verified.
    `exempt` and `exempt-decision` rewrite a receipt whose digest the ledger
    already holds. A declaration at the head is honoured as a bootstrap where a
    comment says "READ AT BASE". The job of a documentation-only change succeeds
    also when its stage was refused. Exemptions without a signature pass while
    the enforcement of decisions is off.
19. The gate judges the range from the merge base to the head, and the merge goes
    into a main that has moved on: two changes that are good each for itself may
    clash on main, and nothing of the two receipts is wrong. The same
    happens within a branch: a merge of main behind the receipt is not an edit
    (`diff-tree -c` shows what differs from all parents), and a path set back to
    the base's bytes behind the receipt is not among the paths of the range
    (`admit_change.py:3341-3343`), so the combination that lands was measured by
    nobody. C18 (3861-3899) derives obligations and selections again and runs no
    verifier. The setting `Meeting` has these cases (`~Clash(cs[main].tree)` fails).

## 6. Plan

Done: the runtime's six concurrent parts, the transition, graph admission.
Left, in this order:

1. `Lifecycle`: the lock and the exchange of generations of
   `packaging/broker-lifecycle.sh`, with a kill between any two commands; the
   ledger of a generation is never run by another.
2. Small protocols with one hazard each: the interrupt listener, which copies a
   turn's token and cancels it after the lock is released (`interrupt.rs:284`);
   the skill store, whose cache file is written in place (`skills/store.rs:375`);
   the knowledge-base cache, which keeps a body under the hash of the search hit
   that led to it (`kb/cascade.rs:425`).
3. Pure parts as operators with reference definitions: the prompt budget and
   its elision, rule precedence.
4. Further proofs: an abstract specification of the executor's record pairs and
   of the boundary's promise to the supervisor, with their refinements; the
   properties of `Recheck`, whose recursive operators would first have to become
   recursive functions.

## 7. What is not modelled

Wording, formats and encodings; the quarantine's and scanner's analysis of
bytes; path and command analysis; sizes in UTF-16 units (the driver keeps
whether a request fits); real time (an order of deadlines and counters stands
for it); torn audit lines of the broker; macOS's kqueue observer beyond its
failure; the supervisor's reason strings and length of backoff. Of the
transition: lanes, break-glass requests, the barrier document, the activation
ledger, the rebuild, and the drills, which are tests. Of graph admission: the
parsers of TypeScript, shell, Python and SQL; the cache of graphs; the
authenticated root-tsconfig branch of `v_type_check` (`verify.py` 2030-2056),
the arms of the fallback suite and the derivation of an absent suite,
obligations of selected dependencies, the compatibility of caller graphs and the
origin of an association; the checks of the gate that compare documents with
each other (C02, C04, C07, C10, C14, C15, C17, C19, C20); signatures, which are
the set of keys that made them; readiness receipts beyond what
`check_readiness_receipts` concludes; the digests and unlisted files of a bundle,
and its self-test battery, beyond their outcome; branch protection and the list of
a workflow's jobs, which GitHub answers the same at all times, and the authority
of the tools that a stage ran with; the provisioning of hosts; the full-suite runner
and the fixtures. A hazard that no property covers has a note in `PROJECT.json`.

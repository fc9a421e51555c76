------------------------------ MODULE Executor ------------------------------
(***************************************************************************)
(* The capability executor (crates/core/src/execution.rs): the one path on *)
(* which a tool runs.  An attempt is validated, walks the permission       *)
(* cascade, passes the veto hooks, is written to the audit log, runs the   *)
(* tool and is closed in the audit log.                                    *)
(*                                                                         *)
(* Attempts run concurrently, on one executor or on several that append to *)
(* the same audit.log (the MCP server builds an executor per call, every   *)
(* CLI process builds its own).  A step is what an attempt does between    *)
(* two accesses to state it shares: the latch, the id counter, the         *)
(* cancellation token, the log.                                            *)
(***************************************************************************)
EXTENDS Integers, FiniteSets, Sequences

CONSTANTS
  Attempts,    \* calls of CapabilityExecutor::execute
  Executors,   \* CapabilityExecutor instances, in one process or in several
  Home,        \* the executor of each attempt
  Tools,       \* tool names a caller may ask for
  Registry,    \* the registered ones
  Admitted,    \* the ones the bound contract admits
  Inputs,      \* tool inputs
  Valid,       \* inputs the tool's schema accepts
  RuleAllow,   \* tool and input pairs the operator's rules allow
  RuleDeny,    \* tool and input pairs the operator's rules deny
  Cascade,     \* the names of each executor's permission layers, in order
  Hooks,       \* the number of hooks in each executor's chain
  MaxEvents,   \* bound on the lines after which no run event is written
  None         \* no input, no tool

LayerNames ==
  {"schema", "contract-allowlist", "hook_bridge", "rule", "interactive", "suspend", "mcp_proceed"}

ASSUME ExecutorsAssumption ==
  /\ Home \in [Attempts -> Executors]
  /\ Attempts \cap Executors = {}

ASSUME ToolsAssumption ==
  /\ Registry \subseteq Tools
  /\ Admitted \subseteq Tools
  /\ None \notin Tools

ASSUME InputsAssumption ==
  /\ Valid \subseteq Inputs
  /\ None \notin Inputs
  /\ RuleAllow \subseteq Tools \X Inputs
  /\ RuleDeny \subseteq Tools \X Inputs

ASSUME CascadeAssumption == Cascade \in [Executors -> Seq(LayerNames)]

ASSUME BoundsAssumption == Hooks \in [Executors -> Nat] /\ MaxEvents \in Nat

VARIABLES
  latched,     \* audit_latched of each executor
  next,        \* next_invocation_id of each executor
  loop,        \* where each executor's agent loop stands in record_run_event
  att,         \* the attempts
  cancelled,   \* attempts whose cancellation token is cancelled
  dead,        \* executors whose process has died
  log,         \* the lines of audit.log
  synced,      \* how many of them a power loss cannot take back
  torn,        \* the file ends in a fragment without a newline
  authorised,  \* history: the input the cascade authorised
  ran,         \* history: the input the tool was run on
  failed       \* history: executors an append has failed on

file    == <<log, synced, torn>>
history == <<authorised, ran>>
vars    == <<latched, next, loop, att, cancelled, dead, file, history, failed>>

-----------------------------------------------------------------------------
(***************************************************************************)
(* The audit log.                                                          *)
(***************************************************************************)

\* A decision, result or run record. `by` is history: the file does not say who wrote it.
Line(phase, by, id, input, verdict) ==
  [phase |-> phase, by |-> by, id |-> id, input |-> input, verdict |-> verdict,
   readable |-> ~torn]

\* AuditLog::append returned Ok: the line is in the file and the file is synced. A
\* fragment left by an earlier append becomes part of this line and makes it unreadable.
AppendOk(line) ==
  /\ log' = Append(log, line)
  /\ synced' = Len(log) + 1
  /\ torn' = FALSE

\* AuditLog::append returned Err: the whole line was written and the sync failed, a part
\* of it was written, or nothing was.
AppendErr(line) ==
  /\ UNCHANGED synced
  /\ \/ log' = Append(log, line) /\ torn' = FALSE
     \/ UNCHANGED log /\ torn' = TRUE
     \/ UNCHANGED <<log, torn>>

-----------------------------------------------------------------------------
(***************************************************************************)
(* The permission cascade: what a layer may answer.                        *)
(***************************************************************************)

Answer(kind, input) == [kind |-> kind, input |-> input]

\* SchemaLayer::evaluate
SchemaAnswers(tool, input) ==
  {IF tool \in Registry /\ input \in Valid THEN Answer("defer", input) ELSE Answer("deny", input)}

\* ContractAllowlistLayer::evaluate
ContractAnswers(tool, input) ==
  {IF tool \in Admitted THEN Answer("defer", input) ELSE Answer("deny", input)}

\* HookBridgeLayer::evaluate: every hook of its chain sees the token before it runs, an
\* empty chain does not look.
HookBridgeAnswers(a, input) ==
  IF a \in cancelled
    THEN {Answer("defer", input), Answer("deny", input)}
    ELSE {Answer("defer", input), Answer("deny", input)}
           \cup {Answer("replace", v) : v \in Inputs \ {input}}

\* RuleLayer::evaluate: a rule that denies wins over one that allows.
RuleAnswers(tool, input) ==
  {IF <<tool, input>> \in RuleDeny THEN Answer("deny", input)
   ELSE IF <<tool, input>> \in RuleAllow THEN Answer("allow", input)
   ELSE Answer("defer", input)}

\* The operator's answer, or ARCANA_PERMISSION_AUTO's.
InteractiveAnswers(input) == {Answer("allow", input), Answer("deny", input)}

\* SuspendLayer::evaluate: what the MCP client resumes the call with, or a dropped channel.
SuspendAnswers(input) ==
  {Answer("allow", input), Answer("deny", input)} \cup {Answer("replace", v) : v \in Inputs}

\* The MCP server's ProceedLayer.
ProceedAnswers(input) == {Answer("allow", input)}

LayerAnswers(layer, a) ==
  LET tool  == att[a].tool
      input == att[a].input
  IN  CASE layer = "schema"             -> SchemaAnswers(tool, input)
        [] layer = "contract-allowlist" -> ContractAnswers(tool, input)
        [] layer = "hook_bridge"        -> HookBridgeAnswers(a, input)
        [] layer = "rule"               -> RuleAnswers(tool, input)
        [] layer = "interactive"        -> InteractiveAnswers(input)
        [] layer = "suspend"            -> SuspendAnswers(input)
        [] layer = "mcp_proceed"        -> ProceedAnswers(input)

-----------------------------------------------------------------------------
(***************************************************************************)
(* One attempt.                                                            *)
(***************************************************************************)

Ready ==
  [pc |-> "ready", id |-> 0, tool |-> None, input |-> None, step |-> 1,
   verdict |-> "none", outcome |-> "none"]

At(a, pc) == att[a].pc = pc /\ Home[a] \notin dead

\* The attempt goes on to write the decision `verdict`; `outcome` is what a refusal
\* closes with.
Refuse(a, verdict, outcome) ==
  att' = [att EXCEPT ![a] = [@ EXCEPT !.pc = "deciding", !.verdict = verdict, !.outcome = outcome]]

Close(a, outcome) ==
  att' = [att EXCEPT ![a] = [@ EXCEPT !.pc = "closing", !.outcome = outcome]]

Goto(a, pc) ==
  att' = [att EXCEPT ![a] = [@ EXCEPT !.pc = pc, !.step = 1]]

\* prepare, a latched executor.
EnterLatched(a) ==
  /\ At(a, "ready")
  /\ latched[Home[a]]
  /\ att' = [att EXCEPT ![a] = [@ EXCEPT !.pc = "done", !.outcome = "audit_latched"]]
  /\ UNCHANGED <<latched, next, loop, cancelled, dead, file, history, failed>>

\* What prepare refuses before the cascade, in its order.
EntryRefusal(a, tool, input) ==
  IF a \in cancelled THEN "cancellation"
  ELSE IF tool \notin Registry THEN "registry"
  ELSE IF input \notin Valid THEN "schema"
  ELSE "none"

\* prepare up to the cascade: latch, id, cancellation, registry, schema.
Enter(a) ==
  /\ At(a, "ready")
  /\ ~latched[Home[a]]
  /\ next' = [next EXCEPT ![Home[a]] = @ + 1]
  /\ \E tool \in Tools, input \in Inputs :
       LET refusal == EntryRefusal(a, tool, input)
       IN  att' = [att EXCEPT ![a] =
                     [pc      |-> IF refusal = "none" THEN "cascade" ELSE "deciding",
                      id      |-> next[Home[a]],
                      tool    |-> tool,
                      input   |-> input,
                      step    |-> 1,
                      verdict |-> refusal,
                      outcome |-> CASE refusal = "none"         -> "none"
                                    [] refusal = "cancellation" -> "cancelled"
                                    [] OTHER                    -> "denied"]]
  /\ UNCHANGED <<latched, loop, cancelled, dead, file, history, failed>>

\* Mutant: a layer that rewrites the input also approves it.
MutantTakeAnswer(a, answer) ==
  /\ \/ /\ answer.kind \in {"allow", "replace"}
        /\ authorised' = [authorised EXCEPT ![a] = answer.input]
        /\ att' = [att EXCEPT ![a] = [@ EXCEPT !.pc = "gate", !.step = 1, !.input = answer.input]]
     \/ /\ answer.kind = "deny"
        /\ Refuse(a, Cascade[Home[a]][att[a].step], "denied")
        /\ UNCHANGED authorised
     \/ /\ answer.kind = "defer"
        /\ att' = [att EXCEPT ![a] = [@ EXCEPT !.step = att[a].step + 1]]
        /\ UNCHANGED authorised
  /\ UNCHANGED <<latched, next, loop, cancelled, dead, file, ran, failed>>

\* evaluate_for_execution, what a layer's answer does to the walk: the first Allow or Deny
\* ends it, a replacement goes on to the layers that follow.
TakeAnswer(a, answer) ==
  /\ \/ /\ answer.kind = "allow"
        /\ authorised' = [authorised EXCEPT ![a] = answer.input]
        /\ Goto(a, "gate")
     \/ /\ answer.kind = "deny"
        /\ Refuse(a, Cascade[Home[a]][att[a].step], "denied")
        /\ UNCHANGED authorised
     \/ /\ answer.kind \in {"defer", "replace"}
        /\ att' = [att EXCEPT ![a] = [@ EXCEPT !.input = answer.input, !.step = att[a].step + 1]]
        /\ UNCHANGED authorised
  /\ UNCHANGED <<latched, next, loop, cancelled, dead, file, ran, failed>>

\* evaluate_for_execution, one layer.
AskLayer(a) ==
  /\ At(a, "cascade")
  /\ att[a].step <= Len(Cascade[Home[a]])
  /\ \E answer \in LayerAnswers(Cascade[Home[a]][att[a].step], a) : TakeAnswer(a, answer)

\* evaluate_for_execution, every layer deferred: denied.
NoLayerAllowed(a) ==
  /\ At(a, "cascade")
  /\ att[a].step > Len(Cascade[Home[a]])
  /\ Refuse(a, "cascade", "denied")
  /\ UNCHANGED <<latched, next, loop, cancelled, dead, file, history, failed>>

\* pre_tool_gate, one hook: anything but Continue (a stop, a replacement, injected
\* context, an error, a cancellation seen before the hook) ends the gate.
AskHook(a) ==
  /\ At(a, "gate")
  /\ att[a].step <= Hooks[Home[a]]
  /\ \/ /\ a \notin cancelled
        /\ att' = [att EXCEPT ![a] = [@ EXCEPT !.step = att[a].step + 1]]
     \/ att' = [att EXCEPT ![a] = [@ EXCEPT !.pc = "gated", !.verdict = "hook"]]
  /\ UNCHANGED <<latched, next, loop, cancelled, dead, file, history, failed>>

GateProceeds(a) ==
  /\ At(a, "gate")
  /\ att[a].step > Hooks[Home[a]]
  /\ att' = [att EXCEPT ![a] = [@ EXCEPT !.pc = "gated", !.verdict = "none"]]
  /\ UNCHANGED <<latched, next, loop, cancelled, dead, file, history, failed>>

\* hook_gate after the chain, the second validation, and invoke's first check: the
\* cancellation wins over the gate's answer.
LeaveGate(a) ==
  /\ At(a, "gated")
  /\ IF a \in cancelled THEN Refuse(a, "cancellation", "cancelled")
     ELSE IF att[a].verdict = "hook" THEN Refuse(a, "hook", "hook_aborted")
     ELSE IF att[a].input \notin Valid THEN Refuse(a, "schema", "denied")
     ELSE Refuse(a, "Allowed", "none")
  /\ UNCHANGED <<latched, next, loop, cancelled, dead, file, history, failed>>

\* audit_decision: an allowed attempt goes on to the tool, a refused one to its result.
Decide(a) ==
  /\ At(a, "deciding")
  /\ LET line == Line("decision", a, att[a].id, att[a].input, att[a].verdict)
     IN  \/ /\ AppendOk(line)
            /\ att' = [att EXCEPT ![a] = [@ EXCEPT
                         !.pc = IF att[a].verdict = "Allowed" THEN "admission" ELSE "closing"]]
            /\ UNCHANGED failed
         \/ /\ AppendErr(line)
            /\ att' = [att EXCEPT ![a] = [@ EXCEPT !.pc = "latching"]]
            /\ failed' = failed \cup {Home[a]}
  /\ UNCHANGED <<latched, next, loop, cancelled, dead, history>>

\* Mutant: a cancellation after the decision is refused with a second decision.
MutantAdmit(a) ==
  /\ At(a, "admission")
  /\ IF a \in cancelled
       THEN /\ Refuse(a, "cancellation", "cancelled")
            /\ UNCHANGED ran
       ELSE /\ Goto(a, "running")
            /\ ran' = [ran EXCEPT ![a] = att[a].input]
  /\ UNCHANGED <<latched, next, loop, cancelled, dead, file, authorised, failed>>

\* invoke between the durable decision and the tool: the last look at the token, then
\* the tool runs on the prepared input.
Admit(a) ==
  /\ At(a, "admission")
  /\ IF a \in cancelled
       THEN /\ Close(a, "cancelled")
            /\ UNCHANGED ran
       ELSE /\ Goto(a, "running")
            /\ ran' = [ran EXCEPT ![a] = att[a].input]
  /\ UNCHANGED <<latched, next, loop, cancelled, dead, file, authorised, failed>>

\* Tool::execute returned.
ToolReturns(a) ==
  /\ At(a, "running")
  /\ Goto(a, "post") \/ Close(a, "tool_error")
  /\ UNCHANGED <<latched, next, loop, cancelled, dead, file, history, failed>>

\* post_tool, one hook.
AskPostHook(a) ==
  /\ At(a, "post")
  /\ att[a].step <= Hooks[Home[a]]
  /\ \/ /\ a \notin cancelled
        /\ att' = [att EXCEPT ![a] = [@ EXCEPT !.step = att[a].step + 1]]
     \/ Close(a, "hook_error")
  /\ UNCHANGED <<latched, next, loop, cancelled, dead, file, history, failed>>

PostHooksDone(a) ==
  /\ At(a, "post")
  /\ att[a].step > Hooks[Home[a]]
  /\ Close(a, "success")
  /\ UNCHANGED <<latched, next, loop, cancelled, dead, file, history, failed>>

\* audit_result: the attempt returns its outcome only once the record is durable.
Report(a) ==
  /\ At(a, "closing")
  /\ LET line == Line("result", a, att[a].id, None, att[a].outcome)
     IN  \/ /\ AppendOk(line)
            /\ att' = [att EXCEPT ![a] = [@ EXCEPT !.pc = "done"]]
            /\ UNCHANGED failed
         \/ /\ AppendErr(line)
            /\ att' = [att EXCEPT ![a] = [@ EXCEPT !.pc = "latching"]]
            /\ failed' = failed \cup {Home[a]}
  /\ UNCHANGED <<latched, next, loop, cancelled, dead, history>>

\* Mutant: the failure is returned and the latch is not set.
MutantLatch(a) ==
  /\ At(a, "latching")
  /\ att' = [att EXCEPT ![a] = [@ EXCEPT !.pc = "done", !.outcome = "audit_failure"]]
  /\ UNCHANGED <<latched, next, loop, cancelled, dead, file, history, failed>>

\* The map_err of audit_decision and audit_result: latch, then return the failure.
Latch(a) ==
  /\ At(a, "latching")
  /\ latched' = [latched EXCEPT ![Home[a]] = TRUE]
  /\ att' = [att EXCEPT ![a] = [@ EXCEPT !.pc = "done", !.outcome = "audit_failure"]]
  /\ UNCHANGED <<next, loop, cancelled, dead, file, history, failed>>

-----------------------------------------------------------------------------
(***************************************************************************)
(* The agent loop's own records, and the environment.                      *)
(***************************************************************************)

\* CapabilityExecutor::record_run_event past its latch check.
CheckRunEvent(e) ==
  /\ e \notin dead
  /\ loop[e] = "idle"
  /\ ~latched[e]
  /\ Len(log) < MaxEvents
  /\ loop' = [loop EXCEPT ![e] = "writing"]
  /\ UNCHANGED <<latched, next, att, cancelled, dead, file, history, failed>>

\* Its append: a failure is returned to the loop and does not latch.
WriteRunEvent(e) ==
  /\ e \notin dead
  /\ loop[e] = "writing"
  /\ LET line == Line("run", e, 0, None, "none")
     IN  \/ AppendOk(line) /\ UNCHANGED failed
         \/ AppendErr(line) /\ failed' = failed \cup {e}
  /\ loop' = [loop EXCEPT ![e] = "idle"]
  /\ UNCHANGED <<latched, next, att, cancelled, dead, history>>

\* The caller's cancellation token (the signal listener, the agent loop).
Cancel(a) ==
  /\ At(a, att[a].pc)
  /\ att[a].pc # "done"
  /\ a \notin cancelled
  /\ cancelled' = cancelled \cup {a}
  /\ UNCHANGED <<latched, next, loop, att, dead, file, history, failed>>

\* The process of an executor is killed.
Kill(e) ==
  /\ e \notin dead
  /\ dead' = dead \cup {e}
  /\ UNCHANGED <<latched, next, loop, att, cancelled, file, history, failed>>

\* The machine loses power: lines after the last successful sync may be lost.
PowerLoss ==
  /\ dead # Executors
  /\ dead' = Executors
  /\ \E n \in synced..Len(log) : log' = SubSeq(log, 1, n)
  /\ UNCHANGED <<latched, next, loop, att, cancelled, synced, torn, history, failed>>

-----------------------------------------------------------------------------

Init ==
  /\ latched = [e \in Executors |-> FALSE]
  /\ next = [e \in Executors |-> 1]
  /\ loop = [e \in Executors |-> "idle"]
  /\ att = [a \in Attempts |-> Ready]
  /\ cancelled = {}
  /\ dead = {}
  /\ log = <<>>
  /\ synced = 0
  /\ torn = FALSE
  /\ authorised = [a \in Attempts |-> None]
  /\ ran = [a \in Attempts |-> None]
  /\ failed = {}

\* A step of attempt a that the executor's own task takes.
AttemptStep(a) ==
  \/ EnterLatched(a) \/ Enter(a)
  \/ AskLayer(a) \/ NoLayerAllowed(a)
  \/ AskHook(a) \/ GateProceeds(a) \/ LeaveGate(a)
  \/ Decide(a) \/ Admit(a) \/ ToolReturns(a)
  \/ AskPostHook(a) \/ PostHooksDone(a)
  \/ Report(a) \/ Latch(a)

Next ==
  \/ \E a \in Attempts : AttemptStep(a) \/ Cancel(a)
  \/ \E e \in Executors : CheckRunEvent(e) \/ WriteRunEvent(e) \/ Kill(e)
  \/ PowerLoss

Spec == Init /\ [][Next]_vars

-----------------------------------------------------------------------------
(***************************************************************************)
(* Properties.                                                             *)
(***************************************************************************)

Verdicts == LayerNames \cup {"none", "Allowed", "cancellation", "registry", "cascade", "hook"}

\* What execute returns; "none" until then.
Returns ==
  {"none", "denied", "cancelled", "hook_aborted", "tool_error", "hook_error", "success",
   "audit_latched", "audit_failure"}

Lines ==
  [phase    : {"decision", "result", "run"},
   by       : Attempts \cup Executors,
   id       : Nat,
   input    : Inputs \cup {None},
   verdict  : Verdicts \cup Returns,
   readable : BOOLEAN]

States ==
  [pc      : {"ready", "cascade", "gate", "gated", "deciding", "admission", "running", "post",
              "closing", "latching", "done"},
   id      : Nat,
   tool    : Tools \cup {None},
   input   : Inputs \cup {None},
   step    : Nat \ {0},
   verdict : Verdicts,
   outcome : Returns]

\* Type correctness of the executor's state, its attempts and the audit file; the synced
\* part of the file is a part of the file.
TypeOK ==
  /\ latched \in [Executors -> BOOLEAN]
  /\ next \in [Executors -> Nat]
  /\ loop \in [Executors -> {"idle", "writing"}]
  /\ att \in [Attempts -> States]
  /\ cancelled \subseteq Attempts
  /\ dead \subseteq Executors
  /\ log \in Seq(Lines)
  /\ synced \in 0..Len(log)
  /\ torn \in BOOLEAN
  /\ authorised \in [Attempts -> Inputs \cup {None}]
  /\ ran \in [Attempts -> Inputs \cup {None}]
  /\ failed \subseteq Executors

DecisionsOf(a) == {i \in 1..Len(log) : log[i].phase = "decision" /\ log[i].by = a}

ResultsOf(a) == {i \in 1..Len(log) : log[i].phase = "result" /\ log[i].by = a}

\* Provenance and attribution: a tool ran only on the input the cascade authorised, which
\* its schema accepts, and under exactly one Allowed decision, already safe from a power
\* loss, that names the attempt's id and that very input (execute, prepare, invoke).
Attribution ==
  \A a \in Attempts : ran[a] # None =>
    /\ ran[a] = authorised[a]
    /\ ran[a] \in Valid
    /\ \E i \in 1..synced :
         /\ DecisionsOf(a) = {i}
         /\ log[i].verdict = "Allowed"
         /\ log[i].input = ran[a]
         /\ log[i].id = att[a].id

\* An attempt that returned anything but an audit failure left exactly one decision and,
\* after it, exactly one result with the outcome it returned, under one id and both safe
\* from a power loss; an attempt refused by the latch left nothing.
PairsClosed ==
  \A a \in Attempts : att[a].pc = "done" =>
    CASE att[a].outcome = "audit_failure" -> TRUE
      [] att[a].outcome = "audit_latched" -> DecisionsOf(a) \cup ResultsOf(a) = {}
      [] OTHER ->
           \E i, j \in 1..synced :
             /\ i < j
             /\ DecisionsOf(a) = {i}
             /\ ResultsOf(a) = {j}
             /\ log[j].verdict = att[a].outcome
             /\ log[i].id = log[j].id

\* The outcome in an attempt's result record tells whether the tool ran: a denial, a
\* cancellation and a hook's veto mean it did not, the other outcomes mean it did, also
\* when a cancellation arrives between any two steps (invoke).
OutcomeTellsRun ==
  \A a \in Attempts : att[a].pc = "done" =>
    /\ att[a].outcome \in {"denied", "cancelled", "hook_aborted", "audit_latched"} => ran[a] = None
    /\ att[a].outcome \in {"success", "tool_error", "hook_error"} => ran[a] # None

\* Two attempts on one executor never share an invocation id in the log, however they
\* interleave (next_invocation_id).
IdsDistinct ==
  \A i, j \in 1..Len(log) :
    /\ log[i].by \in Attempts
    /\ log[j].by \in Attempts
    /\ log[i].id = log[j].id
    /\ Home[log[i].by] = Home[log[j].by]
    => log[i].by = log[j].by

\* What the audit file says of an attempt that returned is what happened: one durable
\* decision and one durable result under an id no other attempt of the executor has, and
\* an outcome that tells whether the tool ran (prepare, audit_decision, audit_result).
RecordsTellTheTruth == PairsClosed /\ OutcomeTellsRun /\ IdsDistinct

\* The rule layer of an executor sees the input last: nothing before it allows, nothing
\* after it rewrites.
RulesSeeLast(e) ==
  \E i \in DOMAIN Cascade[e] :
    /\ Cascade[e][i] = "rule"
    /\ \A j \in DOMAIN Cascade[e] :
         /\ j < i => Cascade[e][j] \in {"schema", "contract-allowlist", "hook_bridge"}
         /\ j > i => Cascade[e][j] \notin {"hook_bridge", "suspend"}

\* On an executor whose rule layer sees the input last, no tool runs on an input the rules
\* deny, whatever the hooks in front of it made of the input (evaluate_for_execution).
RulesHold ==
  \A a \in Attempts : ran[a] # None /\ RulesSeeLast(Home[a]) =>
    <<att[a].tool, ran[a]>> \notin RuleDeny

\* A tool runs only on what was authorised, recorded and, where the rules have the last
\* word, not denied by them, although layers, hooks and the operator may rewrite the input
\* on the way (prepare, evaluate_for_execution, invoke).
Governed == Attribution /\ RulesHold

\* Once an attempt has returned an audit failure, every attempt that begins later on that
\* executor is refused by the latch: no id, no record, no tool (audit_latched).
NoEntryAfterFailure ==
  [][\A a \in Attempts :
       /\ att[a].pc = "ready"
       /\ att'[a].pc # "ready"
       /\ \E b \in Attempts : Home[b] = Home[a] /\ att[b].outcome = "audit_failure"
       => att'[a].outcome = "audit_latched"]_vars

-----------------------------------------------------------------------------
(***************************************************************************)
(* What the repository says of the log, and the code does not do.          *)
(***************************************************************************)

WriterOf(line) == IF line.by \in Executors THEN line.by ELSE Home[line.by]

\* "once a durable append has failed, nothing more is written" (record_run_event's
\* comment): no line is added by an executor one of whose appends has failed.
NothingAfterFailure ==
  [][Len(log') > Len(log) => WriterOf(log'[Len(log')]) \notin failed]_vars

\* learning_trace's steps_from: the first readable result with the decision's id.
PairedResults(i) ==
  LET same == {j \in 1..Len(log) :
                 log[j].readable /\ log[j].phase = "result" /\ log[j].id = log[i].id}
  IN  {j \in same : \A k \in same : j <= k}

\* "one decision and one terminal result record share an invocation_id": the result a
\* reader pairs with a decision by that id is the one of the same attempt.
PairingByIdSound ==
  \A i \in 1..Len(log) : log[i].readable /\ log[i].phase = "decision" =>
    \A j \in PairedResults(i) : log[j].by = log[i].by

=============================================================================

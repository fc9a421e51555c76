------------------------------- MODULE Driver -------------------------------
(***************************************************************************)
(* The agent loop (crates/core/src/agent_loop.rs): one run of the driver,  *)
(* the Model Connector it buys answers from and the operator who may       *)
(* interrupt it.                                                           *)
(*                                                                         *)
(* A driver step ends where the loop awaits something: a connector call, a *)
(* pause, the executor.  The Model Connector is external: a key that is    *)
(* running is refused with a conflict, a key that is settled is replayed,  *)
(* and a provider call is charged when it settles, whether or not the      *)
(* caller is still there (ConnectorError's comments).                      *)
(*                                                                         *)
(* A prompt is the number of the history it was serialised from: every     *)
(* entry pushed and every compaction gives a new one, and the model id     *)
(* follows from it.  Time is counted in pauses.                            *)
(***************************************************************************)
EXTENDS Integers, Sequences

CONSTANTS
  MaxTurns,       \* DriverConfig::max_turns
  Cap,            \* DriverConfig::max_cost_usd
  Costs,          \* what an answer may cost
  MaxCost,        \* the most an answer may cost
  RetryLimit,     \* DriverConfig::connector_retry_limit
  EdgeLimit,      \* DriverConfig::edge_retry_limit
  PauseBudget,    \* DriverConfig::connector_retry_pause_budget
  WaitBudget,     \* in_flight_budget: the time one dispatch may take upstream
  RequireAction,  \* DriverConfig::require_action
  FirstPrompt,    \* DriverConfig::first_dispatch_prompt is set
  Calls,          \* tool calls, as fold_denial tells them apart
  SpentBefore     \* what earlier runs of the session, which share its CostTracker, spent

ASSUME LimitsAssumption ==
  /\ MaxTurns \in Nat \ {0}
  /\ Cap \in Nat
  /\ RetryLimit \in Nat
  /\ EdgeLimit \in Nat
  /\ PauseBudget \in Nat
  /\ WaitBudget \in Nat

ASSUME CostsAssumption ==
  /\ MaxCost \in Nat
  /\ Costs \subseteq 0..MaxCost
  /\ SpentBefore \subseteq 0..(Cap + MaxCost)

ASSUME SwitchesAssumption == RequireAction \in BOOLEAN /\ FirstPrompt \in BOOLEAN

TruncationRetryLimit   == 1
MaxDialectCorrections  == 2

VARIABLES
  pc,           \* what the loop is about to do or waits for
  reason,       \* TerminalReason, "none" until the run ends
  attempts,     \* RunState::attempts
  pollsTotal,   \* RunState::in_flight_polls_total
  retries,      \* RunState::connector_retries
  slept,        \* RunState::connector_retry_pause_spent
  elapsed,      \* time since intent.dispatched_at, no more than WaitBudget
  error,        \* the class of the error the last call returned
  key,          \* the number of the key in force (intent.active), 0 for none
  print,        \* the fingerprint it was minted against
  prompt,       \* the prompt of the dispatch being made
  hist,         \* the number of the history
  room,         \* what is known of its size
  nudged,       \* RunState::nudge_spent
  truncations,  \* RunState::truncation_retries
  malformed,    \* RunState::malformed_calls
  refused,      \* RunState::refused_calls
  call,         \* the tool call being executed
  toolCalls,    \* RunState::tool_calls
  tried,        \* RunState::tool_calls_attempted
  denied,       \* RunState::denied
  spent,        \* CostTracker::cost_usd_micros
  cancelled,    \* the operator's cancellation token
  arrived,      \* the Model Connector is working for the open call
  mc,           \* Model Connector: what it knows of each key
  charged,      \* history: what it has charged for
  turn,         \* history: one more than the answers the loop has received
  ran           \* history: how often a tool was run

counters == <<attempts, pollsTotal, retries, slept, elapsed>>
intent   == <<key, print, prompt>>
talk     == <<hist, room, nudged, truncations, malformed, refused>>
work     == <<call, toolCalls, tried, denied, ran>>
money    == <<spent, charged, turn>>
vars     == <<pc, reason, counters, error, intent, talk, work, money, cancelled, arrived, mc>>

-----------------------------------------------------------------------------
(***************************************************************************)
(* What the actions share.                                                 *)
(***************************************************************************)

\* finish_run: an operator abort is recorded, and a failed record is the verdict instead.
Finish(r) ==
  /\ pc' = "done"
  /\ reason' \in IF r = "aborted" THEN {"aborted", "audit_fatal"} ELSE {r}

Goto(step) == pc' = step /\ UNCHANGED reason

\* Entries were pushed to the history: another prompt, of another size.
Push == hist' = hist + 1 /\ room' = "unknown"

\* The time a call or a pause takes.
TimePasses == elapsed' \in elapsed..WaitBudget

NewKey == [state |-> "idle", payload |-> <<0, 0>>, cost |-> 0, turn |-> turn]

\* Mutant: a key in force is not looked at.
MutantStamp(payload) ==
  /\ key' = Len(mc) + 1
  /\ print' = payload
  /\ elapsed' = 0
  /\ mc' = Append(mc, NewKey)

\* TurnIntentSeries::stamp: the key in force while the payload is the one it was minted
\* against, and a new key otherwise.
Stamp(payload) ==
  IF key # 0 /\ print = payload
    THEN UNCHANGED <<key, print, elapsed, mc>>
    ELSE /\ key' = Len(mc) + 1
         /\ print' = payload
         /\ elapsed' = 0
         /\ mc' = Append(mc, NewKey)

\* intent_fingerprint: the prompt, the model that follows from it, and the budget that is
\* left.
Payload(p) == <<p, spent>>

-----------------------------------------------------------------------------
(***************************************************************************)
(* Asking.                                                                 *)
(***************************************************************************)

\* refuse_before_ask lets the step go on.
MayAsk ==
  /\ ~cancelled
  /\ attempts - pollsTotal < MaxTurns
  /\ spent <= Cap

\* refuse_before_ask: the interrupt first, then the turns, then the cost.
AskRefused ==
  /\ pc = "ask"
  /\ ~MayAsk
  /\ Finish(IF cancelled THEN "aborted"
            ELSE IF attempts - pollsTotal >= MaxTurns THEN "max_turns"
            ELSE "max_cost")
  /\ UNCHANGED <<counters, error, intent, talk, work, money, cancelled, arrived, mc>>

\* fit_request: the history was over the budget and has been compacted.
Compact ==
  /\ pc = "ask"
  /\ MayAsk
  /\ room = "unknown"
  /\ Goto("ask")
  /\ hist' = hist + 1
  /\ room' = "compacted"
  /\ UNCHANGED <<counters, error, intent, nudged, truncations, malformed, refused, work, money,
                 cancelled, arrived, mc>>

\* fit_request and compose_request: it cannot be compacted enough, or is over the wall.
TooLarge ==
  /\ pc = "ask"
  /\ MayAsk
  /\ room # "composed"
  /\ Finish("request_too_large")
  /\ UNCHANGED <<counters, error, intent, talk, work, money, cancelled, arrived, mc>>

\* step up to the audit record: the prompt is composed and the attempt counted. An exact
\* first prompt is sent once, on the run's first attempt.
Dispatch ==
  /\ pc = "ask"
  /\ MayAsk
  /\ Goto("record")
  /\ attempts' = attempts + 1
  /\ IF FirstPrompt /\ attempts = 0
       THEN prompt' = 0 /\ UNCHANGED room
       ELSE prompt' = hist /\ room' = "composed"
  /\ UNCHANGED <<pollsTotal, retries, slept, elapsed, error, key, print, hist, nudged, truncations,
                 malformed, refused, work, money, cancelled, arrived, mc>>

\* record_dispatch and call_connector: sent only once it is recorded. The interrupt is not
\* looked at again.
Send ==
  /\ pc = "record"
  /\ \/ Finish("audit_fatal") /\ UNCHANGED <<key, print, elapsed, mc>>
     \/ Goto("waiting") /\ Stamp(Payload(prompt))
  /\ UNCHANGED <<attempts, pollsTotal, retries, slept, error, prompt, talk, work, money, cancelled,
                 arrived>>

-----------------------------------------------------------------------------
(***************************************************************************)
(* The call.                                                               *)
(***************************************************************************)

\* The call returned an error.
Fails(class) ==
  /\ Goto("recover")
  /\ error' = class
  /\ TimePasses
  /\ UNCHANGED <<attempts, pollsTotal, retries, slept, intent, talk, work, money, cancelled>>

\* The call returned an answer: call_connector records its cost, dispatch_turn resets the
\* retry budgets and finishes the turn's key.
Answered ==
  /\ Goto("settle")
  /\ retries' = 0
  /\ slept' = 0
  /\ key' = 0
  /\ spent' = spent + mc[key].cost
  /\ turn' = turn + 1
  /\ arrived' = FALSE
  /\ UNCHANGED <<attempts, pollsTotal, elapsed, error, print, prompt, talk, work, charged,
                 cancelled, mc>>

\* Model Connector takes a request under a key it holds nothing for.
Receive ==
  /\ pc = "waiting"
  /\ ~arrived
  /\ mc[key].state = "idle"
  /\ arrived' = TRUE
  /\ mc' = [mc EXCEPT ![key] = [@ EXCEPT !.state = "running", !.payload = Payload(prompt)]]
  /\ UNCHANGED <<pc, reason, counters, error, intent, talk, work, money, cancelled>>

\* It refuses a key of another payload, and one whose first attempt is still running.
Refuse ==
  /\ pc = "waiting"
  /\ ~arrived
  /\ mc[key].state # "idle"
  /\ \/ mc[key].payload # Payload(prompt) /\ Fails("reused")
     \/ mc[key].payload = Payload(prompt) /\ mc[key].state = "running" /\ Fails("conflict")
  /\ UNCHANGED <<arrived, mc>>

\* A settled key is replayed, or its answer was too large to keep.
Replay ==
  /\ pc = "waiting"
  /\ ~arrived
  /\ mc[key].state = "settled"
  /\ mc[key].payload = Payload(prompt)
  /\ \/ Answered
     \/ Fails("fatal") /\ UNCHANGED <<arrived, mc>>

\* The provider answered: charged and stored before anything is sent back.
Settle(k) ==
  /\ mc[k].state = "running"
  /\ \E cost \in Costs :
       /\ mc' = [mc EXCEPT ![k] = [@ EXCEPT !.state = "settled", !.cost = cost]]
       /\ charged' = charged + cost
  /\ UNCHANGED <<pc, reason, counters, error, intent, talk, work, spent, turn, cancelled, arrived>>

\* The provider failed: the hold is released, nothing is charged, and the caller is told
\* if it is still there.
Release(k) ==
  /\ mc[k].state = "running"
  /\ mc' = [mc EXCEPT ![k] = [@ EXCEPT !.state = "idle"]]
  /\ arrived' = FALSE
  /\ IF arrived
       THEN \E class \in {"retryable", "fatal", "attempt_timeout", "too_large"} : Fails(class)
       ELSE UNCHANGED <<pc, reason, counters, error, intent, talk, work, money, cancelled>>

\* The answer reaches the caller that waited for it.
Deliver ==
  /\ pc = "waiting"
  /\ arrived
  /\ mc[key].state = "settled"
  /\ Answered

\* Mutant: a call the Model Connector has not taken never times out.
MutantCut ==
  /\ pc = "waiting"
  /\ mc[key].state # "idle"
  /\ \E class \in {"edge", "retryable", "fatal"} : Fails(class)
  /\ arrived' = FALSE
  /\ UNCHANGED mc

\* The edge, the client's own timeout or the transport ends the call, whatever becomes of
\* the request.
Cut ==
  /\ pc = "waiting"
  /\ \E class \in {"edge", "retryable", "fatal"} : Fails(class)
  /\ arrived' = FALSE
  /\ UNCHANGED mc

-----------------------------------------------------------------------------
(***************************************************************************)
(* Recovery (agent_loop/recovery.rs, agent_loop/in_flight.rs).             *)
(***************************************************************************)

\* recover_or_stop: errors another dispatch cannot help.
GiveUp ==
  /\ pc = "recover"
  /\ \/ error = "too_large" /\ Finish("request_too_large")
     \/ error \in {"attempt_timeout", "fatal"} /\ Finish("connector_fatal")
  /\ UNCHANGED <<counters, error, intent, talk, work, money, cancelled, arrived, mc>>

Limit == IF error = "edge" THEN EdgeLimit ELSE RetryLimit

\* The counted path: the class's re-dispatches or the turn's sleep are spent, or one more
\* is booked. A key of another payload is dropped.
Redispatch ==
  /\ pc = "recover"
  /\ error \in {"edge", "retryable", "reused"}
  /\ key' = IF error = "reused" THEN 0 ELSE key
  /\ \/ /\ retries >= Limit \/ slept >= PauseBudget
        /\ Finish("connector_fatal")
        /\ UNCHANGED <<retries, slept, elapsed>>
     \/ /\ retries < Limit
        /\ slept < PauseBudget
        /\ Goto("pause")
        /\ retries' = retries + 1
        /\ slept' \in slept..PauseBudget
        /\ TimePasses
  /\ UNCHANGED <<attempts, pollsTotal, error, print, prompt, talk, work, money, cancelled,
                 arrived, mc>>

\* After the pause: an interrupt ends the run, otherwise the step starts again.
PauseEnds ==
  /\ pc = "pause"
  /\ IF cancelled THEN Finish("aborted") ELSE Goto("ask")
  /\ UNCHANGED <<counters, error, intent, talk, work, money, cancelled, arrived, mc>>

\* wait_out_in_flight: bounded by the clock of the first dispatch; the pause before a poll
\* takes time and never passes the deadline.
WaitForAnswer ==
  /\ pc = "recover"
  /\ error = "conflict"
  /\ \/ /\ elapsed >= WaitBudget
        /\ Finish("connector_fatal")
        /\ UNCHANGED <<pollsTotal, elapsed>>
     \/ /\ elapsed < WaitBudget
        /\ Goto("poll")
        /\ pollsTotal' = pollsTotal + 1
        /\ elapsed' \in (elapsed + 1)..WaitBudget
  /\ UNCHANGED <<attempts, retries, slept, error, intent, talk, work, money, cancelled, arrived,
                 mc>>

\* Mutant: the interrupt is looked at before the pause only.
MutantPollEnds ==
  /\ pc = "poll"
  /\ Goto("waiting")
  /\ attempts' = attempts + 1
  /\ Stamp(Payload(prompt))
  /\ UNCHANGED <<pollsTotal, retries, slept, error, prompt, talk, work, money, cancelled, arrived>>

\* The poll: the bytes of the dispatch again, under its key; counted as an attempt.
PollEnds ==
  /\ pc = "poll"
  /\ IF cancelled
       THEN /\ Finish("aborted")
            /\ UNCHANGED <<attempts, key, print, elapsed, mc>>
       ELSE /\ Goto("waiting")
            /\ attempts' = attempts + 1
            /\ Stamp(Payload(prompt))
  /\ UNCHANGED <<pollsTotal, retries, slept, error, prompt, talk, work, money, cancelled, arrived>>

-----------------------------------------------------------------------------
(***************************************************************************)
(* Settling a reply.                                                       *)
(***************************************************************************)

\* step after dispatch_turn: the answer was too expensive.
OverCap ==
  /\ pc = "settle"
  /\ spent > Cap
  /\ Finish("max_cost")
  /\ UNCHANGED <<counters, error, intent, talk, work, money, cancelled, arrived, mc>>

\* recover_from_truncation: the fragment is dropped, the nudge is pushed.
Truncated ==
  /\ pc = "settle"
  /\ spent <= Cap
  /\ IF truncations >= TruncationRetryLimit
       THEN Finish("response_truncated") /\ UNCHANGED <<hist, room, truncations>>
       ELSE Goto("ask") /\ Push /\ truncations' = truncations + 1
  /\ UNCHANGED <<counters, error, intent, nudged, malformed, refused, work, money, cancelled,
                 arrived, mc>>

\* Mutant: a run that must act is completed by prose after the nudge.
MutantFinal ==
  /\ pc = "settle"
  /\ spent <= Cap
  /\ Push
  /\ truncations' = 0
  /\ nudged' = TRUE
  /\ IF RequireAction /\ toolCalls = 0 /\ ~nudged THEN Goto("ask") ELSE Finish("completed")
  /\ UNCHANGED <<counters, error, intent, malformed, refused, work, money, cancelled, arrived, mc>>

\* settle_reply, Final: the interrupt decides first; a run that must act and has not is
\* told so once.
Final ==
  /\ pc = "settle"
  /\ spent <= Cap
  /\ Push
  /\ truncations' = 0
  /\ LET idle == RequireAction /\ toolCalls = 0
     IN  \/ cancelled /\ Finish("aborted") /\ UNCHANGED nudged
         \/ ~cancelled /\ idle /\ nudged /\ Finish("no_action") /\ UNCHANGED nudged
         \/ ~cancelled /\ idle /\ ~nudged /\ Goto("ask") /\ nudged' = TRUE
         \/ ~cancelled /\ ~idle /\ Finish("completed") /\ UNCHANGED nudged
  /\ UNCHANGED <<counters, error, intent, malformed, refused, work, money, cancelled, arrived, mc>>

\* correct_tool_format.
Malformed ==
  /\ pc = "settle"
  /\ spent <= Cap
  /\ Push
  /\ truncations' = 0
  /\ malformed' = malformed + 1
  /\ IF malformed + 1 >= MaxDialectCorrections THEN Finish("unsupported_format") ELSE Goto("ask")
  /\ UNCHANGED <<counters, error, intent, nudged, refused, work, money, cancelled, arrived, mc>>

\* settle_reply, ToolCall, and run_tool_turn up to the executor.
CallTool ==
  /\ pc = "settle"
  /\ spent <= Cap
  /\ Push
  /\ truncations' = 0
  /\ \/ cancelled /\ Finish("aborted") /\ UNCHANGED <<call, tried>>
     \/ ~cancelled /\ Goto("tool") /\ call' \in Calls /\ tried' = tried + 1
  /\ UNCHANGED <<counters, error, intent, nudged, malformed, refused, toolCalls, denied, ran,
                 money, cancelled, arrived, mc>>

-----------------------------------------------------------------------------
(***************************************************************************)
(* The executor, as Executor promises: a refusal and a cancellation mean   *)
(* that no tool ran, and a tool is admitted only before a cancellation.    *)
(***************************************************************************)

\* fold_denial: a correctable refusal is folded back once per call; a repeat, and a policy
\* refusal, end the run.
Denied ==
  /\ pc = "tool"
  /\ denied' = denied + 1
  /\ \/ /\ call \notin refused
        /\ Goto("ask")
        /\ refused' = refused \cup {call}
        /\ Push
     \/ /\ Finish("permission_denied")
        /\ UNCHANGED <<refused, hist, room>>
  /\ UNCHANGED <<counters, error, intent, nudged, truncations, malformed, call, toolCalls, tried,
                 ran, money, cancelled, arrived, mc>>

\* fold_capability_error before a tool ran: a cancellation, a hook's veto, an audit
\* failure.
NotRun ==
  /\ pc = "tool"
  /\ \/ cancelled /\ Finish("aborted") /\ UNCHANGED denied
     \/ Finish("aborted_by_hook") /\ denied' = denied + 1
     \/ Finish("audit_fatal") /\ UNCHANGED denied
  /\ UNCHANGED <<counters, error, intent, talk, call, toolCalls, tried, ran, money, cancelled,
                 arrived, mc>>

\* The executor's admission point.
Admit ==
  /\ pc = "tool"
  /\ ~cancelled
  /\ Goto("running")
  /\ ran' = ran + 1
  /\ UNCHANGED <<counters, error, intent, talk, call, toolCalls, tried, denied, money, cancelled,
                 arrived, mc>>

\* accept_tool_capability: executed work clears the refusals and the format streak.
ToolSucceeds ==
  /\ pc = "running"
  /\ Goto("ask")
  /\ Push
  /\ toolCalls' = toolCalls + 1
  /\ refused' = {}
  /\ malformed' = 0
  /\ UNCHANGED <<counters, error, intent, nudged, truncations, call, tried, denied, ran, money,
                 cancelled, arrived, mc>>

\* fold_capability_error after the tool ran: its own error is folded back, a post-tool
\* hook's stop and an audit failure end the run.
ToolFails ==
  /\ pc = "running"
  /\ \/ Goto("ask") /\ Push /\ UNCHANGED denied
     \/ Finish("aborted_by_hook") /\ denied' = denied + 1 /\ UNCHANGED <<hist, room>>
     \/ Finish("audit_fatal") /\ UNCHANGED <<denied, hist, room>>
  /\ UNCHANGED <<counters, error, intent, nudged, truncations, malformed, refused, call, toolCalls,
                 tried, ran, money, cancelled, arrived, mc>>

-----------------------------------------------------------------------------

\* Ctrl-C.
Cancel ==
  /\ ~cancelled
  /\ pc # "done"
  /\ cancelled' = TRUE
  /\ UNCHANGED <<pc, reason, counters, error, intent, talk, work, money, arrived, mc>>

\* RunState::new and TurnIntentSeries::new.
Init ==
  /\ pc = "ask" /\ reason = "none"
  /\ attempts = 0 /\ pollsTotal = 0 /\ retries = 0 /\ slept = 0 /\ elapsed = 0
  /\ error = "none"
  /\ key = 0 /\ print = <<0, 0>> /\ prompt = 0
  /\ hist = 1 /\ room = "unknown"
  /\ nudged = FALSE /\ truncations = 0 /\ malformed = 0 /\ refused = {}
  /\ call \in Calls
  /\ toolCalls = 0 /\ tried = 0 /\ denied = 0 /\ ran = 0
  /\ spent \in SpentBefore /\ charged = spent /\ turn = 1
  /\ cancelled = FALSE /\ arrived = FALSE
  /\ mc = <<>>

\* What the run's own task does, the end of its calls included: the client's timeout ends
\* a call nobody answers.
DriverStep ==
  \/ AskRefused \/ Compact \/ TooLarge \/ Dispatch \/ Send
  \/ Refuse \/ Replay \/ Deliver \/ Cut
  \/ GiveUp \/ Redispatch \/ PauseEnds \/ WaitForAnswer \/ PollEnds
  \/ OverCap \/ Truncated \/ Final \/ Malformed \/ CallTool
  \/ Denied \/ NotRun \/ Admit \/ ToolSucceeds \/ ToolFails

Next ==
  \/ DriverStep
  \/ Receive
  \/ \E k \in DOMAIN mc : Settle(k) \/ Release(k)
  \/ Cancel

Spec == Init /\ [][Next]_vars

(***************************************************************************)
(* The run's task is polled until it ends, its calls time out, and the     *)
(* executor returns.  Nothing is asked of the Model Connector.             *)
(***************************************************************************)
FairSpec == Spec /\ WF_vars(DriverStep)

-----------------------------------------------------------------------------
(***************************************************************************)
(* Properties.                                                             *)
(***************************************************************************)

Key == [state : {"idle", "running", "settled"}, payload : Nat \X Nat, cost : Nat, turn : Nat]

Reasons == {"none", "aborted", "audit_fatal", "max_turns", "max_cost", "request_too_large",
            "connector_fatal", "response_truncated", "no_action", "completed",
            "unsupported_format", "permission_denied", "aborted_by_hook"}

\* Every variable has its type, a turn sleeps no longer than its budget and a wait ends by
\* its deadline (plan_retry_pause, wait_out_in_flight).
TypeOK ==
  /\ pc \in {"ask", "record", "waiting", "recover", "pause", "poll", "settle", "tool", "running",
             "done"}
  /\ reason \in Reasons
  /\ attempts \in Nat /\ pollsTotal \in Nat /\ retries \in Nat
  /\ slept \in 0..PauseBudget /\ elapsed \in 0..WaitBudget
  /\ error \in {"none", "edge", "retryable", "reused", "conflict", "attempt_timeout", "fatal",
                "too_large"}
  /\ key \in 0..Len(mc) /\ print \in Nat \X Nat /\ prompt \in Nat
  /\ hist \in Nat /\ room \in {"unknown", "compacted", "composed"}
  /\ nudged \in BOOLEAN /\ truncations \in Nat /\ malformed \in Nat /\ refused \subseteq Calls
  /\ call \in Calls /\ toolCalls \in Nat /\ tried \in Nat /\ denied \in Nat /\ ran \in Nat
  /\ spent \in Nat /\ charged \in Nat /\ turn \in Nat
  /\ cancelled \in BOOLEAN /\ arrived \in BOOLEAN
  /\ mc \in Seq(Key)

\* A turn is charged once, however often it is sent, cut off, waited for or polled: no two
\* keys of one turn are both settled (TurnIntentSeries).
OneChargePerTurn ==
  \A j, k \in DOMAIN mc :
    mc[j].state = "settled" /\ mc[k].state = "settled" /\ mc[j].turn = mc[k].turn => j = k

\* The run asks at most max_turns questions, although polls are not counted against it
\* (refuse_before_ask).
QuestionsCapped == Len(mc) <= MaxTurns

\* What the account is charged passes the cap by one answer at most, whatever answers were
\* lost on the way and will never be seen by the run (check_budget, remaining_cost_budget).
CapOvershoot == charged <= Cap + MaxCost

\* When the loop holds an answer, the cost it knows of is what the account was charged: a
\* lost answer was collected or never charged (call_connector, finish_turn).
CostIsExact == pc \in {"settle", "tool", "running"} => spent = charged

\* The account is charged as the run believes it is, over resends, cut answers, polls and
\* releases: once for each turn, past the cap by one answer at most, and by what the run
\* has recorded whenever it acts on an answer (TurnIntentSeries, check_budget, finish_turn).
ChargesAccounted == OneChargePerTurn /\ CapOvershoot /\ CostIsExact

\* A run that must act is completed only after a tool ran (settle_reply, require_action).
CompletedMeansWork == reason = "completed" /\ RequireAction => ran > 0

\* After Ctrl-C no tool is started, and no request is sent but the one whose audit record
\* was being written (refuse_before_ask, recover_or_stop, wait_out_in_flight, execute).
NothingStartsAfterCancel ==
  [][cancelled => /\ ran' = ran
                  /\ pc' = "waiting" => pc \in {"waiting", "record"}]_vars

\* Every run ends, whatever the Model Connector does or does not do.
Termination == <>(pc = "done")

=============================================================================

--------------------------- MODULE ExecutorProofs ---------------------------
(***************************************************************************)
(* Proofs about Executor, for every set of attempts and executors, every   *)
(* cascade and every number of hooks; and then about Mcp, the server over  *)
(* it, for every number of calls and resumes, which takes the executor's   *)
(* invariant over.                                                         *)
(***************************************************************************)
EXTENDS Mcp, TLAPS, SequenceTheorems

Undecided == {"ready", "cascade", "gate", "gated", "deciding"}

NotRun == {"denied", "cancelled", "hook_aborted", "audit_latched"}

Ran == {"success", "tool_error", "hook_error"}

-----------------------------------------------------------------------------
(***************************************************************************)
(* The inductive invariant.                                                *)
(***************************************************************************)

\* An attempt's own fields: what it will write and run is what the cascade authorised,
\* and its outcome says whether the tool ran.
Coherent(a) ==
  /\ att[a].pc = "ready" => att[a].id = 0
  /\ att[a].pc \notin {"ready", "done"} => att[a].id > 0
  /\ att[a].pc \in {"ready", "cascade", "gate"} => att[a].verdict = "none"
  /\ att[a].pc \in {"gate", "gated"} => authorised[a] = att[a].input
  /\ att[a].verdict = "Allowed" => authorised[a] = att[a].input /\ att[a].input \in Valid
  /\ att[a].pc = "gated" => att[a].verdict # "Allowed"
  /\ att[a].pc \in {"ready", "cascade", "gate", "gated", "admission", "running", "post"}
       => att[a].outcome = "none"
  /\ att[a].pc = "deciding" =>
       IF att[a].verdict = "Allowed" THEN att[a].outcome = "none" ELSE att[a].outcome \in NotRun
  /\ att[a].pc \in {"admission", "running", "post"} => att[a].verdict = "Allowed"
  /\ att[a].pc \in Undecided \cup {"admission"} => ran[a] = None
  /\ att[a].pc \in {"running", "post"} => ran[a] # None
  /\ ran[a] # None => ran[a] = att[a].input /\ att[a].verdict = "Allowed"
  /\ att[a].outcome \in NotRun => ran[a] = None
  /\ att[a].outcome \in Ran => ran[a] # None
  /\ att[a].outcome = "audit_failure" => att[a].pc = "done" /\ latched[Home[a]]
  /\ att[a].outcome = "audit_latched" => att[a].pc = "done" /\ att[a].id = 0
  /\ att[a].pc = "closing" => att[a].outcome \in NotRun \cup Ran

\* Ids come from one counter per executor.
IdsApart ==
  /\ \A a \in Attempts : att[a].id < next[Home[a]]
  /\ \A e \in Executors : next[e] > 0
  /\ \A a, b \in Attempts :
       a # b /\ Home[a] = Home[b] /\ att[a].id = att[b].id => att[a].id = 0

\* At most one decision and one result per attempt.
OneLineEach ==
  \A i, j \in 1..Len(log) :
    log[i].phase # "run" /\ log[i].phase = log[j].phase /\ log[i].by = log[j].by => i = j

\* Who wrote a line, and how far the writer has come.
LinesOwned ==
  \A i \in 1..Len(log) :
    /\ log[i].phase = "run" => log[i].by \in Executors
    /\ log[i].phase # "run" =>
         /\ log[i].by \in Attempts
         /\ log[i].id = att[log[i].by].id
         /\ att[log[i].by].id > 0
    /\ log[i].phase = "decision" => att[log[i].by].pc \notin Undecided
    /\ log[i].phase = "result" => att[log[i].by].pc \in {"latching", "done"}

\* The synced decision of an attempt that went on after it.
DecidedAt(a, i) ==
  /\ log[i].phase = "decision"
  /\ log[i].by = a
  /\ log[i].verdict = att[a].verdict
  /\ log[i].input = att[a].input

Decided ==
  \A a \in Attempts :
    att[a].pc \in {"admission", "running", "post", "closing"} \/ ran[a] # None
      => \E i \in 1..synced : DecidedAt(a, i)

\* The synced pair of an attempt that returned.
ClosedAt(a, i, j) ==
  /\ i < j
  /\ log[i].phase = "decision"
  /\ log[i].by = a
  /\ log[j].phase = "result"
  /\ log[j].by = a
  /\ log[j].verdict = att[a].outcome

Closed ==
  \A a \in Attempts :
    att[a].pc = "done" /\ att[a].outcome \notin {"audit_failure", "audit_latched"}
      => \E i, j \in 1..synced : ClosedAt(a, i, j)

IInv ==
  /\ TypeOK
  /\ \A a \in Attempts : Coherent(a)
  /\ IdsApart
  /\ OneLineEach
  /\ LinesOwned
  /\ Decided
  /\ Closed

-----------------------------------------------------------------------------
(***************************************************************************)
(* The log.                                                                *)
(***************************************************************************)

\* The log is as before, or has one more line.
Grown(line) ==
  \/ log' = log
  \/ /\ Len(log') = Len(log) + 1
     /\ \A i \in 1..Len(log) : log'[i] = log[i]
     /\ log'[Len(log) + 1] = line

\* A record is a well-typed line of the log.
LEMMA LineType ==
  ASSUME TypeOK,
         NEW phase \in {"decision", "result", "run"}, NEW by \in Attempts \cup Executors,
         NEW id \in Nat, NEW input \in Inputs \cup {None}, NEW verdict \in Verdicts \cup Returns
  PROVE  /\ Line(phase, by, id, input, verdict) \in Lines
         /\ Line(phase, by, id, input, verdict).phase = phase
         /\ Line(phase, by, id, input, verdict).by = by
         /\ Line(phase, by, id, input, verdict).id = id
         /\ Line(phase, by, id, input, verdict).input = input
         /\ Line(phase, by, id, input, verdict).verdict = verdict
  BY DEF Line, Lines, TypeOK

\* What Append does to a log.
LEMMA AppendedLine ==
  ASSUME NEW s \in Seq(Lines), NEW line \in Lines
  PROVE  /\ Append(s, line) \in Seq(Lines)
         /\ Len(s) \in Nat
         /\ Len(Append(s, line)) = Len(s) + 1
         /\ \A i \in 1..Len(s) : Append(s, line)[i] = s[i]
         /\ Append(s, line)[Len(s) + 1] = line
  BY AppendProperties, LenProperties

\* What a power loss leaves of a log.
LEMMA TruncatedLog ==
  ASSUME NEW s \in Seq(Lines), NEW n \in Nat, n <= Len(s)
  PROVE  /\ SubSeq(s, 1, n) \in Seq(Lines)
         /\ Len(SubSeq(s, 1, n)) = n
         /\ \A i \in 1..n : SubSeq(s, 1, n)[i] = s[i]
  BY SubSeqProperties, LenProperties

\* A successful append adds the line and syncs the whole file.
LEMMA AppendOkGrows ==
  ASSUME TypeOK, NEW line \in Lines, AppendOk(line)
  PROVE  /\ log' \in Seq(Lines)
         /\ Len(log') = Len(log) + 1
         /\ \A i \in 1..Len(log) : log'[i] = log[i]
         /\ log'[Len(log) + 1] = line
         /\ synced' = Len(log')
         /\ synced' \in 0..Len(log')
         /\ torn' \in BOOLEAN
  <1>1. log \in Seq(Lines) BY DEF TypeOK
  <1>2. /\ Append(log, line) \in Seq(Lines)
        /\ Len(log) \in Nat
        /\ Len(Append(log, line)) = Len(log) + 1
        /\ \A i \in 1..Len(log) : Append(log, line)[i] = log[i]
        /\ Append(log, line)[Len(log) + 1] = line
    BY <1>1, AppendedLine
  <1>3. log' = Append(log, line) /\ synced' = Len(log) + 1 /\ torn' = FALSE BY DEF AppendOk
  <1>4. torn' \in BOOLEAN BY <1>3
  <1>5. /\ log' \in Seq(Lines)
        /\ Len(log') = Len(log) + 1
        /\ log'[Len(log) + 1] = line
    BY <1>2, <1>3
  <1>6. \A i \in 1..Len(log) : log'[i] = log[i] BY <1>2, <1>3
  <1>7. synced' = Len(log') /\ synced' \in 0..Len(log') BY <1>2, <1>3, <1>5
  <1> QED BY <1>4, <1>5, <1>6, <1>7

\* A failed append adds the line or does not, and syncs nothing.
LEMMA AppendErrGrows ==
  ASSUME TypeOK, NEW line \in Lines, AppendErr(line)
  PROVE  /\ log' \in Seq(Lines)
         /\ Grown(line)
         /\ synced' = synced
         /\ synced' \in 0..Len(log')
         /\ torn' \in BOOLEAN
  <1>1. log \in Seq(Lines) /\ synced \in 0..Len(log) /\ torn \in BOOLEAN BY DEF TypeOK
  <1>2. /\ Append(log, line) \in Seq(Lines)
        /\ Len(log) \in Nat
        /\ Len(Append(log, line)) = Len(log) + 1
        /\ \A i \in 1..Len(log) : Append(log, line)[i] = log[i]
        /\ Append(log, line)[Len(log) + 1] = line
    BY <1>1, AppendedLine
  <1>3. CASE log' = Append(log, line) /\ torn' = FALSE
    <2>1. synced' = synced BY DEF AppendErr
    <2>2. /\ log' \in Seq(Lines)
          /\ Len(log') = Len(log) + 1
          /\ log'[Len(log) + 1] = line
      BY <1>2, <1>3
    <2>3. \A i \in 1..Len(log) : log'[i] = log[i] BY <1>2, <1>3
    <2>4. synced' \in 0..Len(log') BY <1>1, <1>2, <2>1, <2>2
    <2>5. torn' \in BOOLEAN BY <1>3
    <2> QED BY <2>1, <2>2, <2>3, <2>4, <2>5 DEF Grown
  <1>4. CASE log' = log /\ torn' \in BOOLEAN
    BY <1>1, <1>4 DEF AppendErr, Grown
  <1> QED BY <1>1, <1>3, <1>4 DEF AppendErr

-----------------------------------------------------------------------------
(***************************************************************************)
(* Type correctness.                                                       *)
(***************************************************************************)

\* A layer's answer carries an input.
LEMMA AnswerType ==
  ASSUME TypeOK, NEW a \in Attempts, NEW layer \in LayerNames, NEW answer \in LayerAnswers(layer, a)
  PROVE  /\ answer.input \in Inputs \cup {None}
         /\ answer.kind = "allow" => answer.input = att[a].input
  <1> DEFINE Replacements == {Answer("replace", v) : v \in Inputs}
             Plain == {Answer(k, att[a].input) : k \in {"allow", "deny", "defer"}}
  <1>1. answer \in Replacements \cup Plain
    <2>1. CASE layer = "schema" BY <2>1 DEF LayerAnswers, SchemaAnswers
    <2>2. CASE layer = "contract-allowlist" BY <2>2 DEF LayerAnswers, ContractAnswers
    <2>3. CASE layer = "hook_bridge" BY <2>3 DEF LayerAnswers, HookBridgeAnswers
    <2>4. CASE layer = "rule" BY <2>4 DEF LayerAnswers, RuleAnswers
    <2>5. CASE layer = "interactive" BY <2>5 DEF LayerAnswers, InteractiveAnswers
    <2>6. CASE layer = "suspend" BY <2>6 DEF LayerAnswers, SuspendAnswers
    <2>7. CASE layer = "mcp_proceed" BY <2>7 DEF LayerAnswers, ProceedAnswers
    <2> QED BY <2>1, <2>2, <2>3, <2>4, <2>5, <2>6, <2>7 DEF LayerNames
  <1>2. att[a].input \in Inputs \cup {None} BY DEF TypeOK, States
  <1> QED BY <1>1, <1>2 DEF Answer

\* The initial state is well-typed.
LEMMA TypeInit == Init => TypeOK
  <1> SUFFICES ASSUME Init PROVE TypeOK OBVIOUS
  <1>1. Ready \in States BY ToolsAssumption DEF Ready, States, Verdicts, Returns
  <1>2. att \in [Attempts -> States] BY <1>1 DEF Init
  <1>3. log \in Seq(Lines) /\ synced \in 0..Len(log) BY DEF Init
  <1> QED BY <1>2, <1>3 DEF Init, TypeOK

\* Replacing one attempt's state by a well-typed one keeps the attempts well-typed.
LEMMA MoveType ==
  ASSUME TypeOK, NEW a \in Attempts, NEW r \in States, att' = [att EXCEPT ![a] = r]
  PROVE  att' \in [Attempts -> States]
  BY DEF TypeOK

\* What the executor's steps do to an attempt keeps it well-typed.
LEMMA FieldTypes ==
  ASSUME TypeOK, NEW a \in Attempts
  PROVE  /\ \A pc \in {"gate", "running", "post"} : [att[a] EXCEPT !.pc = pc, !.step = 1] \in States
         /\ \A pc \in {"admission", "closing", "latching", "done"} : [att[a] EXCEPT !.pc = pc] \in States
         /\ \A o \in Returns : [att[a] EXCEPT !.pc = "closing", !.outcome = o] \in States
         /\ \A o \in Returns : [att[a] EXCEPT !.pc = "done", !.outcome = o] \in States
         /\ \A v \in Verdicts : [att[a] EXCEPT !.pc = "gated", !.verdict = v] \in States
         /\ \A v \in Verdicts, o \in Returns :
              [att[a] EXCEPT !.pc = "deciding", !.verdict = v, !.outcome = o] \in States
         /\ [att[a] EXCEPT !.step = att[a].step + 1] \in States
         /\ \A v \in Inputs \cup {None} : [att[a] EXCEPT !.input = v, !.step = att[a].step + 1] \in States
  <1>1. att[a] \in States BY DEF TypeOK
  <1>2. \A pc \in {"gate", "running", "post"} : [att[a] EXCEPT !.pc = pc, !.step = 1] \in States
    <2> SUFFICES ASSUME NEW pc \in {"gate", "running", "post"}
                 PROVE  [att[a] EXCEPT !.pc = pc, !.step = 1] \in States
      OBVIOUS
    <2> DEFINE r == [att[a] EXCEPT !.pc = pc]
    <2>1. r \in States BY <1>1 DEF States
    <2>2. [r EXCEPT !.step = 1] \in States
      <3> HIDE DEF r
      <3> QED BY <2>1 DEF States
    <2> QED BY <2>2
  <1>3. \A pc \in {"admission", "closing", "latching", "done"} : [att[a] EXCEPT !.pc = pc] \in States
    BY <1>1 DEF States
  <1>4. \A o \in Returns : [att[a] EXCEPT !.pc = "closing", !.outcome = o] \in States
    BY <1>1 DEF States
  <1>5. \A o \in Returns : [att[a] EXCEPT !.pc = "done", !.outcome = o] \in States
    BY <1>1 DEF States
  <1>6. \A v \in Verdicts : [att[a] EXCEPT !.pc = "gated", !.verdict = v] \in States
    BY <1>1 DEF States
  <1>7. \A v \in Verdicts, o \in Returns :
          [att[a] EXCEPT !.pc = "deciding", !.verdict = v, !.outcome = o] \in States
    <2> SUFFICES ASSUME NEW v \in Verdicts, NEW o \in Returns
                 PROVE  [att[a] EXCEPT !.pc = "deciding", !.verdict = v, !.outcome = o] \in States
      OBVIOUS
    <2> DEFINE r == [att[a] EXCEPT !.pc = "deciding", !.verdict = v]
    <2>1. r \in States BY <1>1 DEF States
    <2>2. [r EXCEPT !.outcome = o] \in States
      <3> HIDE DEF r
      <3> QED BY <2>1 DEF States
    <2> QED BY <2>2
  <1>8. [att[a] EXCEPT !.step = att[a].step + 1] \in States
    BY <1>1 DEF States
  <1>9. \A v \in Inputs \cup {None} : [att[a] EXCEPT !.input = v, !.step = att[a].step + 1] \in States
    <2> SUFFICES ASSUME NEW v \in Inputs \cup {None}
                 PROVE  [att[a] EXCEPT !.input = v, !.step = att[a].step + 1] \in States
      OBVIOUS
    <2> DEFINE r == [att[a] EXCEPT !.input = v]
    <2>1. r \in States BY <1>1 DEF States
    <2>2. [r EXCEPT !.step = att[a].step + 1] \in States
      <3>1. att[a].step + 1 \in Nat \ {0} BY <1>1 DEF States
      <3> HIDE DEF r
      <3> QED BY <2>1, <3>1 DEF States
    <2> QED BY <2>2
  <1> QED BY <1>2, <1>3, <1>4, <1>5, <1>6, <1>7, <1>8, <1>9

\* A step that only moves one attempt keeps the types.
LEMMA QuietType ==
  ASSUME TypeOK, NEW a \in Attempts, NEW r \in States, att' = [att EXCEPT ![a] = r],
         UNCHANGED <<latched, next, loop, cancelled, dead, file, history, failed>>
  PROVE  TypeOK'
  BY MoveType DEF TypeOK, file, history

\* prepare up to the cascade keeps the types.
LEMMA EnterType ==
  ASSUME TypeOK, NEW a \in Attempts, Enter(a)
  PROVE  TypeOK'
  <1>1. PICK tool \in Tools, input \in Inputs :
          att' = [att EXCEPT ![a] =
                    [pc      |-> IF EntryRefusal(a, tool, input) = "none" THEN "cascade" ELSE "deciding",
                     id      |-> next[Home[a]],
                     tool    |-> tool,
                     input   |-> input,
                     step    |-> 1,
                     verdict |-> EntryRefusal(a, tool, input),
                     outcome |-> CASE EntryRefusal(a, tool, input) = "none"         -> "none"
                                   [] EntryRefusal(a, tool, input) = "cancellation" -> "cancelled"
                                   [] OTHER                                         -> "denied"]]
    BY DEF Enter
  <1>2. next[Home[a]] \in Nat BY ExecutorsAssumption DEF TypeOK
  <1>3. EntryRefusal(a, tool, input) \in {"none", "cancellation", "registry", "schema"}
    BY DEF EntryRefusal
  <1>4. att' \in [Attempts -> States]
    <2> DEFINE refusal == EntryRefusal(a, tool, input)
               o == CASE refusal = "none"         -> "none"
                      [] refusal = "cancellation" -> "cancelled"
                      [] OTHER                    -> "denied"
               p == IF refusal = "none" THEN "cascade" ELSE "deciding"
    <2>1. refusal \in Verdicts BY <1>3 DEF Verdicts, LayerNames
    <2>2. o \in Returns BY DEF Returns
    <2>3. p \in {"cascade", "deciding"} OBVIOUS
    <2>4. [pc |-> p, id |-> next[Home[a]], tool |-> tool, input |-> input, step |-> 1,
           verdict |-> refusal, outcome |-> o] \in States
      <3> HIDE DEF refusal, o, p
      <3> QED BY <1>2, <2>1, <2>2, <2>3 DEF States
    <2> QED BY <1>1, <2>4, MoveType
  <1>5. next' \in [Executors -> Nat]
    <2>1. next' = [next EXCEPT ![Home[a]] = next[Home[a]] + 1] BY DEF Enter
    <2>2. next \in [Executors -> Nat] BY DEF TypeOK
    <2> DEFINE n == next[Home[a]] + 1
    <2>3. n \in Nat BY <1>2
    <2> HIDE DEF n
    <2>4. next' = [next EXCEPT ![Home[a]] = n] BY <2>1 DEF n
    <2> QED BY <2>2, <2>3, <2>4
  <1> QED BY <1>4, <1>5 DEF Enter, TypeOK, file, history

\* One layer's answer keeps the types.
LEMMA AskLayerType ==
  ASSUME TypeOK, NEW a \in Attempts, AskLayer(a)
  PROVE  TypeOK'
  <1> DEFINE layer == Cascade[Home[a]][att[a].step]
  <1>1. layer \in LayerNames
    <2>1. att[a].step \in Nat \ {0} BY DEF TypeOK, States
    <2>2. att[a].step <= Len(Cascade[Home[a]]) BY DEF AskLayer
    <2> QED BY <2>1, <2>2, CascadeAssumption, ExecutorsAssumption
  <1> HIDE DEF layer
  <1>2. PICK answer \in LayerAnswers(layer, a) :
          \/ /\ answer.kind = "allow"
             /\ authorised' = [authorised EXCEPT ![a] = answer.input]
             /\ Goto(a, "gate")
          \/ /\ answer.kind = "deny"
             /\ Refuse(a, layer, "denied")
             /\ UNCHANGED authorised
          \/ /\ answer.kind \in {"defer", "replace"}
             /\ att' = [att EXCEPT ![a] = [@ EXCEPT !.input = answer.input, !.step = att[a].step + 1]]
             /\ UNCHANGED authorised
    BY DEF AskLayer, TakeAnswer, layer
  <1>3. answer.input \in Inputs \cup {None} BY <1>1, AnswerType
  <1>4. authorised' \in [Attempts -> Inputs \cup {None}] BY <1>2, <1>3 DEF TypeOK
  <1>5. layer \in Verdicts /\ "denied" \in Returns BY <1>1 DEF Verdicts, Returns
  <1>6. att' \in [Attempts -> States]
    <2>1. CASE Goto(a, "gate") BY <2>1, FieldTypes, MoveType DEF Goto
    <2>2. CASE Refuse(a, layer, "denied") BY <1>5, <2>2, FieldTypes, MoveType DEF Refuse
    <2>3. CASE att' = [att EXCEPT ![a] = [@ EXCEPT !.input = answer.input, !.step = att[a].step + 1]]
      BY <1>3, <2>3, FieldTypes, MoveType
    <2> QED BY <1>2, <2>1, <2>2, <2>3
  <1> QED BY <1>4, <1>6 DEF AskLayer, TakeAnswer, TypeOK, file, history

\* The append of a decision or a result keeps the types.
LEMMA AuditType ==
  ASSUME TypeOK, NEW a \in Attempts, Decide(a) \/ Report(a)
  PROVE  TypeOK'
  <1>1. /\ att[a].id \in Nat
        /\ att[a].input \in Inputs \cup {None}
        /\ att[a].verdict \in Verdicts
        /\ att[a].outcome \in Returns
    BY DEF TypeOK, States
  <1>2. PICK line \in Lines : AppendOk(line) \/ AppendErr(line)
    BY <1>1, LineType DEF Decide, Report
  <1>3. /\ log' \in Seq(Lines)
        /\ synced' \in 0..Len(log')
        /\ torn' \in BOOLEAN
    BY <1>2, AppendOkGrows, AppendErrGrows
  <1>4. failed' \subseteq Executors BY ExecutorsAssumption DEF Decide, Report, TypeOK
  <1>5. att' \in [Attempts -> States]
    <2>1. PICK pc \in {"admission", "closing", "latching", "done"} :
            att' = [att EXCEPT ![a] = [@ EXCEPT !.pc = pc]]
      BY DEF Decide, Report
    <2> QED BY <2>1, FieldTypes, MoveType
  <1> QED BY <1>3, <1>4, <1>5 DEF Decide, Report, TypeOK, history

\* The last look at the token keeps the types.
LEMMA AdmitType ==
  ASSUME TypeOK, NEW a \in Attempts, Admit(a)
  PROVE  TypeOK'
  <1>1. "cancelled" \in Returns BY DEF Returns
  <1>2. att[a].input \in Inputs \cup {None} BY DEF TypeOK, States
  <1>3. CASE a \in cancelled
    <2>1. att' \in [Attempts -> States] BY <1>1, <1>3, FieldTypes, MoveType DEF Admit, Close
    <2>2. ran' = ran BY <1>3 DEF Admit
    <2> QED BY <2>1, <2>2 DEF Admit, TypeOK, file
  <1>4. CASE a \notin cancelled
    <2>1. att' \in [Attempts -> States] BY <1>4, FieldTypes, MoveType DEF Admit, Goto
    <2>2. ran' = [ran EXCEPT ![a] = att[a].input] BY <1>4 DEF Admit
    <2> QED BY <1>2, <2>1, <2>2 DEF Admit, TypeOK, file
  <1> QED BY <1>3, <1>4

\* Every step keeps the types.
LEMMA TypeNext ==
  ASSUME TypeOK, [Next]_vars
  PROVE  TypeOK'
  <1>1. ASSUME NEW a \in Attempts, AttemptStep(a) PROVE TypeOK'
    <2> USE FieldTypes, QuietType
    <2>1. CASE EnterLatched(a)
      <3>1. "audit_latched" \in Returns BY DEF Returns
      <3> QED BY <2>1, <3>1 DEF EnterLatched
    <2>2. CASE Enter(a) BY <2>2, EnterType
    <2>3. CASE AskLayer(a) BY <2>3, AskLayerType
    <2>4. CASE NoLayerAllowed(a)
      <3>1. "cascade" \in Verdicts /\ "denied" \in Returns BY DEF Verdicts, Returns
      <3> QED BY <2>4, <3>1 DEF NoLayerAllowed, Refuse
    <2>5. CASE AskHook(a)
      <3>1. "hook" \in Verdicts BY DEF Verdicts
      <3> QED BY <2>5, <3>1 DEF AskHook
    <2>6. CASE GateProceeds(a)
      <3>1. "none" \in Verdicts BY DEF Verdicts
      <3> QED BY <2>6, <3>1 DEF GateProceeds
    <2>7. CASE LeaveGate(a)
      <3>1. PICK v \in Verdicts, o \in Returns : Refuse(a, v, o)
        BY <2>7 DEF LeaveGate, Verdicts, Returns, LayerNames
      <3> QED BY <2>7, <3>1 DEF LeaveGate, Refuse
    <2>8. CASE Decide(a) \/ Report(a) BY <2>8, AuditType
    <2>9. CASE Admit(a) BY <2>9, AdmitType
    <2>10. CASE ToolReturns(a)
      <3>1. "tool_error" \in Returns BY DEF Returns
      <3> QED BY <2>10, <3>1 DEF ToolReturns, Close, Goto
    <2>11. CASE AskPostHook(a)
      <3>1. "hook_error" \in Returns BY DEF Returns
      <3> QED BY <2>11, <3>1 DEF AskPostHook, Close
    <2>12. CASE PostHooksDone(a)
      <3>1. "success" \in Returns BY DEF Returns
      <3> QED BY <2>12, <3>1 DEF PostHooksDone, Close
    <2>13. CASE Latch(a)
      <3>1. "audit_failure" \in Returns BY DEF Returns
      <3>2. att' \in [Attempts -> States] BY <2>13, <3>1, MoveType DEF Latch
      <3> QED BY <2>13, <3>2 DEF Latch, TypeOK, file, history
    <2> QED BY <1>1, <2>1, <2>2, <2>3, <2>4, <2>5, <2>6, <2>7, <2>8, <2>9, <2>10, <2>11, <2>12, <2>13
            DEF AttemptStep
  <1>2. ASSUME NEW a \in Attempts, Cancel(a) PROVE TypeOK'
    BY <1>2 DEF Cancel, TypeOK, file, history
  <1>3. ASSUME NEW e \in Executors, CheckRunEvent(e) PROVE TypeOK'
    BY <1>3 DEF CheckRunEvent, TypeOK, file, history
  <1>4. ASSUME NEW e \in Executors, WriteRunEvent(e) PROVE TypeOK'
    <2>1. Line("run", e, 0, None, "none") \in Lines BY LineType DEF Returns
    <2>2. /\ log' \in Seq(Lines)
          /\ synced' \in 0..Len(log')
          /\ torn' \in BOOLEAN
      BY <1>4, <2>1, AppendOkGrows, AppendErrGrows DEF WriteRunEvent
    <2> QED BY <1>4, <2>2 DEF WriteRunEvent, TypeOK, history
  <1>5. ASSUME NEW e \in Executors, Kill(e) PROVE TypeOK'
    BY <1>5 DEF Kill, TypeOK, file, history
  <1>6. CASE PowerLoss
    <2>1. PICK n \in synced..Len(log) : log' = SubSeq(log, 1, n) BY <1>6 DEF PowerLoss
    <2>2. log \in Seq(Lines) /\ Len(log) \in Nat /\ synced \in 0..Len(log) BY LenProperties DEF TypeOK
    <2>3. n \in Nat /\ n <= Len(log) /\ synced <= n BY <2>2
    <2>4. log' \in Seq(Lines) /\ Len(log') = n BY <2>1, <2>2, <2>3, TruncatedLog
    <2>5. synced' \in 0..Len(log') BY <1>6, <2>2, <2>3, <2>4 DEF PowerLoss
    <2> QED BY <1>6, <2>4, <2>5 DEF PowerLoss, TypeOK, history
  <1>7. CASE UNCHANGED vars BY <1>7 DEF vars, file, history, TypeOK
  <1> QED BY <1>1, <1>2, <1>3, <1>4, <1>5, <1>6, <1>7 DEF Next

-----------------------------------------------------------------------------
(***************************************************************************)
(* Steps that leave the log alone.                                         *)
(***************************************************************************)

Sealed == {"admission", "running", "post", "closing"}

Returned(o) == o \notin {"audit_failure", "audit_latched"}

\* Only attempt a moves, forwards, and nothing it has on record changes.
Quiet(a) ==
  /\ \A b \in Attempts :
       b # a => att'[b] = att[b] /\ authorised'[b] = authorised[b] /\ ran'[b] = ran[b]
  /\ \A e \in Executors : latched[e] => latched'[e]
  /\ next' = next
  /\ log' = log
  /\ synced' = synced
  /\ att'[a].id = att[a].id
  /\ att[a].pc \notin Undecided => att'[a].pc \notin Undecided
  /\ att[a].pc \in {"latching", "done"} => att'[a].pc \in {"latching", "done"}
  /\ att'[a].pc \in Sealed \/ ran'[a] # None =>
       /\ att[a].pc \in Sealed \/ ran[a] # None
       /\ att'[a].verdict = att[a].verdict
       /\ att'[a].input = att[a].input
  /\ att'[a].pc = "done" /\ Returned(att'[a].outcome) =>
       att[a].pc = "done" /\ att'[a].outcome = att[a].outcome

\* An attempt that does not move stays coherent.
LEMMA OthersCoherent ==
  ASSUME TypeOK, NEW b \in Attempts, Coherent(b),
         att'[b] = att[b], authorised'[b] = authorised[b], ran'[b] = ran[b],
         \A e \in Executors : latched[e] => latched'[e]
  PROVE  Coherent(b)'
  <1>1. Home[b] \in Executors BY ExecutorsAssumption
  <1> QED BY <1>1 DEF Coherent

\* A quiet step keeps the invariant.
LEMMA QuietKeeps ==
  ASSUME IInv, TypeOK', NEW a \in Attempts, Quiet(a), Coherent(a)'
  PROVE  IInv'
  <1>1. \A b \in Attempts : Coherent(b)' BY OthersCoherent DEF IInv, Quiet
  <1>2. IdsApart' BY DEF IInv, IdsApart, Quiet
  <1>3. OneLineEach' BY DEF IInv, OneLineEach, Quiet
  <1>4. LinesOwned' BY DEF IInv, LinesOwned, Quiet
  <1>5. Decided'
    <2> SUFFICES ASSUME NEW b \in Attempts, att'[b].pc \in Sealed \/ ran'[b] # None
                 PROVE  \E i \in 1..synced' : DecidedAt(b, i)'
      BY DEF Decided, Sealed
    <2>1. /\ att[b].pc \in Sealed \/ ran[b] # None
          /\ att'[b].verdict = att[b].verdict
          /\ att'[b].input = att[b].input
      BY DEF Quiet
    <2>2. PICK i \in 1..synced : DecidedAt(b, i) BY <2>1 DEF IInv, Decided, Sealed
    <2> QED BY <2>1, <2>2 DEF DecidedAt, Quiet
  <1>6. Closed'
    <2> SUFFICES ASSUME NEW b \in Attempts, att'[b].pc = "done", Returned(att'[b].outcome)
                 PROVE  \E i, j \in 1..synced' : ClosedAt(b, i, j)'
      BY DEF Closed, Returned
    <2>1. att[b].pc = "done" /\ att'[b].outcome = att[b].outcome BY DEF Quiet
    <2>2. PICK i \in 1..synced, j \in 1..synced : ClosedAt(b, i, j)
      BY <2>1 DEF IInv, Closed, Returned
    <2> QED BY <2>1, <2>2 DEF ClosedAt, Quiet
  <1> QED BY <1>1, <1>2, <1>3, <1>4, <1>5, <1>6 DEF IInv

\* Every attempt step that writes nothing and is not the entry is quiet and coherent.
LEMMA QuietSteps ==
  ASSUME IInv, NEW a \in Attempts,
         \/ EnterLatched(a) \/ NoLayerAllowed(a) \/ AskHook(a) \/ GateProceeds(a) \/ LeaveGate(a)
         \/ Admit(a) \/ ToolReturns(a) \/ AskPostHook(a) \/ PostHooksDone(a) \/ Latch(a)
  PROVE  Quiet(a) /\ Coherent(a)'
  <1>1. TypeOK /\ Coherent(a) BY DEF IInv
  <1>2. /\ att \in [Attempts -> States]
        /\ authorised \in [Attempts -> Inputs \cup {None}]
        /\ ran \in [Attempts -> Inputs \cup {None}]
        /\ latched \in [Executors -> BOOLEAN]
    BY <1>1 DEF TypeOK
  <1>3. att[a] \in States /\ Home[a] \in Executors BY <1>2, ExecutorsAssumption
  <1>4. Valid \subseteq Inputs /\ None \notin Inputs BY InputsAssumption
  <1>5. Coherent(a) BY <1>1
  <1>6. CASE EnterLatched(a)
    BY <1>2, <1>3, <1>4, <1>5, <1>6
       DEF EnterLatched, At, Quiet, Coherent, Undecided, Sealed, Returned, NotRun, Ran, States,
           file, history
  <1>7. CASE NoLayerAllowed(a)
    BY <1>2, <1>3, <1>4, <1>5, <1>7
       DEF NoLayerAllowed, At, Refuse, Quiet, Coherent, Undecided, Sealed, Returned, NotRun, Ran, States,
           file, history
  <1>8. CASE AskHook(a)
    <2>1. att[a].pc = "gate" /\ UNCHANGED <<latched, next, log, synced, authorised, ran>>
      BY <1>8 DEF AskHook, At, file, history
    <2>2. CASE att' = [att EXCEPT ![a] = [@ EXCEPT !.step = att[a].step + 1]]
      BY <1>2, <1>3, <1>4, <1>5, <2>1, <2>2
         DEF Quiet, Coherent, Undecided, Sealed, Returned, NotRun, Ran, States,
             file, history
    <2>3. CASE att' = [att EXCEPT ![a] = [@ EXCEPT !.pc = "gated", !.verdict = "hook"]]
      BY <1>2, <1>3, <1>4, <1>5, <2>1, <2>3
         DEF Quiet, Coherent, Undecided, Sealed, Returned, NotRun, Ran, States,
             file, history
    <2> QED BY <1>8, <2>2, <2>3 DEF AskHook
  <1>9. CASE GateProceeds(a)
    BY <1>2, <1>3, <1>4, <1>5, <1>9
       DEF GateProceeds, At, Quiet, Coherent, Undecided, Sealed, Returned, NotRun, Ran, States,
           file, history
  <1>10. CASE LeaveGate(a)
    <2>1. att[a].pc = "gated" /\ UNCHANGED <<latched, next, log, synced, authorised, ran>>
      BY <1>10 DEF LeaveGate, At, file, history
    <2>2. CASE Refuse(a, "cancellation", "cancelled")
      BY <1>2, <1>3, <1>4, <1>5, <2>1, <2>2
         DEF Refuse, Quiet, Coherent, Undecided, Sealed, Returned, NotRun, Ran, States,
             file, history
    <2>3. CASE Refuse(a, "hook", "hook_aborted")
      BY <1>2, <1>3, <1>4, <1>5, <2>1, <2>3
         DEF Refuse, Quiet, Coherent, Undecided, Sealed, Returned, NotRun, Ran, States,
             file, history
    <2>4. CASE Refuse(a, "schema", "denied")
      BY <1>2, <1>3, <1>4, <1>5, <2>1, <2>4
         DEF Refuse, Quiet, Coherent, Undecided, Sealed, Returned, NotRun, Ran, States,
             file, history
    <2>5. CASE Refuse(a, "Allowed", "none") /\ att[a].input \in Valid
      BY <1>2, <1>3, <1>4, <1>5, <2>1, <2>5
         DEF Refuse, Quiet, Coherent, Undecided, Sealed, Returned, NotRun, Ran, States,
             file, history
    <2> QED BY <1>10, <2>2, <2>3, <2>4, <2>5 DEF LeaveGate
  <1>11. CASE Admit(a)
    <2>1. att[a].pc = "admission" /\ UNCHANGED <<latched, next, log, synced, authorised>>
      BY <1>11 DEF Admit, At, file, history
    <2>2. CASE Close(a, "cancelled") /\ ran' = ran
      BY <1>2, <1>3, <1>4, <1>5, <2>1, <2>2
         DEF Close, Quiet, Coherent, Undecided, Sealed, Returned, NotRun, Ran, States,
             file, history
    <2>3. CASE Goto(a, "running") /\ ran' = [ran EXCEPT ![a] = att[a].input]
      BY <1>2, <1>3, <1>4, <1>5, <2>1, <2>3
         DEF Goto, Quiet, Coherent, Undecided, Sealed, Returned, NotRun, Ran, States,
             file, history
    <2> QED BY <1>11, <2>2, <2>3 DEF Admit
  <1>12. CASE ToolReturns(a)
    <2>1. att[a].pc = "running" /\ UNCHANGED <<latched, next, log, synced, authorised, ran>>
      BY <1>12 DEF ToolReturns, At, file, history
    <2>2. CASE Goto(a, "post")
      BY <1>2, <1>3, <1>4, <1>5, <2>1, <2>2
         DEF Goto, Quiet, Coherent, Undecided, Sealed, Returned, NotRun, Ran, States,
             file, history
    <2>3. CASE Close(a, "tool_error")
      BY <1>2, <1>3, <1>4, <1>5, <2>1, <2>3
         DEF Close, Quiet, Coherent, Undecided, Sealed, Returned, NotRun, Ran, States,
             file, history
    <2> QED BY <1>12, <2>2, <2>3 DEF ToolReturns
  <1>13. CASE AskPostHook(a)
    <2>1. att[a].pc = "post" /\ UNCHANGED <<latched, next, log, synced, authorised, ran>>
      BY <1>13 DEF AskPostHook, At, file, history
    <2>2. CASE att' = [att EXCEPT ![a] = [@ EXCEPT !.step = att[a].step + 1]]
      BY <1>2, <1>3, <1>4, <1>5, <2>1, <2>2
         DEF Quiet, Coherent, Undecided, Sealed, Returned, NotRun, Ran, States,
             file, history
    <2>3. CASE Close(a, "hook_error")
      BY <1>2, <1>3, <1>4, <1>5, <2>1, <2>3
         DEF Close, Quiet, Coherent, Undecided, Sealed, Returned, NotRun, Ran, States,
             file, history
    <2> QED BY <1>13, <2>2, <2>3 DEF AskPostHook
  <1>14. CASE PostHooksDone(a)
    BY <1>2, <1>3, <1>4, <1>5, <1>14
       DEF PostHooksDone, At, Close, Quiet, Coherent, Undecided, Sealed, Returned, NotRun, Ran, States,
           file, history
  <1>15. CASE Latch(a)
    BY <1>2, <1>3, <1>4, <1>5, <1>15
       DEF Latch, At, Quiet, Coherent, Undecided, Sealed, Returned, NotRun, Ran, States,
           file, history
  <1> QED BY <1>6, <1>7, <1>8, <1>9, <1>10, <1>11, <1>12, <1>13, <1>14, <1>15

\* One layer's answer is quiet and coherent.
LEMMA AskLayerQuiet ==
  ASSUME IInv, NEW a \in Attempts, AskLayer(a)
  PROVE  Quiet(a) /\ Coherent(a)'
  <1>1. TypeOK /\ Coherent(a) BY DEF IInv
  <1>2. /\ att \in [Attempts -> States]
        /\ authorised \in [Attempts -> Inputs \cup {None}]
        /\ ran \in [Attempts -> Inputs \cup {None}]
    BY <1>1 DEF TypeOK
  <1>3. att[a] \in States /\ Home[a] \in Executors BY <1>2, ExecutorsAssumption
  <1>4. att[a].pc = "cascade" /\ UNCHANGED <<latched, next, log, synced, ran>>
    BY DEF AskLayer, TakeAnswer, At, file
  <1>5. Coherent(a) BY <1>1
  <1> DEFINE layer == Cascade[Home[a]][att[a].step]
  <1>6. layer \in LayerNames
    <2>1. att[a].step \in Nat \ {0} BY <1>3 DEF States
    <2>2. att[a].step <= Len(Cascade[Home[a]]) BY DEF AskLayer
    <2> QED BY <2>1, <2>2, CascadeAssumption, ExecutorsAssumption
  <1> HIDE DEF layer
  <1>7. PICK answer \in LayerAnswers(layer, a) :
          \/ /\ answer.kind = "allow"
             /\ authorised' = [authorised EXCEPT ![a] = answer.input]
             /\ Goto(a, "gate")
          \/ /\ answer.kind = "deny"
             /\ Refuse(a, layer, "denied")
             /\ UNCHANGED authorised
          \/ /\ answer.kind \in {"defer", "replace"}
             /\ att' = [att EXCEPT ![a] = [@ EXCEPT !.input = answer.input, !.step = att[a].step + 1]]
             /\ UNCHANGED authorised
    BY DEF AskLayer, TakeAnswer, layer
  <1>8. answer.kind = "allow" => answer.input = att[a].input BY <1>1, <1>6, AnswerType
  <1>9. layer # "Allowed" BY <1>6 DEF LayerNames
  <1>10. CASE /\ answer.kind = "allow"
              /\ authorised' = [authorised EXCEPT ![a] = answer.input]
              /\ Goto(a, "gate")
    BY <1>2, <1>3, <1>4, <1>5, <1>8, <1>10
       DEF Goto, Quiet, Coherent, Undecided, Sealed, Returned, NotRun, Ran, States
  <1>11. CASE Refuse(a, layer, "denied") /\ authorised' = authorised
    BY <1>2, <1>3, <1>4, <1>5, <1>9, <1>11
       DEF Refuse, Quiet, Coherent, Undecided, Sealed, Returned, NotRun, Ran, States
  <1>12. CASE /\ att' = [att EXCEPT ![a] = [@ EXCEPT !.input = answer.input, !.step = att[a].step + 1]]
              /\ authorised' = authorised
    BY <1>2, <1>3, <1>4, <1>5, <1>12
       DEF Quiet, Coherent, Undecided, Sealed, Returned, NotRun, Ran, States
  <1> QED BY <1>7, <1>10, <1>11, <1>12

-----------------------------------------------------------------------------
(***************************************************************************)
(* The entry.                                                              *)
(***************************************************************************)

\* Taking the next id keeps the invariant: the attempt has no line yet.
LEMMA EnterKeeps ==
  ASSUME IInv, TypeOK', NEW a \in Attempts, Enter(a)
  PROVE  IInv'
  <1>1. TypeOK /\ Coherent(a) /\ IdsApart BY DEF IInv
  <1>2. /\ att \in [Attempts -> States]
        /\ next \in [Executors -> Nat]
        /\ Home[a] \in Executors
        /\ next[Home[a]] \in Nat
        /\ next[Home[a]] > 0
    BY <1>1, ExecutorsAssumption DEF TypeOK, IdsApart
  <1>3. /\ att[a].pc = "ready"
        /\ att[a].id = 0
        /\ next' = [next EXCEPT ![Home[a]] = next[Home[a]] + 1]
        /\ UNCHANGED <<latched, log, synced, authorised, ran>>
    BY <1>1 DEF Enter, At, Coherent, file, history
  <1>4. PICK tool \in Tools, input \in Inputs :
          att' = [att EXCEPT ![a] =
                    [pc      |-> IF EntryRefusal(a, tool, input) = "none" THEN "cascade" ELSE "deciding",
                     id      |-> next[Home[a]],
                     tool    |-> tool,
                     input   |-> input,
                     step    |-> 1,
                     verdict |-> EntryRefusal(a, tool, input),
                     outcome |-> CASE EntryRefusal(a, tool, input) = "none"         -> "none"
                                   [] EntryRefusal(a, tool, input) = "cancellation" -> "cancelled"
                                   [] OTHER                                         -> "denied"]]
    BY DEF Enter
  <1> DEFINE refusal == EntryRefusal(a, tool, input)
  <1>5. refusal \in {"none", "cancellation", "registry", "schema"}
    BY DEF EntryRefusal
  <1>6. \A b \in Attempts : b # a => att'[b] = att[b] BY <1>2, <1>4
  <1>7. /\ att'[a].pc = IF refusal = "none" THEN "cascade" ELSE "deciding"
        /\ att'[a].id = next[Home[a]]
        /\ att'[a].verdict = refusal
        /\ att'[a].outcome = CASE refusal = "none"         -> "none"
                               [] refusal = "cancellation" -> "cancelled"
                               [] OTHER                    -> "denied"
    BY <1>2, <1>4
  <1> HIDE DEF refusal
  <1>8. Coherent(a)'
    <2>1. ran[a] = None BY <1>1, <1>3 DEF Coherent, Undecided
    <2>2. CASE refusal = "none"
      BY <1>2, <1>3, <1>7, <2>1, <2>2 DEF Coherent, Undecided, NotRun, Ran
    <2>3. CASE refusal = "cancellation"
      BY <1>2, <1>3, <1>7, <2>1, <2>3 DEF Coherent, Undecided, NotRun, Ran
    <2>4. CASE refusal \in {"registry", "schema"}
      BY <1>2, <1>3, <1>7, <2>1, <2>4 DEF Coherent, Undecided, NotRun, Ran
    <2> QED BY <1>5, <2>2, <2>3, <2>4
  <1>9. \A b \in Attempts : Coherent(b)'
    BY <1>1, <1>3, <1>6, <1>8, OthersCoherent DEF IInv
  <1>10. IdsApart'
    <2>1. \A e \in Executors : next'[e] \in Nat /\ next[e] \in Nat /\ next'[e] >= next[e]
      BY <1>2, <1>3
    <2>2. next'[Home[a]] = next[Home[a]] + 1 BY <1>2, <1>3
    <2>3. \A b \in Attempts : Home[b] \in Executors /\ att[b].id \in Nat
      BY <1>2, ExecutorsAssumption DEF States
    <2>4. \A b \in Attempts : att[b].id < next[Home[b]] BY <1>1 DEF IdsApart
    <2>5. \A b \in Attempts : att'[b].id < next'[Home[b]]
      BY <1>2, <1>6, <1>7, <2>1, <2>2, <2>3, <2>4
    <2>6. \A e \in Executors : next'[e] > 0 BY <1>1, <2>1 DEF IdsApart
    <2>7. ASSUME NEW b \in Attempts, NEW c \in Attempts, b # c, Home[b] = Home[c], att'[b].id = att'[c].id
          PROVE  att'[b].id = 0
      <3>1. CASE b # a /\ c # a BY <1>1, <1>6, <2>7, <3>1 DEF IdsApart
      <3>2. CASE b = a BY <1>2, <1>6, <1>7, <2>3, <2>4, <2>7, <3>2
      <3>3. CASE c = a BY <1>2, <1>6, <1>7, <2>3, <2>4, <2>7, <3>3
      <3> QED BY <3>1, <3>2, <3>3
    <2> QED BY <2>5, <2>6, <2>7 DEF IdsApart
  <1>11. OneLineEach' BY <1>3 DEF IInv, OneLineEach
  <1>12. LinesOwned'
    <2>1. \A i \in 1..Len(log) : log[i].phase # "run" => log[i].by # a
      BY <1>3 DEF IInv, LinesOwned
    <2>2. \A i \in 1..Len(log) : log[i].phase \in {"decision", "result", "run"}
      <3>1. log \in Seq(Lines) BY <1>1 DEF TypeOK
      <3>2. \A i \in 1..Len(log) : log[i] \in Lines BY <3>1
      <3> QED BY <3>2 DEF Lines
    <2> QED BY <1>3, <1>6, <2>1, <2>2 DEF IInv, LinesOwned
  <1>13. Decided'
    <2> SUFFICES ASSUME NEW b \in Attempts, att'[b].pc \in Sealed \/ ran'[b] # None
                 PROVE  \E i \in 1..synced' : DecidedAt(b, i)'
      BY DEF Decided, Sealed
    <2>1. b # a BY <1>1, <1>3, <1>7 DEF Coherent, Undecided, Sealed
    <2>2. PICK i \in 1..synced : DecidedAt(b, i) BY <1>3, <1>6, <2>1 DEF IInv, Decided, Sealed
    <2> QED BY <1>3, <1>6, <2>1, <2>2 DEF DecidedAt
  <1>14. Closed'
    <2> SUFFICES ASSUME NEW b \in Attempts, att'[b].pc = "done", Returned(att'[b].outcome)
                 PROVE  \E i, j \in 1..synced' : ClosedAt(b, i, j)'
      BY DEF Closed, Returned
    <2>1. b # a BY <1>7
    <2>2. PICK i \in 1..synced, j \in 1..synced : ClosedAt(b, i, j)
      BY <1>6, <2>1 DEF IInv, Closed, Returned
    <2> QED BY <1>3, <1>6, <2>1, <2>2 DEF ClosedAt
  <1> QED BY <1>9, <1>10, <1>11, <1>12, <1>13, <1>14 DEF IInv

-----------------------------------------------------------------------------
(***************************************************************************)
(* Appends.                                                                *)
(***************************************************************************)

\* The file has grown by at most `line`, and what was synced still is.
Extended(line) ==
  /\ Len(log) \in Nat
  /\ Len(log') \in Nat
  /\ synced \in 0..Len(log)
  /\ synced' \in 0..Len(log')
  /\ synced <= synced'
  /\ Grown(line)

\* Any append extends the file.
LEMMA AppendExtends ==
  ASSUME TypeOK, NEW line \in Lines, AppendOk(line) \/ AppendErr(line)
  PROVE  Extended(line)
  <1>1. Len(log) \in Nat /\ synced \in 0..Len(log) BY LenProperties DEF TypeOK
  <1>2. CASE AppendOk(line)
    <2>1. /\ Len(log') = Len(log) + 1
          /\ \A i \in 1..Len(log) : log'[i] = log[i]
          /\ log'[Len(log) + 1] = line
          /\ synced' = Len(log')
      BY <1>2, AppendOkGrows
    <2> QED BY <1>1, <2>1 DEF Extended, Grown
  <1>3. CASE AppendErr(line)
    <2>1. Grown(line) /\ synced' = synced /\ synced' \in 0..Len(log') /\ log' \in Seq(Lines)
      BY <1>3, AppendErrGrows
    <2>2. Len(log') \in Nat BY <2>1, LenProperties
    <2> QED BY <1>1, <2>1, <2>2 DEF Extended
  <1> QED BY <1>2, <1>3

\* What was on record before an append still is.
LEMMA ExtendedKeeps ==
  ASSUME NEW line, Extended(line)
  PROVE  /\ \A i \in 1..synced : i \in 1..synced' /\ log'[i] = log[i]
         /\ \A i \in 1..Len(log') :
              \/ i \in 1..Len(log) /\ log'[i] = log[i]
              \/ i = Len(log) + 1 /\ log'[i] = line
  BY DEF Extended, Grown

\* An append for attempt a that moves it forwards keeps the shape of the log.
LEMMA AuditKeepsLines ==
  ASSUME IInv, NEW a \in Attempts, NEW line \in Lines, Extended(line),
         line.by = a, line.id = att[a].id, att[a].id > 0, line.phase \in {"decision", "result"},
         \A i \in 1..Len(log) : ~ (log[i].phase = line.phase /\ log[i].by = a),
         \A b \in Attempts : b # a => att'[b] = att[b],
         att'[a].id = att[a].id,
         att'[a].pc \notin Undecided,
         line.phase = "result" => att'[a].pc \in {"latching", "done"},
         att[a].pc \notin {"latching", "done"}
  PROVE  OneLineEach' /\ LinesOwned'
  <1>1. \A i \in 1..Len(log') :
          \/ i \in 1..Len(log) /\ log'[i] = log[i]
          \/ i = Len(log) + 1 /\ log'[i] = line
    BY ExtendedKeeps
  <1>2. OneLineEach' BY <1>1 DEF IInv, OneLineEach
  <1>3. LinesOwned'
    <2> SUFFICES ASSUME NEW i \in 1..Len(log')
                 PROVE  /\ log'[i].phase = "run" => log'[i].by \in Executors
                        /\ log'[i].phase # "run" =>
                             /\ log'[i].by \in Attempts
                             /\ log'[i].id = att'[log'[i].by].id
                             /\ att'[log'[i].by].id > 0
                        /\ log'[i].phase = "decision" => att'[log'[i].by].pc \notin Undecided
                        /\ log'[i].phase = "result" => att'[log'[i].by].pc \in {"latching", "done"}
      BY DEF LinesOwned
    <2>1. CASE i \in 1..Len(log) /\ log'[i] = log[i] BY <2>1 DEF IInv, LinesOwned
    <2>2. CASE log'[i] = line BY <2>2
    <2> QED BY <1>1, <2>1, <2>2
  <1> QED BY <1>2, <1>3

\* The decision's append keeps the invariant.
LEMMA DecideKeeps ==
  ASSUME IInv, TypeOK', NEW a \in Attempts, Decide(a)
  PROVE  IInv'
  <1>1. TypeOK /\ Coherent(a) BY DEF IInv
  <1>2. /\ att \in [Attempts -> States]
        /\ att[a] \in States
        /\ att[a].pc = "deciding"
        /\ att[a].id > 0
        /\ UNCHANGED <<latched, next, authorised, ran>>
    BY <1>1 DEF TypeOK, Decide, At, Coherent, history
  <1> DEFINE line == Line("decision", a, att[a].id, att[a].input, att[a].verdict)
  <1>3. /\ line \in Lines
        /\ line.phase = "decision"
        /\ line.by = a
        /\ line.id = att[a].id
        /\ line.input = att[a].input
        /\ line.verdict = att[a].verdict
    <2>1. /\ att[a].id \in Nat
          /\ att[a].input \in Inputs \cup {None}
          /\ att[a].verdict \in Verdicts \cup Returns
      BY <1>2 DEF States
    <2> QED BY <1>1, <2>1, LineType
  <1>4. \/ /\ AppendOk(line)
           /\ att' = [att EXCEPT ![a] = [@ EXCEPT
                        !.pc = IF att[a].verdict = "Allowed" THEN "admission" ELSE "closing"]]
        \/ /\ AppendErr(line)
           /\ att' = [att EXCEPT ![a] = [@ EXCEPT !.pc = "latching"]]
    BY DEF Decide
  <1> HIDE DEF line
  <1>5. Extended(line) BY <1>1, <1>3, <1>4, AppendExtends
  <1>6. /\ \A b \in Attempts : b # a => att'[b] = att[b]
        /\ att'[a].id = att[a].id
        /\ att'[a].verdict = att[a].verdict
        /\ att'[a].input = att[a].input
        /\ att'[a].outcome = att[a].outcome
        /\ \/ AppendOk(line) /\ att'[a].pc = IF att[a].verdict = "Allowed" THEN "admission" ELSE "closing"
           \/ att'[a].pc = "latching"
    BY <1>2, <1>4 DEF States
  <1>7. Coherent(a)'
    BY <1>1, <1>2, <1>6 DEF Coherent, Undecided, NotRun, Ran
  <1>8. \A b \in Attempts : Coherent(b)'
    BY <1>1, <1>2, <1>6, <1>7, OthersCoherent DEF IInv
  <1>9. IdsApart' BY <1>2, <1>6 DEF IInv, IdsApart
  <1>10. OneLineEach' /\ LinesOwned'
    <2>1. \A i \in 1..Len(log) : ~ (log[i].phase = "decision" /\ log[i].by = a)
      BY <1>2 DEF IInv, LinesOwned, Undecided
    <2>2. att'[a].pc \notin Undecided BY <1>6 DEF Undecided
    <2> QED BY <1>2, <1>3, <1>5, <1>6, <2>1, <2>2, AuditKeepsLines
  <1>11. \A i \in 1..synced : i \in 1..synced' /\ log'[i] = log[i] BY <1>5, ExtendedKeeps
  <1>12. Decided'
    <2> SUFFICES ASSUME NEW b \in Attempts, att'[b].pc \in Sealed \/ ran'[b] # None
                 PROVE  \E i \in 1..synced' : DecidedAt(b, i)'
      BY DEF Decided, Sealed
    <2>1. CASE b # a
      <3>1. PICK i \in 1..synced : DecidedAt(b, i) BY <1>2, <1>6, <2>1 DEF IInv, Decided, Sealed
      <3> QED BY <1>6, <1>11, <2>1, <3>1 DEF DecidedAt
    <2>2. CASE b = a
      <3>1. ran[a] = None BY <1>1, <1>2 DEF Coherent, Undecided
      <3>2. AppendOk(line) BY <1>2, <1>6, <2>2, <3>1 DEF Sealed
      <3>3. /\ Len(log') = Len(log) + 1
            /\ log'[Len(log) + 1] = line
            /\ synced' = Len(log')
            /\ Len(log) \in Nat
        BY <1>1, <1>3, <1>5, <3>2, AppendOkGrows DEF Extended
      <3> PICK n \in Nat : n = Len(log) + 1 BY <3>3
      <3>4. n \in 1..synced' BY <3>3
      <3>5. DecidedAt(a, n)' BY <1>3, <1>6, <3>3 DEF DecidedAt
      <3> QED BY <2>2, <3>4, <3>5
    <2> QED BY <2>1, <2>2
  <1>13. Closed'
    <2> SUFFICES ASSUME NEW b \in Attempts, att'[b].pc = "done", Returned(att'[b].outcome)
                 PROVE  \E i, j \in 1..synced' : ClosedAt(b, i, j)'
      BY DEF Closed, Returned
    <2>1. b # a BY <1>6
    <2>2. PICK i \in 1..synced, j \in 1..synced : ClosedAt(b, i, j)
      BY <1>6, <2>1 DEF IInv, Closed, Returned
    <2> QED BY <1>6, <1>11, <2>1, <2>2 DEF ClosedAt
  <1> QED BY <1>8, <1>9, <1>10, <1>12, <1>13 DEF IInv

\* The result's append keeps the invariant.
LEMMA ReportKeeps ==
  ASSUME IInv, TypeOK', NEW a \in Attempts, Report(a)
  PROVE  IInv'
  <1>1. TypeOK /\ Coherent(a) BY DEF IInv
  <1>2. /\ att \in [Attempts -> States]
        /\ att[a] \in States
        /\ att[a].pc = "closing"
        /\ att[a].id > 0
        /\ UNCHANGED <<latched, next, authorised, ran>>
    BY <1>1 DEF TypeOK, Report, At, Coherent, history
  <1> DEFINE line == Line("result", a, att[a].id, None, att[a].outcome)
  <1>3. /\ line \in Lines
        /\ line.phase = "result"
        /\ line.by = a
        /\ line.id = att[a].id
        /\ line.verdict = att[a].outcome
    <2>1. /\ att[a].id \in Nat
          /\ att[a].outcome \in Verdicts \cup Returns
      BY <1>2 DEF States
    <2> QED BY <1>1, <2>1 DEF Line, Lines, TypeOK
  <1>4. \/ /\ AppendOk(line)
           /\ att' = [att EXCEPT ![a] = [@ EXCEPT !.pc = "done"]]
        \/ /\ AppendErr(line)
           /\ att' = [att EXCEPT ![a] = [@ EXCEPT !.pc = "latching"]]
    BY DEF Report
  <1> HIDE DEF line
  <1>5. Extended(line) BY <1>1, <1>3, <1>4, AppendExtends
  <1>6. /\ \A b \in Attempts : b # a => att'[b] = att[b]
        /\ att'[a].id = att[a].id
        /\ att'[a].verdict = att[a].verdict
        /\ att'[a].input = att[a].input
        /\ att'[a].outcome = att[a].outcome
        /\ \/ AppendOk(line) /\ att'[a].pc = "done"
           \/ att'[a].pc = "latching"
    BY <1>2, <1>4 DEF States
  <1>7. Coherent(a)'
    BY <1>1, <1>2, <1>6 DEF Coherent, Undecided, NotRun, Ran
  <1>8. \A b \in Attempts : Coherent(b)'
    BY <1>1, <1>2, <1>6, <1>7, OthersCoherent DEF IInv
  <1>9. IdsApart' BY <1>2, <1>6 DEF IInv, IdsApart
  <1>10. OneLineEach' /\ LinesOwned'
    <2>1. \A i \in 1..Len(log) : ~ (log[i].phase = "result" /\ log[i].by = a)
      BY <1>2 DEF IInv, LinesOwned
    <2>2. att'[a].pc \notin Undecided /\ att'[a].pc \in {"latching", "done"} BY <1>6 DEF Undecided
    <2> QED BY <1>2, <1>3, <1>5, <1>6, <2>1, <2>2, AuditKeepsLines
  <1>11. \A i \in 1..synced : i \in 1..synced' /\ log'[i] = log[i] BY <1>5, ExtendedKeeps
  <1>12. Decided'
    <2> SUFFICES ASSUME NEW b \in Attempts, att'[b].pc \in Sealed \/ ran'[b] # None
                 PROVE  \E i \in 1..synced' : DecidedAt(b, i)'
      BY DEF Decided, Sealed
    <2>1. PICK i \in 1..synced : DecidedAt(b, i) BY <1>2, <1>6 DEF IInv, Decided, Sealed
    <2>2. att'[b].verdict = att[b].verdict /\ att'[b].input = att[b].input BY <1>6
    <2> QED BY <1>11, <2>1, <2>2 DEF DecidedAt
  <1>13. Closed'
    <2> SUFFICES ASSUME NEW b \in Attempts, att'[b].pc = "done", Returned(att'[b].outcome)
                 PROVE  \E i, j \in 1..synced' : ClosedAt(b, i, j)'
      BY DEF Closed, Returned
    <2>1. CASE b # a
      <3>1. PICK i \in 1..synced, j \in 1..synced : ClosedAt(b, i, j)
        BY <1>6, <2>1 DEF IInv, Closed, Returned
      <3> QED BY <1>6, <1>11, <2>1, <3>1 DEF ClosedAt
    <2>2. CASE b = a
      <3>1. AppendOk(line) BY <1>6, <2>2
      <3>2. /\ Len(log') = Len(log) + 1
            /\ log'[Len(log) + 1] = line
            /\ synced' = Len(log')
            /\ Len(log) \in Nat
            /\ synced \in 0..Len(log)
        BY <1>1, <1>3, <1>5, <3>1, AppendOkGrows DEF Extended
      <3>3. PICK i \in 1..synced : DecidedAt(a, i) BY <1>2 DEF IInv, Decided
      <3> PICK n \in Nat : n = Len(log) + 1 BY <3>2
      <3>4. i \in 1..synced' /\ n \in 1..synced' /\ i < n BY <3>2
      <3>5. ClosedAt(a, i, n)'
        BY <1>3, <1>6, <1>11, <3>2, <3>3, <3>4 DEF ClosedAt, DecidedAt
      <3> QED BY <2>2, <3>4, <3>5
    <2> QED BY <2>1, <2>2
  <1> QED BY <1>8, <1>9, <1>10, <1>12, <1>13 DEF IInv

\* A run event's append keeps the invariant.
LEMMA RunEventKeeps ==
  ASSUME IInv, TypeOK', NEW e \in Executors, WriteRunEvent(e)
  PROVE  IInv'
  <1>1. TypeOK BY DEF IInv
  <1>2. UNCHANGED <<latched, next, att, authorised, ran>> BY DEF WriteRunEvent, history
  <1> DEFINE line == Line("run", e, 0, None, "none")
  <1>3. line \in Lines /\ line.phase = "run" /\ line.by = e
    BY <1>1 DEF Line, Lines, TypeOK, Returns
  <1>4. AppendOk(line) \/ AppendErr(line) BY DEF WriteRunEvent
  <1> HIDE DEF line
  <1>5. Extended(line) BY <1>1, <1>3, <1>4, AppendExtends
  <1>6. /\ \A i \in 1..synced : i \in 1..synced' /\ log'[i] = log[i]
        /\ \A i \in 1..Len(log') :
             \/ i \in 1..Len(log) /\ log'[i] = log[i]
             \/ i = Len(log) + 1 /\ log'[i] = line
    BY <1>5, ExtendedKeeps
  <1>7. \A a \in Attempts : Coherent(a)' BY <1>1, <1>2, OthersCoherent DEF IInv
  <1>8. IdsApart' BY <1>2 DEF IInv, IdsApart
  <1>9. OneLineEach' BY <1>3, <1>6 DEF IInv, OneLineEach
  <1>10. LinesOwned'
    <2> SUFFICES ASSUME NEW i \in 1..Len(log')
                 PROVE  /\ log'[i].phase = "run" => log'[i].by \in Executors
                        /\ log'[i].phase # "run" =>
                             /\ log'[i].by \in Attempts
                             /\ log'[i].id = att'[log'[i].by].id
                             /\ att'[log'[i].by].id > 0
                        /\ log'[i].phase = "decision" => att'[log'[i].by].pc \notin Undecided
                        /\ log'[i].phase = "result" => att'[log'[i].by].pc \in {"latching", "done"}
      BY DEF LinesOwned
    <2>1. CASE i \in 1..Len(log) /\ log'[i] = log[i] BY <1>2, <2>1 DEF IInv, LinesOwned
    <2>2. CASE log'[i] = line BY <1>3, <2>2
    <2> QED BY <1>6, <2>1, <2>2
  <1>11. Decided' BY <1>2, <1>6 DEF IInv, Decided, DecidedAt
  <1>12. Closed' BY <1>2, <1>6 DEF IInv, Closed, ClosedAt
  <1> QED BY <1>7, <1>8, <1>9, <1>10, <1>11, <1>12 DEF IInv

\* A power loss keeps the invariant: the synced lines are still there.
LEMMA PowerLossKeeps ==
  ASSUME IInv, TypeOK', PowerLoss
  PROVE  IInv'
  <1>1. TypeOK BY DEF IInv
  <1>2. UNCHANGED <<latched, next, att, synced, authorised, ran>> BY DEF PowerLoss, history
  <1>3. PICK n \in synced..Len(log) : log' = SubSeq(log, 1, n) BY DEF PowerLoss
  <1>4. log \in Seq(Lines) /\ Len(log) \in Nat /\ synced \in 0..Len(log)
    BY <1>1, LenProperties DEF TypeOK
  <1>5. n \in Nat /\ n <= Len(log) /\ synced <= n BY <1>4
  <1>6. Len(log') = n /\ \A i \in 1..n : log'[i] = log[i] BY <1>3, <1>4, <1>5, TruncatedLog
  <1>7. \A i \in 1..Len(log') : i \in 1..Len(log) /\ log'[i] = log[i] BY <1>4, <1>5, <1>6
  <1>8. \A i \in 1..synced : log'[i] = log[i] BY <1>4, <1>5, <1>6
  <1>9. \A a \in Attempts : Coherent(a)' BY <1>1, <1>2, OthersCoherent DEF IInv
  <1>10. IdsApart' BY <1>2 DEF IInv, IdsApart
  <1>11. OneLineEach' BY <1>7 DEF IInv, OneLineEach
  <1>12. LinesOwned' BY <1>2, <1>7 DEF IInv, LinesOwned
  <1>13. Decided' BY <1>2, <1>8 DEF IInv, Decided, DecidedAt
  <1>14. Closed' BY <1>2, <1>8 DEF IInv, Closed, ClosedAt
  <1> QED BY <1>9, <1>10, <1>11, <1>12, <1>13, <1>14 DEF IInv

\* A step that changes nothing the invariant speaks of keeps it.
LEMMA StutterKeeps ==
  ASSUME IInv, TypeOK', UNCHANGED <<latched, next, att, log, synced, authorised, ran>>
  PROVE  IInv'
  <1>1. \A a \in Attempts : Coherent(a)' BY OthersCoherent DEF IInv
  <1> QED BY <1>1 DEF IInv, IdsApart, OneLineEach, LinesOwned, Decided, DecidedAt, Closed, ClosedAt

-----------------------------------------------------------------------------
(***************************************************************************)
(* The invariant is inductive.                                             *)
(***************************************************************************)

LEMMA IInvInit == Init => IInv
  <1> SUFFICES ASSUME Init PROVE IInv OBVIOUS
  <1>1. TypeOK BY TypeInit
  <1>2. \A a \in Attempts : Coherent(a)
    BY DEF Init, Coherent, Ready, Undecided, NotRun, Ran
  <1>3. IdsApart BY ExecutorsAssumption DEF Init, IdsApart, Ready
  <1>4. Len(log) = 0 BY DEF Init
  <1>5. OneLineEach /\ LinesOwned BY <1>4 DEF OneLineEach, LinesOwned
  <1>6. Decided /\ Closed BY DEF Init, Decided, Closed, Ready
  <1> QED BY <1>1, <1>2, <1>3, <1>5, <1>6 DEF IInv

LEMMA IInvNext ==
  ASSUME IInv, [Next]_vars
  PROVE  IInv'
  <1>1. TypeOK' BY TypeNext DEF IInv
  <1>2. ASSUME NEW a \in Attempts, AttemptStep(a) PROVE IInv'
    <2>1. CASE Enter(a) BY <1>1, <2>1, EnterKeeps
    <2>2. CASE AskLayer(a) BY <1>1, <2>2, AskLayerQuiet, QuietKeeps
    <2>3. CASE Decide(a) BY <1>1, <2>3, DecideKeeps
    <2>4. CASE Report(a) BY <1>1, <2>4, ReportKeeps
    <2>5. CASE \/ EnterLatched(a) \/ NoLayerAllowed(a) \/ AskHook(a) \/ GateProceeds(a)
               \/ LeaveGate(a) \/ Admit(a) \/ ToolReturns(a) \/ AskPostHook(a)
               \/ PostHooksDone(a) \/ Latch(a)
      BY <1>1, <2>5, QuietSteps, QuietKeeps
    <2> QED BY <1>2, <2>1, <2>2, <2>3, <2>4, <2>5 DEF AttemptStep
  <1>3. ASSUME NEW a \in Attempts, Cancel(a) PROVE IInv'
    BY <1>1, <1>3, StutterKeeps DEF Cancel, file, history
  <1>4. ASSUME NEW e \in Executors, CheckRunEvent(e) PROVE IInv'
    BY <1>1, <1>4, StutterKeeps DEF CheckRunEvent, file, history
  <1>5. ASSUME NEW e \in Executors, WriteRunEvent(e) PROVE IInv'
    BY <1>1, <1>5, RunEventKeeps
  <1>6. ASSUME NEW e \in Executors, Kill(e) PROVE IInv'
    BY <1>1, <1>6, StutterKeeps DEF Kill, file, history
  <1>7. CASE PowerLoss BY <1>1, <1>7, PowerLossKeeps
  <1>8. CASE UNCHANGED vars BY <1>1, <1>8, StutterKeeps DEF vars, file, history
  <1> QED BY <1>2, <1>3, <1>4, <1>5, <1>6, <1>7, <1>8 DEF Next

LEMMA IInvAlways == Spec => []IInv
  <1>1. IInv /\ [Next]_vars => IInv' BY IInvNext
  <1> QED BY IInvInit, <1>1, PTL DEF Spec

-----------------------------------------------------------------------------
(***************************************************************************)
(* The rules.                                                              *)
(***************************************************************************)

\* The place of a rule layer that sees the input last (RulesSeeLast).
RulePlace(e, i) ==
  /\ Cascade[e][i] = "rule"
  /\ \A j \in DOMAIN Cascade[e] :
       /\ j < i => Cascade[e][j] \in {"schema", "contract-allowlist", "hook_bridge"}
       /\ j > i => Cascade[e][j] \notin {"hook_bridge", "suspend"}

Past(a, i) ==
  \/ att[a].pc = "cascade" /\ att[a].step > i
  \/ att[a].pc \in {"gate", "gated"}
  \/ att[a].verdict = "Allowed"

\* Past the rule layer an attempt holds an input the rules do not deny.
Cleared(a) ==
  \A i \in DOMAIN Cascade[Home[a]] : RulePlace(Home[a], i) /\ Past(a, i) =>
    <<att[a].tool, att[a].input>> \notin RuleDeny

\* A step of one attempt leaves the others alone.
LEMMA OthersStay ==
  ASSUME TypeOK, NEW a \in Attempts, NEW c \in Attempts, c # a, AttemptStep(c)
  PROVE  att'[a] = att[a]
  <1>1. att \in [Attempts -> States] BY DEF TypeOK
  <1> USE <1>1
  <1>2. CASE EnterLatched(c) BY <1>2 DEF EnterLatched
  <1>3. CASE Enter(c) BY <1>3 DEF Enter
  <1>4. CASE AskLayer(c) BY <1>4 DEF AskLayer, TakeAnswer, Goto, Refuse
  <1>5. CASE NoLayerAllowed(c) BY <1>5 DEF NoLayerAllowed, Refuse
  <1>6. CASE AskHook(c) BY <1>6 DEF AskHook
  <1>7. CASE GateProceeds(c) BY <1>7 DEF GateProceeds
  <1>8. CASE LeaveGate(c) BY <1>8 DEF LeaveGate, Refuse
  <1>9. CASE Decide(c) BY <1>9 DEF Decide
  <1>10. CASE Admit(c) BY <1>10 DEF Admit, Close, Goto
  <1>11. CASE ToolReturns(c) BY <1>11 DEF ToolReturns, Close, Goto
  <1>12. CASE AskPostHook(c) BY <1>12 DEF AskPostHook, Close
  <1>13. CASE PostHooksDone(c) BY <1>13 DEF PostHooksDone, Close
  <1>14. CASE Report(c) BY <1>14 DEF Report
  <1>15. CASE Latch(c) BY <1>15 DEF Latch
  <1> QED BY <1>2, <1>3, <1>4, <1>5, <1>6, <1>7, <1>8, <1>9, <1>10, <1>11, <1>12, <1>13, <1>14,
             <1>15 DEF AttemptStep

\* What the layers in front of, at and behind such a rule layer may answer.
LEMMA RuleAnswersClear ==
  ASSUME TypeOK, NEW a \in Attempts, NEW i \in DOMAIN Cascade[Home[a]], RulePlace(Home[a], i),
         NEW j \in DOMAIN Cascade[Home[a]], NEW answer \in LayerAnswers(Cascade[Home[a]][j], a)
  PROVE  /\ j < i => answer.kind # "allow"
         /\ j >= i => answer.input = att[a].input
         /\ j = i /\ answer.kind # "deny" => <<att[a].tool, att[a].input>> \notin RuleDeny
  <1>1. Home[a] \in Executors BY ExecutorsAssumption
  <1>2. Cascade[Home[a]][j] \in LayerNames BY <1>1, CascadeAssumption
  <1>3. i \in Int /\ j \in Int BY <1>1, CascadeAssumption
  <1>4. CASE j < i
    <2>1. CASE Cascade[Home[a]][j] = "schema"
      BY <1>3, <1>4, <2>1 DEF LayerAnswers, SchemaAnswers, Answer
    <2>2. CASE Cascade[Home[a]][j] = "contract-allowlist"
      BY <1>3, <1>4, <2>2 DEF LayerAnswers, ContractAnswers, Answer
    <2>3. CASE Cascade[Home[a]][j] = "hook_bridge"
      BY <1>3, <1>4, <2>3 DEF LayerAnswers, HookBridgeAnswers, Answer
    <2> QED BY <1>4, <2>1, <2>2, <2>3 DEF RulePlace
  <1>5. CASE j = i
    <2>1. Cascade[Home[a]][j] = "rule" BY <1>5 DEF RulePlace
    <2>2. answer \in RuleAnswers(att[a].tool, att[a].input) BY <2>1 DEF LayerAnswers
    <2> QED BY <1>3, <1>5, <2>2 DEF RuleAnswers, Answer
  <1>6. CASE j > i
    <2>1. Cascade[Home[a]][j] \notin {"hook_bridge", "suspend"} BY <1>6 DEF RulePlace
    <2>2. CASE Cascade[Home[a]][j] = "schema"
      BY <1>3, <1>6, <2>2 DEF LayerAnswers, SchemaAnswers, Answer
    <2>3. CASE Cascade[Home[a]][j] = "contract-allowlist"
      BY <1>3, <1>6, <2>3 DEF LayerAnswers, ContractAnswers, Answer
    <2>4. CASE Cascade[Home[a]][j] = "rule"
      BY <1>3, <1>6, <2>4 DEF LayerAnswers, RuleAnswers, Answer
    <2>5. CASE Cascade[Home[a]][j] = "interactive"
      BY <1>3, <1>6, <2>5 DEF LayerAnswers, InteractiveAnswers, Answer
    <2>6. CASE Cascade[Home[a]][j] = "mcp_proceed"
      BY <1>3, <1>6, <2>6 DEF LayerAnswers, ProceedAnswers, Answer
    <2> QED BY <1>2, <2>1, <2>2, <2>3, <2>4, <2>5, <2>6 DEF LayerNames
  <1> QED BY <1>3, <1>4, <1>5, <1>6

\* The walk of the cascade keeps an attempt clear.
LEMMA AskLayerClears ==
  ASSUME IInv, NEW a \in Attempts, Cleared(a), AskLayer(a)
  PROVE  Cleared(a)'
  <1>1. TypeOK /\ Coherent(a) BY DEF IInv
  <1>2. att \in [Attempts -> States] /\ att[a] \in States /\ Home[a] \in Executors
    BY <1>1, ExecutorsAssumption DEF TypeOK
  <1> SUFFICES ASSUME NEW i \in DOMAIN Cascade[Home[a]], RulePlace(Home[a], i), Past(a, i)'
               PROVE  <<att'[a].tool, att'[a].input>> \notin RuleDeny
    BY DEF Cleared, RulePlace
  <1> DEFINE j == att[a].step
  <1>3. att[a].pc = "cascade" /\ att[a].verdict = "none" BY <1>1 DEF AskLayer, At, Coherent
  <1>4. j \in DOMAIN Cascade[Home[a]] /\ i \in Int /\ j \in Int
    <2>1. j \in Nat \ {0} /\ j <= Len(Cascade[Home[a]]) BY <1>2 DEF AskLayer, States
    <2> QED BY <1>2, <2>1, CascadeAssumption
  <1>5. PICK answer \in LayerAnswers(Cascade[Home[a]][j], a) : TakeAnswer(a, answer)
    BY DEF AskLayer
  <1>6. /\ j < i => answer.kind # "allow"
        /\ j >= i => answer.input = att[a].input
        /\ j = i /\ answer.kind # "deny" => <<att[a].tool, att[a].input>> \notin RuleDeny
    BY <1>1, <1>4, <1>5, RuleAnswersClear
  <1>7. j > i => <<att[a].tool, att[a].input>> \notin RuleDeny
    BY <1>3 DEF Cleared, Past
  <1>8. Cascade[Home[a]][j] # "Allowed" BY <1>2, <1>4, CascadeAssumption DEF LayerNames
  <1>9. CASE answer.kind = "allow" /\ Goto(a, "gate")
    <2>1. att'[a].tool = att[a].tool /\ att'[a].input = att[a].input BY <1>2, <1>9 DEF Goto, States
    <2> QED BY <1>4, <1>6, <1>7, <1>9, <2>1
  <1>10. CASE Refuse(a, Cascade[Home[a]][j], "denied")
    <2>1. att'[a].pc = "deciding" /\ att'[a].verdict = Cascade[Home[a]][j]
      BY <1>2, <1>10 DEF Refuse, States
    <2> QED BY <1>8, <2>1 DEF Past
  <1>11. CASE /\ answer.kind \in {"defer", "replace"}
              /\ att' = [att EXCEPT ![a] = [@ EXCEPT !.input = answer.input, !.step = att[a].step + 1]]
    <2>1. /\ att'[a].tool = att[a].tool
          /\ att'[a].input = answer.input
          /\ att'[a].pc = "cascade"
          /\ att'[a].step = j + 1
          /\ att'[a].verdict = "none"
      BY <1>2, <1>3, <1>11 DEF States
    <2>2. j + 1 > i BY <2>1 DEF Past
    <2>3. j >= i BY <1>4, <2>2
    <2>4. <<att[a].tool, att[a].input>> \notin RuleDeny BY <1>4, <1>6, <1>7, <1>11, <2>3
    <2> QED BY <1>6, <2>1, <2>3, <2>4
  <1> QED BY <1>5, <1>9, <1>10, <1>11 DEF TakeAnswer

\* An attempt enters in front of the rule layer, or refused.
LEMMA EnterClears ==
  ASSUME IInv, NEW a \in Attempts, Enter(a)
  PROVE  Cleared(a)'
  <1>1. TypeOK BY DEF IInv
  <1>2. att \in [Attempts -> States] /\ Home[a] \in Executors
    BY <1>1, ExecutorsAssumption DEF TypeOK
  <1>3. att'[a].pc \in {"cascade", "deciding"} /\ att'[a].step = 1 /\ att'[a].verdict # "Allowed"
    <2>1. PICK tool \in Tools, input \in Inputs :
            att' = [att EXCEPT ![a] =
                      [pc      |-> IF EntryRefusal(a, tool, input) = "none" THEN "cascade" ELSE "deciding",
                       id      |-> next[Home[a]],
                       tool    |-> tool,
                       input   |-> input,
                       step    |-> 1,
                       verdict |-> EntryRefusal(a, tool, input),
                       outcome |-> CASE EntryRefusal(a, tool, input) = "none"         -> "none"
                                     [] EntryRefusal(a, tool, input) = "cancellation" -> "cancelled"
                                     [] OTHER                                         -> "denied"]]
      BY DEF Enter
    <2>2. EntryRefusal(a, tool, input) # "Allowed" BY DEF EntryRefusal
    <2> QED BY <1>2, <2>1, <2>2
  <1>4. \A i \in DOMAIN Cascade[Home[a]] : ~(1 > i) BY <1>2, CascadeAssumption
  <1>5. \A i \in DOMAIN Cascade[Home[a]] : ~Past(a, i)' BY <1>3, <1>4 DEF Past
  <1> QED BY <1>5 DEF Cleared

\* The other steps of an attempt do not bring it past the rule layer and leave its tool
\* and its input alone.
LEMMA QuietClears ==
  ASSUME IInv, NEW a \in Attempts, Cleared(a), AttemptStep(a), ~Enter(a), ~AskLayer(a)
  PROVE  Cleared(a)'
  <1>1. TypeOK /\ Coherent(a) BY DEF IInv
  <1>2. att \in [Attempts -> States] /\ att[a] \in States BY <1>1 DEF TypeOK
  <1>3. /\ att'[a].tool = att[a].tool
        /\ att'[a].input = att[a].input
        /\ att'[a].pc # "cascade"
        /\ att'[a].pc \in {"gate", "gated"} => att[a].pc \in {"gate", "gated"}
        /\ att'[a].verdict = "Allowed" => att[a].pc = "gated" \/ att[a].verdict = "Allowed"
    <2> USE <1>1, <1>2
    <2>1. CASE EnterLatched(a) BY <2>1 DEF EnterLatched, States
    <2>2. CASE NoLayerAllowed(a) BY <2>2 DEF NoLayerAllowed, Refuse, States
    <2>3. CASE AskHook(a)
      <3>1. att[a].pc = "gate" BY <2>3 DEF AskHook, At
      <3>2. CASE att' = [att EXCEPT ![a] = [@ EXCEPT !.step = att[a].step + 1]]
        BY <3>1, <3>2 DEF States
      <3>3. CASE att' = [att EXCEPT ![a] = [@ EXCEPT !.pc = "gated", !.verdict = "hook"]]
        BY <3>1, <3>3 DEF States
      <3> QED BY <2>3, <3>2, <3>3 DEF AskHook
    <2>4. CASE GateProceeds(a) BY <2>4 DEF GateProceeds, At, States
    <2>5. CASE LeaveGate(a)
      <3>1. att[a].pc = "gated" BY <2>5 DEF LeaveGate, At
      <3>2. CASE Refuse(a, "cancellation", "cancelled")
        BY <3>1, <3>2 DEF Refuse, States
      <3>3. CASE Refuse(a, "hook", "hook_aborted")
        BY <3>1, <3>3 DEF Refuse, States
      <3>4. CASE Refuse(a, "schema", "denied")
        BY <3>1, <3>4 DEF Refuse, States
      <3>5. CASE Refuse(a, "Allowed", "none")
        BY <3>1, <3>5 DEF Refuse, States
      <3> QED BY <2>5, <3>2, <3>3, <3>4, <3>5 DEF LeaveGate
    <2>6. CASE Decide(a) BY <2>6 DEF Decide, At, States
    <2>7. CASE Admit(a)
      <3>1. att[a].pc = "admission" BY <2>7 DEF Admit, At
      <3>2. CASE Close(a, "cancelled")
        BY <3>1, <3>2 DEF Close, States
      <3>3. CASE Goto(a, "running")
        BY <3>1, <3>3 DEF Goto, States
      <3> QED BY <2>7, <3>2, <3>3 DEF Admit
    <2>8. CASE ToolReturns(a)
      <3>1. att[a].pc = "running" BY <2>8 DEF ToolReturns, At
      <3>2. CASE Goto(a, "post")
        BY <3>1, <3>2 DEF Goto, States
      <3>3. CASE Close(a, "tool_error")
        BY <3>1, <3>3 DEF Close, States
      <3> QED BY <2>8, <3>2, <3>3 DEF ToolReturns
    <2>9. CASE AskPostHook(a)
      <3>1. att[a].pc = "post" BY <2>9 DEF AskPostHook, At
      <3>2. CASE att' = [att EXCEPT ![a] = [@ EXCEPT !.step = att[a].step + 1]]
        BY <3>1, <3>2 DEF States
      <3>3. CASE Close(a, "hook_error")
        BY <3>1, <3>3 DEF Close, States
      <3> QED BY <2>9, <3>2, <3>3 DEF AskPostHook
    <2>10. CASE PostHooksDone(a) BY <2>10 DEF PostHooksDone, Close, States
    <2>11. CASE Report(a) BY <2>11 DEF Report, At, States
    <2>12. CASE Latch(a) BY <2>12 DEF Latch, States
    <2> QED BY <2>1, <2>2, <2>3, <2>4, <2>5, <2>6, <2>7, <2>8, <2>9, <2>10, <2>11, <2>12
               DEF AttemptStep
  <1>4. \A i : Past(a, i)' => Past(a, i) BY <1>3 DEF Past
  <1> QED BY <1>3, <1>4 DEF Cleared, RulePlace

\* Every attempt stays clear.
LEMMA ClearedNext ==
  ASSUME IInv, \A a \in Attempts : Cleared(a), [Next]_vars
  PROVE  \A a \in Attempts : Cleared(a)'
  <1> SUFFICES ASSUME NEW a \in Attempts PROVE Cleared(a)' OBVIOUS
  <1>1. CASE AttemptStep(a) BY <1>1, AskLayerClears, EnterClears, QuietClears
  <1>2. ASSUME att'[a] = att[a] PROVE Cleared(a)' BY <1>2 DEF Cleared, RulePlace, Past
  <1>3. ASSUME NEW c \in Attempts, c # a, AttemptStep(c) PROVE Cleared(a)'
    BY <1>2, <1>3, OthersStay DEF IInv
  <1>4. \/ \E c \in Attempts : AttemptStep(c)
        \/ UNCHANGED att
    BY DEF Next, vars, Cancel, CheckRunEvent, WriteRunEvent, Kill, PowerLoss
  <1> QED BY <1>1, <1>2, <1>3, <1>4

LEMMA ClearedAlways == Spec => [](\A a \in Attempts : Cleared(a))
  <1> DEFINE AllCleared == \A a \in Attempts : Cleared(a)
  <1>1. Init => AllCleared
    BY DEF Init, Ready, Cleared, Past
  <1>2. IInv /\ AllCleared /\ [Next]_vars => AllCleared' BY ClearedNext
  <1> HIDE DEF AllCleared
  <1>3. Spec => []AllCleared BY IInvAlways, <1>1, <1>2, PTL DEF Spec
  <1> QED BY <1>3 DEF AllCleared

-----------------------------------------------------------------------------
(***************************************************************************)
(* What the invariant says.                                                *)
(***************************************************************************)

\* The invariant gives the attribution of what ran.
LEMMA IInvAttributes ==
  ASSUME IInv
  PROVE  Attribution
  <1> SUFFICES ASSUME NEW a \in Attempts, ran[a] # None
               PROVE  /\ ran[a] = authorised[a]
                      /\ ran[a] \in Valid
                      /\ \E i \in 1..synced :
                           /\ DecisionsOf(a) = {i}
                           /\ log[i].verdict = "Allowed"
                           /\ log[i].input = ran[a]
                           /\ log[i].id = att[a].id
    BY DEF Attribution
  <1>1. ran[a] = att[a].input /\ att[a].verdict = "Allowed" BY DEF IInv, Coherent
  <1>2. ran[a] = authorised[a] /\ ran[a] \in Valid BY <1>1 DEF IInv, Coherent
  <1>3. PICK i \in 1..synced : DecidedAt(a, i) BY DEF IInv, Decided
  <1>4. i \in 1..Len(log)
    <2>1. Len(log) \in Nat /\ synced \in 0..Len(log) BY LenProperties DEF IInv, TypeOK
    <2> QED BY <2>1
  <1>5. DecisionsOf(a) = {i}
    BY <1>3, <1>4 DEF DecisionsOf, DecidedAt, IInv, OneLineEach
  <1>6. log[i].id = att[a].id BY <1>3, <1>4 DEF DecidedAt, IInv, LinesOwned
  <1> QED BY <1>1, <1>2, <1>3, <1>5, <1>6 DEF DecidedAt

\* It gives, with the clear attempts, that the rules hold.
LEMMA IInvRules ==
  ASSUME IInv, \A a \in Attempts : Cleared(a)
  PROVE  RulesHold
  <1> SUFFICES ASSUME NEW a \in Attempts, ran[a] # None, RulesSeeLast(Home[a])
               PROVE  <<att[a].tool, ran[a]>> \notin RuleDeny
    BY DEF RulesHold
  <1>1. ran[a] = att[a].input /\ att[a].verdict = "Allowed" BY DEF IInv, Coherent
  <1>2. PICK i \in DOMAIN Cascade[Home[a]] : RulePlace(Home[a], i)
    BY DEF RulesSeeLast, RulePlace
  <1> QED BY <1>1, <1>2 DEF Cleared, Past

\* It gives the pairs of records.
LEMMA IInvPairs ==
  ASSUME IInv
  PROVE  PairsClosed
  <1> SUFFICES ASSUME NEW a \in Attempts, att[a].pc = "done"
               PROVE  CASE att[a].outcome = "audit_failure" -> TRUE
                        [] att[a].outcome = "audit_latched" -> DecisionsOf(a) \cup ResultsOf(a) = {}
                        [] OTHER ->
                             \E i, j \in 1..synced :
                               /\ i < j
                               /\ DecisionsOf(a) = {i}
                               /\ ResultsOf(a) = {j}
                               /\ log[j].verdict = att[a].outcome
                               /\ log[i].id = log[j].id
    BY DEF PairsClosed
  <1>1. Len(log) \in Nat /\ synced \in 0..Len(log) BY LenProperties DEF IInv, TypeOK
  <1>2. CASE att[a].outcome = "audit_latched"
    <2>1. att[a].id = 0 BY <1>2 DEF IInv, Coherent
    <2>2. \A i \in 1..Len(log) : log[i].phase # "run" => log[i].by # a
      BY <2>1 DEF IInv, LinesOwned
    <2> QED BY <1>2, <2>2 DEF DecisionsOf, ResultsOf
  <1>3. CASE att[a].outcome \notin {"audit_failure", "audit_latched"}
    <2>1. PICK i \in 1..synced, j \in 1..synced : ClosedAt(a, i, j)
      BY <1>3 DEF IInv, Closed
    <2>2. i \in 1..Len(log) /\ j \in 1..Len(log) BY <1>1
    <2>3. DecisionsOf(a) = {i}
      BY <2>1, <2>2 DEF DecisionsOf, ClosedAt, IInv, OneLineEach
    <2>4. ResultsOf(a) = {j}
      BY <2>1, <2>2 DEF ResultsOf, ClosedAt, IInv, OneLineEach
    <2>5. log[i].id = log[j].id
      BY <2>1, <2>2 DEF ClosedAt, IInv, LinesOwned
    <2> QED BY <1>3, <2>1, <2>3, <2>4, <2>5 DEF ClosedAt
  <1> QED BY <1>2, <1>3

\* It gives distinct ids.
LEMMA IInvIds ==
  ASSUME IInv
  PROVE  IdsDistinct
  <1> SUFFICES ASSUME NEW i \in 1..Len(log), NEW j \in 1..Len(log),
                      log[i].by \in Attempts, log[j].by \in Attempts,
                      log[i].id = log[j].id, Home[log[i].by] = Home[log[j].by]
               PROVE  log[i].by = log[j].by
    BY DEF IdsDistinct
  <1>1. log[i].phase # "run" /\ log[j].phase # "run"
    BY ExecutorsAssumption DEF IInv, LinesOwned
  <1>2. /\ log[i].id = att[log[i].by].id
        /\ log[j].id = att[log[j].by].id
        /\ att[log[i].by].id > 0
    BY <1>1 DEF IInv, LinesOwned
  <1>3. att[log[i].by].id = att[log[j].by].id BY <1>2
  <1>4. \A a, b \in Attempts :
          a # b /\ Home[a] = Home[b] /\ att[a].id = att[b].id => att[a].id = 0
    BY DEF IInv, IdsApart
  <1>5. log[i].by # log[j].by => att[log[i].by].id = 0 BY <1>3, <1>4
  <1> QED BY <1>2, <1>5

\* It gives outcomes that tell whether the tool ran.
LEMMA IInvOutcomes ==
  ASSUME IInv
  PROVE  OutcomeTellsRun
  BY DEF IInv, Coherent, OutcomeTellsRun, NotRun, Ran

-----------------------------------------------------------------------------
(***************************************************************************)
(* The theorems.                                                           *)
(***************************************************************************)

\* Type correctness of the executor, its attempts and the audit file.
THEOREM TypeCorrect == Spec => []TypeOK
  <1>1. IInv => TypeOK BY DEF IInv
  <1> QED BY IInvAlways, <1>1, PTL

\* A tool runs only on the authorised, valid input, under exactly one durable Allowed
\* decision that names it: for every cascade, every number of concurrent attempts, and
\* whatever appends fail and processes die (prepare, invoke, audit_decision).
THEOREM AttributionCorrect == Spec => []Attribution
  <1>1. IInv => Attribution BY IInvAttributes
  <1> QED BY IInvAlways, <1>1, PTL

\* On an executor whose rule layer sees the input last, no tool runs on an input the rules
\* deny, for every cascade around it and every hook that rewrites in front of it
\* (evaluate_for_execution).
THEOREM RulesCorrect == Spec => []RulesHold
  <1>1. IInv /\ (\A a \in Attempts : Cleared(a)) => RulesHold BY IInvRules
  <1> QED BY IInvAlways, ClearedAlways, <1>1, PTL

\* A tool runs only on what was authorised, recorded and, where the rules have the last
\* word, not denied by them: the two facts together (prepare, invoke).
THEOREM GovernedCorrect == Spec => []Governed
  <1>1. Attribution /\ RulesHold => Governed BY DEF Governed
  <1> QED BY <1>1, AttributionCorrect, RulesCorrect, PTL

\* Every attempt that returned without an audit failure left exactly one durable pair of
\* records under its id, with the outcome it returned (audit_decision, audit_result).
THEOREM PairsCorrect == Spec => []PairsClosed
  <1>1. IInv => PairsClosed BY IInvPairs
  <1> QED BY IInvAlways, <1>1, PTL

\* The outcome an attempt returns says whether its tool ran (CapabilityError).
THEOREM OutcomeCorrect == Spec => []OutcomeTellsRun
  <1>1. IInv => OutcomeTellsRun BY IInvOutcomes
  <1> QED BY IInvAlways, <1>1, PTL

\* Attempts on one executor never share an id in the log (next_invocation_id).
THEOREM IdsCorrect == Spec => []IdsDistinct
  <1>1. IInv => IdsDistinct BY IInvIds
  <1> QED BY IInvAlways, <1>1, PTL

\* The audit file tells the truth of every attempt that returned: the three facts
\* together (prepare, audit_decision, audit_result).
THEOREM RecordsCorrect == Spec => []RecordsTellTheTruth
  <1>1. PairsClosed /\ OutcomeTellsRun /\ IdsDistinct => RecordsTellTheTruth BY DEF RecordsTellTheTruth
  <1> QED BY <1>1, PairsCorrect, OutcomeCorrect, IdsCorrect, PTL

\* After an audit failure has been returned, no later attempt on that executor gets past
\* the latch (prepare, audit_latched).
THEOREM LatchCorrect == Spec => NoEntryAfterFailure
  <1> DEFINE Refused ==
        \A a \in Attempts :
          /\ att[a].pc = "ready"
          /\ att'[a].pc # "ready"
          /\ \E b \in Attempts : Home[b] = Home[a] /\ att[b].outcome = "audit_failure"
          => att'[a].outcome = "audit_latched"
  <1>1. ASSUME IInv, [Next]_vars PROVE [Refused]_vars
    <2> SUFFICES ASSUME NEW a \in Attempts, att[a].pc = "ready", att'[a].pc # "ready",
                        NEW b \in Attempts, Home[b] = Home[a], att[b].outcome = "audit_failure"
                 PROVE  att'[a].outcome = "audit_latched"
      OBVIOUS
    <2>1. latched[Home[a]] BY <1>1 DEF IInv, Coherent
    <2>2. att \in [Attempts -> States] BY <1>1 DEF IInv, TypeOK
    <2>3. ASSUME NEW c \in Attempts, c # a, AttemptStep(c) PROVE att'[a] = att[a]
      BY <1>1, <2>3, OthersStay DEF IInv
    <2>4. CASE AttemptStep(a)
      <3>1. EnterLatched(a)
        BY <2>1, <2>4
           DEF AttemptStep, At, Enter, AskLayer, TakeAnswer, NoLayerAllowed, AskHook, GateProceeds, LeaveGate,
               Decide, Admit, ToolReturns, AskPostHook, PostHooksDone, Report, Latch
      <3> QED BY <2>2, <3>1 DEF EnterLatched, States
    <2>5. CASE UNCHANGED att BY <2>5
    <2>6. \/ \E c \in Attempts : AttemptStep(c)
          \/ UNCHANGED att
      BY <1>1 DEF Next, vars, Cancel, CheckRunEvent, WriteRunEvent, Kill, PowerLoss
    <2> QED BY <2>3, <2>4, <2>5, <2>6
  <1>2. Spec => [][Refused]_vars BY IInvAlways, <1>1, PTL DEF Spec
  <1> QED BY <1>2 DEF NoEntryAfterFailure

-----------------------------------------------------------------------------
(***************************************************************************)
(* The server: its inductive invariant.                                    *)
(***************************************************************************)

\* What a client can make of a channel.
Parsed == {Answer("allow", None), Answer("deny", None)} \cup {Answer("replace", v) : v \in Inputs}

\* The cascade of the call stands at its SuspendLayer, or at the ProceedLayer behind it.
OnLayer(a, layer) ==
  /\ att[a].pc = "cascade"
  /\ att[a].step \in DOMAIN Cascade[Home[a]]
  /\ Cascade[Home[a]][att[a].step] = layer

\* A call's handler, its channel and its entry in the map.
Handled(a) ==
  /\ channel[a] \in {Open, SenderGone} \cup Parsed
  /\ handler[a] \in {"idle", "refused"} => att[a].pc = "ready"
  /\ handler[a] \in {"idle", "refused", "racing"} => channel[a] = Open
  /\ handler[a] = "dropped" => channel[a] = SenderGone
  /\ channel[a] = SenderGone => handler[a] = "dropped"
  /\ a \notin announced => channel[a] \in {Open, SenderGone}
  /\ a \in pending => a \in announced /\ handler[a] = "answered" /\ channel[a] = Open
  /\ att[a].pc \in {"ready", "cascade"} => authorised[a] = None

\* A call that was announced: where it stands, what its client was shown, and what it is
\* authorised by.
Suspended(a) ==
  /\ handler[a] \in {"racing", "answered", "dropped"}
  /\ att[a].pc # "ready"
  /\ channel[a] = Open => OnLayer(a, "suspend")
  /\ att[a].pc = "cascade" =>
       \/ OnLayer(a, "suspend")
       \/ OnLayer(a, "mcp_proceed") /\ channel[a] = Answer("replace", att[a].input)
  /\ OnLayer(a, "suspend") /\ handler[a] = "answered" => reply[a].input = att[a].input
  /\ handler[a] = "answered" /\ channel[a] = Open => a \in pending \/ Home[a] \in dead
  /\ authorised[a] # None =>
       \/ channel[a].kind = "allow" /\ authorised[a] = reply[a].input
       \/ channel[a] = Answer("replace", authorised[a])

\* A resume that took a token is what was sent on the call's channel.
Resumed(r) ==
  /\ resume[r].token \in announced
  /\ handler[resume[r].token] = "answered"
  /\ channel[resume[r].token] = resume[r].resolution
  /\ resume[r].resolution \in Parsed

\* Nothing else was.
SentByResume ==
  \A a \in Attempts : channel[a] \in Parsed => \E r \in Resumes : Took(r) /\ resume[r].token = a

\* The call has ended and its tool ran on `input`.
RanOn(a, input) == att[a].pc = "done" /\ ran[a] = input /\ input # None

Replied ==
  /\ \A a \in Attempts : reply[a].status = "completed" => a \notin announced /\ RanOn(a, reply[a].input)
  /\ \A r \in Resumes : reply[r].status = "completed" =>
       Took(r) /\ RanOn(resume[r].token, reply[r].input)

SuspendInv ==
  /\ ServerTypeOK
  /\ \A a \in Attempts : Handled(a)
  /\ \A a \in announced : Suspended(a)
  /\ \A r \in Resumes : Took(r) => Resumed(r)
  /\ ResolvedOnce
  /\ SentByResume
  /\ Replied

-----------------------------------------------------------------------------
(***************************************************************************)
(* The steps of the tasks.                                                 *)
(***************************************************************************)

\* A step of one call's task leaves the other calls alone.
LEMMA OtherCalls ==
  ASSUME TypeOK, NEW a \in Attempts, NEW c \in Attempts, c # a, AttemptStep(c)
  PROVE  att'[a] = att[a] /\ authorised'[a] = authorised[a] /\ ran'[a] = ran[a]
  <1>1. att'[a] = att[a] BY OthersStay
  <1>2. /\ authorised \in [Attempts -> Inputs \cup {None}]
        /\ ran \in [Attempts -> Inputs \cup {None}]
    BY DEF TypeOK
  <1>3. CASE AskLayer(c) BY <1>1, <1>2, <1>3 DEF AskLayer, TakeAnswer
  <1>4. CASE Admit(c) BY <1>1, <1>2, <1>4 DEF Admit
  <1>5. CASE \/ EnterLatched(c) \/ Enter(c) \/ NoLayerAllowed(c) \/ AskHook(c) \/ GateProceeds(c)
             \/ LeaveGate(c) \/ Decide(c) \/ ToolReturns(c) \/ AskPostHook(c) \/ PostHooksDone(c)
             \/ Report(c) \/ Latch(c)
    <2>1. UNCHANGED history
      BY <1>5 DEF EnterLatched, Enter, NoLayerAllowed, AskHook, GateProceeds, LeaveGate, Decide,
                  ToolReturns, AskPostHook, PostHooksDone, Report, Latch
    <2> QED BY <1>1, <2>1 DEF history
  <1> QED BY <1>3, <1>4, <1>5 DEF AttemptStep

\* A task takes a step only while it lives and has not ended, and kills nobody.
LEMMA TaskLives ==
  ASSUME NEW a \in Attempts, AttemptStep(a)
  PROVE  dead' = dead /\ att[a].pc # "done" /\ Home[a] \notin dead
  <1>1. CASE AskLayer(a) BY <1>1 DEF AskLayer, TakeAnswer, At
  <1>2. CASE Admit(a) BY <1>2 DEF Admit, At
  <1>3. CASE \/ EnterLatched(a) \/ Enter(a) \/ NoLayerAllowed(a) \/ AskHook(a) \/ GateProceeds(a)
             \/ LeaveGate(a) \/ Decide(a) \/ ToolReturns(a) \/ AskPostHook(a) \/ PostHooksDone(a)
             \/ Report(a) \/ Latch(a)
    BY <1>3 DEF EnterLatched, Enter, NoLayerAllowed, AskHook, GateProceeds, LeaveGate, Decide,
                ToolReturns, AskPostHook, PostHooksDone, Report, Latch, At
  <1> QED BY <1>1, <1>2, <1>3 DEF AttemptStep

\* Past the cascade a task never comes back to it, and what was authorised stands.
LEMMA PastCascade ==
  ASSUME TypeOK, NEW a \in Attempts, AttemptStep(a), att[a].pc \notin {"ready", "cascade"}
  PROVE  att'[a].pc \notin {"ready", "cascade"} /\ authorised'[a] = authorised[a]
  <1>1. att \in [Attempts -> States] /\ att[a] \in States BY DEF TypeOK
  <1> USE <1>1
  <1>2. CASE AskHook(a)
    <2>1. CASE att' = [att EXCEPT ![a] = [@ EXCEPT !.step = att[a].step + 1]]
      BY <1>2, <2>1 DEF AskHook, States, history
    <2>2. CASE att' = [att EXCEPT ![a] = [@ EXCEPT !.pc = "gated", !.verdict = "hook"]]
      BY <1>2, <2>2 DEF AskHook, States, history
    <2> QED BY <1>2, <2>1, <2>2 DEF AskHook
  <1>3. CASE GateProceeds(a) BY <1>3 DEF GateProceeds, States, history
  <1>4. CASE LeaveGate(a)
    <2>1. PICK v, o : Refuse(a, v, o) BY <1>4 DEF LeaveGate
    <2>2. att'[a].pc = "deciding" BY <2>1 DEF Refuse, States
    <2> QED BY <1>4, <2>2 DEF LeaveGate, history
  <1>5. CASE Decide(a)
    <2>1. att'[a].pc \in {"admission", "closing", "latching"} BY <1>5 DEF Decide, States
    <2> QED BY <1>5, <2>1 DEF Decide, history
  <1>6. CASE Admit(a)
    <2>1. Close(a, "cancelled") \/ Goto(a, "running") BY <1>6 DEF Admit
    <2>2. att'[a].pc \in {"closing", "running"} BY <2>1 DEF Close, Goto, States
    <2> QED BY <1>6, <2>2 DEF Admit
  <1>7. CASE ToolReturns(a)
    <2>1. att'[a].pc \in {"closing", "post"} BY <1>7 DEF ToolReturns, Close, Goto, States
    <2> QED BY <1>7, <2>1 DEF ToolReturns, history
  <1>8. CASE AskPostHook(a)
    <2>1. CASE att' = [att EXCEPT ![a] = [@ EXCEPT !.step = att[a].step + 1]]
      BY <1>8, <2>1 DEF AskPostHook, States, history
    <2>2. CASE Close(a, "hook_error")
      BY <1>8, <2>2 DEF AskPostHook, Close, States, history
    <2> QED BY <1>8, <2>1, <2>2 DEF AskPostHook
  <1>9. CASE PostHooksDone(a) BY <1>9 DEF PostHooksDone, Close, States, history
  <1>10. CASE Report(a)
    <2>1. att'[a].pc \in {"done", "latching"} BY <1>10 DEF Report, States
    <2> QED BY <1>10, <2>1 DEF Report, history
  <1>11. CASE Latch(a) BY <1>11 DEF Latch, States, history
  <1> QED BY <1>2, <1>3, <1>4, <1>5, <1>6, <1>7, <1>8, <1>9, <1>10, <1>11
          DEF AttemptStep, EnterLatched, Enter, AskLayer, NoLayerAllowed, At

\* Entering authorises nothing.
LEMMA EntryAuthorisesNothing ==
  ASSUME NEW a \in Attempts, AttemptStep(a), att[a].pc = "ready"
  PROVE  authorised' = authorised
  <1>1. EnterLatched(a) \/ Enter(a)
    BY DEF AttemptStep, At, AskLayer, NoLayerAllowed, AskHook, GateProceeds, LeaveGate, Decide, Admit,
           ToolReturns, AskPostHook, PostHooksDone, Report, Latch
  <1> QED BY <1>1 DEF EnterLatched, Enter, history

\* In the cascade a task asks the next layer or has none left to ask.
LEMMA CascadeSteps ==
  ASSUME NEW a \in Attempts, AttemptStep(a), att[a].pc = "cascade"
  PROVE  AskLayer(a) \/ NoLayerAllowed(a)
  BY DEF AttemptStep, At, EnterLatched, Enter, AskHook, GateProceeds, LeaveGate, Decide, Admit,
         ToolReturns, AskPostHook, PostHooksDone, Report, Latch

\* What an answer does to the call's place and authorisation.
LEMMA AnswerMoves ==
  ASSUME TypeOK, NEW a \in Attempts, att[a].pc = "cascade", NEW answer, TakeAnswer(a, answer)
  PROVE  /\ \/ /\ answer.kind = "allow"
               /\ att'[a].pc = "gate"
               /\ authorised'[a] = answer.input
            \/ /\ answer.kind = "deny"
               /\ att'[a].pc = "deciding"
               /\ authorised'[a] = authorised[a]
            \/ /\ answer.kind \in {"defer", "replace"}
               /\ att'[a] = [att[a] EXCEPT !.input = answer.input, !.step = att[a].step + 1]
               /\ att'[a].pc = "cascade"
               /\ att'[a].input = answer.input
               /\ att'[a].step = att[a].step + 1
               /\ authorised'[a] = authorised[a]
         /\ UNCHANGED <<dead, ran>>
  <1>1. /\ att \in [Attempts -> States]
        /\ att[a] \in States
        /\ authorised \in [Attempts -> Inputs \cup {None}]
    BY DEF TypeOK
  <1>2. CASE /\ answer.kind = "allow"
             /\ authorised' = [authorised EXCEPT ![a] = answer.input]
             /\ Goto(a, "gate")
    BY <1>1, <1>2 DEF Goto, States, TakeAnswer
  <1>3. CASE /\ answer.kind = "deny"
             /\ Refuse(a, Cascade[Home[a]][att[a].step], "denied")
             /\ UNCHANGED authorised
    BY <1>1, <1>3 DEF Refuse, States, TakeAnswer
  <1>4. CASE /\ answer.kind \in {"defer", "replace"}
             /\ att' = [att EXCEPT ![a] = [@ EXCEPT !.input = answer.input, !.step = att[a].step + 1]]
             /\ UNCHANGED authorised
    BY <1>1, <1>4 DEF States, TakeAnswer
  <1> QED BY <1>2, <1>3, <1>4 DEF TakeAnswer

-----------------------------------------------------------------------------
(***************************************************************************)
(* Steps of the tasks and of the environment keep the invariant.           *)
(***************************************************************************)

\* A call that does not move stays where it was.
LEMMA CallStays ==
  ASSUME NEW a \in Attempts, UNCHANGED server, dead \subseteq dead',
         att'[a] = att[a], authorised'[a] = authorised[a]
  PROVE  /\ Handled(a) => Handled(a)'
         /\ Suspended(a) => Suspended(a)'
  BY DEF server, Handled, Suspended, OnLayer

\* A step that leaves the server's own state alone keeps the invariant if it keeps what
\* the invariant says of each call.
LEMMA ServerStays ==
  ASSUME SuspendInv, UNCHANGED server, up' \in BOOLEAN,
         \A a \in Attempts : Handled(a)',
         \A a \in announced : Suspended(a)',
         \A a \in Attempts : att[a].pc = "done" => att'[a].pc = "done" /\ ran'[a] = ran[a]
  PROVE  SuspendInv'
  <1>1. ServerTypeOK' BY DEF SuspendInv, ServerTypeOK, server
  <1>2. \A r \in Resumes : Took(r)' => Resumed(r)' BY DEF SuspendInv, server, Took, Resumed
  <1>3. ResolvedOnce' /\ SentByResume' BY DEF SuspendInv, server, ResolvedOnce, SentByResume, Took
  <1>4. Replied'
    <2>1. Replied /\ UNCHANGED <<announced, resume, reply>> BY DEF SuspendInv, server
    <2>2. ASSUME NEW a \in Attempts, reply[a].status = "completed"
          PROVE  a \notin announced /\ RanOn(a, reply[a].input)'
      BY <2>1, <2>2 DEF Replied, RanOn
    <2>3. ASSUME NEW r \in Resumes, reply[r].status = "completed"
          PROVE  Took(r) /\ RanOn(resume[r].token, reply[r].input)'
      <3>1. Took(r) /\ RanOn(resume[r].token, reply[r].input) BY <2>1, <2>3 DEF Replied
      <3>2. resume[r].token \in Attempts
        BY <3>1 DEF SuspendInv, Resumed, ServerTypeOK
      <3> QED BY <2>1, <3>1, <3>2 DEF RanOn
    <2> QED BY <2>1, <2>2, <2>3 DEF Replied, Took
  <1>5. announced' = announced BY DEF server
  <1> QED BY <1>1, <1>2, <1>3, <1>4, <1>5 DEF SuspendInv

\* The same for the steps of one call.
LEMMA CallMoves ==
  ASSUME SuspendInv, UNCHANGED <<up, server>>, dead \subseteq dead', NEW a \in Attempts,
         att[a].pc # "done",
         \A c \in Attempts : c # a =>
            att'[c] = att[c] /\ authorised'[c] = authorised[c] /\ ran'[c] = ran[c],
         Handled(a)',
         a \in announced => Suspended(a)'
  PROVE  SuspendInv'
  <1>1. UNCHANGED server BY DEF server
  <1>2. \A c \in Attempts : Handled(c)' BY <1>1, CallStays DEF SuspendInv
  <1>3. \A c \in announced : Suspended(c)'
    BY <1>1, CallStays DEF SuspendInv, ServerTypeOK
  <1>4. \A c \in Attempts : att[c].pc = "done" => att'[c].pc = "done" /\ ran'[c] = ran[c] OBVIOUS
  <1>5. up' \in BOOLEAN BY DEF SuspendInv, ServerTypeOK
  <1> QED BY <1>1, <1>2, <1>3, <1>4, <1>5, ServerStays

\* A step of the task that the SuspendLayer has no part in.
LEMMA TaskStepKeeps ==
  ASSUME IInv, SuspendInv, NEW a \in Attempts, TaskStep(a)
  PROVE  SuspendInv'
  <1>1. TypeOK /\ Handled(a) /\ UNCHANGED <<up, server>> /\ AttemptStep(a)
    BY DEF IInv, SuspendInv, TaskStep
  <1>2. dead' = dead /\ att[a].pc # "done" /\ Home[a] \notin dead BY <1>1, TaskLives
  <1>3. ~OnLayer(a, "suspend") BY <1>2 DEF TaskStep, AtSuspend, At, OnLayer
  <1>4. handler[a] \notin {"idle", "refused"} BY DEF TaskStep, Spawned
  <1>5. att[a] \in States BY <1>1 DEF TypeOK
  <1>6. CASE att[a].pc \notin {"ready", "cascade"}
    <2>1. att'[a].pc \notin {"ready", "cascade"} /\ authorised'[a] = authorised[a]
      BY <1>1, <1>6, PastCascade
    <2>2. Handled(a)' BY <1>1, <1>4, <2>1 DEF Handled, server
    <2>3. a \in announced => Suspended(a)'
      BY <1>1, <1>2, <1>6, <2>1 DEF SuspendInv, Suspended, OnLayer, server
    <2> QED BY <1>1, <1>2, <2>2, <2>3, OtherCalls, CallMoves
  <1>7. CASE att[a].pc = "ready"
    <2>1. authorised' = authorised BY <1>1, <1>7, EntryAuthorisesNothing
    <2>2. Handled(a)' BY <1>1, <1>4, <1>7, <2>1 DEF Handled, server
    <2>3. a \notin announced BY <1>7 DEF SuspendInv, Suspended
    <2> QED BY <1>1, <1>2, <2>2, <2>3, OtherCalls, CallMoves
  <1>8. CASE att[a].pc = "cascade" /\ NoLayerAllowed(a)
    <2>1. att'[a].pc = "deciding" /\ authorised'[a] = authorised[a]
      BY <1>1, <1>5, <1>8 DEF NoLayerAllowed, Refuse, States, TypeOK, history
    <2>2. Handled(a)' BY <1>1, <1>4, <2>1 DEF Handled, server
    <2>3. a \notin announced
      <3>1. att[a].step > Len(Cascade[Home[a]]) BY <1>8 DEF NoLayerAllowed
      <3>2. att[a].step \notin DOMAIN Cascade[Home[a]]
        BY <1>5, <3>1, CascadeAssumption, ExecutorsAssumption DEF States
      <3> QED BY <1>8, <3>2 DEF SuspendInv, Suspended, OnLayer
    <2> QED BY <1>1, <1>2, <2>2, <2>3, OtherCalls, CallMoves
  <1>9. CASE att[a].pc = "cascade" /\ AskLayer(a)
    <2>1. PICK answer \in LayerAnswers(Cascade[Home[a]][att[a].step], a) : TakeAnswer(a, answer)
      BY <1>9 DEF AskLayer
    <2>2. \/ /\ answer.kind = "allow"
             /\ att'[a].pc = "gate"
             /\ authorised'[a] = answer.input
          \/ /\ answer.kind = "deny"
             /\ att'[a].pc = "deciding"
             /\ authorised'[a] = authorised[a]
          \/ /\ answer.kind \in {"defer", "replace"}
             /\ att'[a].pc = "cascade"
             /\ authorised'[a] = authorised[a]
      BY <1>1, <1>9, <2>1, AnswerMoves
    <2>3. Handled(a)' BY <1>1, <1>4, <1>9, <2>2 DEF Handled, server
    <2>4. ASSUME a \in announced PROVE Suspended(a)'
      <3>1. OnLayer(a, "mcp_proceed") /\ channel[a] = Answer("replace", att[a].input)
        BY <1>3, <1>9, <2>4 DEF SuspendInv, Suspended
      <3>2. answer = Answer("allow", att[a].input)
        BY <2>1, <3>1 DEF OnLayer, LayerAnswers, ProceedAnswers
      <3>3. att'[a].pc = "gate" /\ authorised'[a] = att[a].input BY <2>2, <3>2 DEF Answer
      <3>4. channel[a] # Open /\ channel' = channel BY <1>1, <3>1 DEF Open, Answer, server
      <3> QED BY <1>1, <1>2, <2>4, <3>1, <3>3, <3>4 DEF SuspendInv, Suspended, OnLayer, server
    <2> QED BY <1>1, <1>2, <2>3, <2>4, OtherCalls, CallMoves
  <1> QED BY <1>1, <1>6, <1>7, <1>8, <1>9, CascadeSteps

\* What the SuspendLayer may answer is an answer of a layer to the executor.
LEMMA SuspendAsks ==
  ASSUME TypeOK, NEW a \in Attempts, AtSuspend(a), NEW answer \in SuspendAnswers(att[a].input),
         TakeAnswer(a, answer)
  PROVE  AskLayer(a) /\ AttemptStep(a)
  <1>1. Home[a] \in Executors /\ att[a].step \in Nat
    BY ExecutorsAssumption DEF TypeOK, States
  <1>2. At(a, "cascade") /\ att[a].step <= Len(Cascade[Home[a]])
    BY <1>1, CascadeAssumption DEF AtSuspend
  <1>3. answer \in LayerAnswers(Cascade[Home[a]][att[a].step], a)
    BY DEF AtSuspend, LayerAnswers
  <1> QED BY <1>2, <1>3 DEF AskLayer, AttemptStep

\* What the layer hears is one of those answers.
LEMMA HeardIsAnswer ==
  ASSUME SuspendInv, NEW a \in Attempts, channel[a] # Open
  PROVE  /\ Heard(a) \in SuspendAnswers(att[a].input)
         /\ channel[a] = SenderGone => Heard(a) = Answer("deny", att[a].input)
         /\ channel[a].kind = "allow" => Heard(a) = Answer("allow", att[a].input)
         /\ channel[a].kind = "deny" => Heard(a) = Answer("deny", att[a].input)
         /\ channel[a].kind = "replace" => Heard(a) = channel[a]
         /\ channel[a].kind \in {"allow", "deny", "replace", "closed"}
         /\ channel[a].kind = "closed" => channel[a] = SenderGone
  <1>1. channel[a] \in {SenderGone} \cup Parsed BY DEF SuspendInv, Handled
  <1>2. CASE channel[a] = SenderGone BY <1>2 DEF SenderGone, Heard, Answer, SuspendAnswers
  <1>3. CASE channel[a] \in {Answer("allow", None), Answer("deny", None)}
    BY <1>3 DEF SenderGone, Heard, Answer, SuspendAnswers
  <1>4. CASE channel[a] \in {Answer("replace", v) : v \in Inputs}
    BY <1>4 DEF SenderGone, Heard, Answer, SuspendAnswers
  <1> QED BY <1>1, <1>2, <1>3, <1>4 DEF Parsed

\* The SuspendLayer finds its handler gone, or goes on after its await.
LEMMA AnnounceFailsKeeps ==
  ASSUME IInv, SuspendInv, NEW a \in Attempts, AnnounceFails(a)
  PROVE  SuspendInv' /\ AttemptStep(a)
  <1>1. TypeOK /\ Handled(a) /\ UNCHANGED <<up, server>> BY DEF IInv, SuspendInv, AnnounceFails
  <1>2. Answer("deny", att[a].input) \in SuspendAnswers(att[a].input) BY DEF SuspendAnswers
  <1>3. AttemptStep(a) BY <1>1, <1>2, SuspendAsks DEF AnnounceFails
  <1>4. att[a].pc = "cascade" /\ a \notin announced /\ handler[a] = "dropped"
    BY DEF AnnounceFails, AtSuspend, At
  <1>5. att'[a].pc = "deciding" /\ authorised'[a] = authorised[a] /\ dead' = dead
    <2> DEFINE answer == Answer("deny", att[a].input)
    <2>1. answer.kind = "deny" /\ TakeAnswer(a, answer) BY DEF AnnounceFails, Answer
    <2> HIDE DEF answer
    <2> QED BY <1>1, <1>4, <2>1, AnswerMoves
  <1>6. Handled(a)' BY <1>1, <1>4, <1>5 DEF Handled, server
  <1> QED BY <1>1, <1>3, <1>4, <1>5, <1>6, OtherCalls, CallMoves

LEMMA ResolveKeeps ==
  ASSUME IInv, SuspendInv, NEW a \in Attempts, Resolve(a)
  PROVE  SuspendInv' /\ AttemptStep(a)
  <1>1. /\ TypeOK /\ Handled(a) /\ UNCHANGED <<up, server>>
        /\ Suspended(a)
        /\ a \in announced
        /\ channel[a] # Open
        /\ AtSuspend(a)
        /\ TakeAnswer(a, Heard(a))
    BY DEF IInv, SuspendInv, Resolve
  <1>2. /\ Heard(a) \in SuspendAnswers(att[a].input)
        /\ channel[a] = SenderGone => Heard(a) = Answer("deny", att[a].input)
        /\ channel[a].kind = "allow" => Heard(a) = Answer("allow", att[a].input)
        /\ channel[a].kind = "deny" => Heard(a) = Answer("deny", att[a].input)
        /\ channel[a].kind = "replace" => Heard(a) = channel[a]
        /\ channel[a].kind \in {"allow", "deny", "replace", "closed"}
        /\ channel[a].kind = "closed" => channel[a] = SenderGone
    BY <1>1, HeardIsAnswer
  <1>3. AttemptStep(a) BY <1>1, <1>2, SuspendAsks
  <1>4. /\ att[a].pc = "cascade"
        /\ OnLayer(a, "suspend")
        /\ Home[a] \notin dead
        /\ authorised[a] = None
    BY <1>1 DEF AtSuspend, At, OnLayer, Handled
  <1>5. handler[a] \in {"answered", "dropped"} BY <1>1 DEF Handled, Suspended
  <1>6. \/ /\ Heard(a).kind = "allow"
           /\ att'[a].pc = "gate"
           /\ authorised'[a] = Heard(a).input
        \/ /\ Heard(a).kind = "deny"
           /\ att'[a].pc = "deciding"
           /\ authorised'[a] = authorised[a]
        \/ /\ Heard(a).kind \in {"defer", "replace"}
           /\ att'[a].pc = "cascade"
           /\ att'[a].input = Heard(a).input
           /\ att'[a].step = att[a].step + 1
           /\ authorised'[a] = authorised[a]
    BY <1>1, <1>4, AnswerMoves
  <1>7. dead' = dead BY <1>1, <1>4, AnswerMoves
  <1>8. Handled(a)' BY <1>1, <1>4, <1>5, <1>6 DEF Handled, server
  <1>9. Suspended(a)'
    <2>1. CASE channel[a].kind = "allow"
      <3>1. att'[a].pc = "gate" /\ authorised'[a] = att[a].input BY <1>2, <1>6, <2>1 DEF Answer
      <3>2. handler[a] = "answered" BY <1>1, <1>5, <2>1 DEF Handled, SenderGone, Answer
      <3>3. authorised'[a] = reply[a].input BY <1>1, <1>4, <3>1, <3>2 DEF Suspended
      <3> QED BY <1>1, <1>5, <1>7, <2>1, <3>1, <3>3 DEF Suspended, OnLayer, server
    <2>2. CASE channel[a].kind \in {"deny", "closed"}
      <3>1. att'[a].pc = "deciding" /\ authorised'[a] = None BY <1>2, <1>4, <1>6, <2>2 DEF Answer
      <3> QED BY <1>1, <1>5, <1>7, <3>1 DEF Suspended, OnLayer, server
    <2>3. CASE channel[a].kind = "replace"
      <3>1. /\ att'[a].pc = "cascade"
            /\ att'[a].input = channel[a].input
            /\ att'[a].step = att[a].step + 1
            /\ authorised'[a] = None
        BY <1>2, <1>4, <1>6, <2>3
      <3>2. Cascade[Home[a]] \in Seq(LayerNames) BY CascadeAssumption, ExecutorsAssumption
      <3>3. /\ att[a].step + 1 \in DOMAIN Cascade[Home[a]]
            /\ Cascade[Home[a]][att[a].step + 1] = "mcp_proceed"
        BY <1>4, CallsAssumption, ExecutorsAssumption DEF OnLayer
      <3>4. channel[a] = Answer("replace", channel[a].input)
        BY <1>1, <2>3 DEF Handled, Parsed, Answer, Open, SenderGone
      <3>5. OnLayer(a, "mcp_proceed")' /\ ~OnLayer(a, "suspend")' BY <3>1, <3>3 DEF OnLayer
      <3> QED BY <1>1, <1>5, <1>7, <3>1, <3>4, <3>5 DEF Suspended, server
    <2> QED BY <1>2, <2>1, <2>2, <2>3
  <1> QED BY <1>1, <1>3, <1>4, <1>7, <1>8, <1>9, OtherCalls, CallMoves

\* A panic, the death of the server and a power loss move no call.
LEMMA DeathKeeps ==
  ASSUME SuspendInv, UNCHANGED <<att, authorised, ran, server>>, dead \subseteq dead', up' \in BOOLEAN
  PROVE  SuspendInv'
  <1>1. UNCHANGED server BY DEF server
  <1>2. \A a \in Attempts : Handled(a)' BY <1>1, CallStays DEF SuspendInv
  <1>3. \A a \in announced : Suspended(a)' BY <1>1, CallStays DEF SuspendInv, ServerTypeOK
  <1> QED BY <1>1, <1>2, <1>3, ServerStays

-----------------------------------------------------------------------------
(***************************************************************************)
(* Steps of the handlers keep the invariant.                               *)
(***************************************************************************)

\* A step that leaves the calls' tasks alone, and of the server's state only changes
\* handlers, announcements and replies to calls.
LEMMA ResumesStay ==
  ASSUME SuspendInv, UNCHANGED <<resume, channel>>,
         announced \subseteq announced',
         \A a \in Attempts : handler[a] = "answered" => handler'[a] = "answered"
  PROVE  /\ \A r \in Resumes : Took(r)' => Resumed(r)'
         /\ ResolvedOnce'
         /\ SentByResume'
  <1>1. \A r \in Resumes : Took(r) => Resumed(r) /\ resume[r].token \in Attempts
    BY DEF SuspendInv, Resumed, ServerTypeOK
  <1>2. \A r \in Resumes : Took(r)' => Resumed(r)' BY <1>1 DEF Took, Resumed
  <1>3. ResolvedOnce' /\ SentByResume' BY DEF SuspendInv, ResolvedOnce, SentByResume, Took
  <1> QED BY <1>2, <1>3

\* A new reply is to a call that ended, or does not say "completed".
LEMMA CallReplies ==
  ASSUME SuspendInv, UNCHANGED <<vars, resume>>, NEW a \in Attempts, NEW v,
         reply' = [reply EXCEPT ![a] = v],
         v.status = "completed" => a \notin announced /\ RanOn(a, v.input),
         announced' = announced
  PROVE  Replied'
  <1>1. /\ Replied
        /\ reply \in [Attempts \cup Resumes ->
                        [status : {"none", "error", "denied", "completed", "interaction_required"},
                         input : Inputs \cup {None}]]
        /\ UNCHANGED <<att, ran>>
    BY DEF SuspendInv, ServerTypeOK, vars, history
  <1>2. \A c \in Attempts : reply'[c] = IF c = a THEN v ELSE reply[c] BY <1>1
  <1>3. \A r \in Resumes : reply'[r] = reply[r] BY <1>1, TokensAssumption
  <1>4. \A c \in Attempts : reply'[c].status = "completed" =>
          c = a \/ (c \notin announced' /\ RanOn(c, reply[c].input)')
    BY <1>1, <1>2 DEF Replied, RanOn
  <1>5. \A c \in Attempts : reply'[c].status = "completed" =>
          c \notin announced' /\ RanOn(c, reply[c].input)'
    BY <1>1, <1>2, <1>4 DEF RanOn
  <1>6. \A r \in Resumes : reply'[r].status = "completed" =>
          Took(r)' /\ RanOn(resume[r].token, reply[r].input)'
    BY <1>1, <1>3 DEF Replied, RanOn, Took
  <1> QED BY <1>5, <1>6 DEF Replied

\* No reply is given.
LEMMA NoReplies ==
  ASSUME SuspendInv, UNCHANGED <<vars, reply>>,
         \A r \in Resumes : reply[r].status = "completed" => resume'[r] = resume[r],
         \A a \in announced' : a \in announced \/ att[a].pc # "done"
  PROVE  Replied'
  <1>1. Replied /\ UNCHANGED <<att, ran>> BY DEF SuspendInv, vars, history
  <1>2. \A a \in Attempts : reply'[a].status = "completed" =>
          a \notin announced' /\ RanOn(a, reply[a].input)'
    BY <1>1 DEF Replied, RanOn
  <1>3. \A r \in Resumes : reply'[r].status = "completed" =>
          Took(r)' /\ RanOn(resume[r].token, reply[r].input)'
    BY <1>1 DEF Replied, RanOn, Took
  <1> QED BY <1>2, <1>3 DEF Replied

\* The call is spawned or refused.
LEMMA HandleCapabilityKeeps ==
  ASSUME SuspendInv, NEW a \in Attempts, HandleCapability(a)
  PROVE  SuspendInv'
  <1>1. /\ ServerTypeOK
        /\ handler[a] = "idle"
        /\ UNCHANGED <<vars, up, announced, channel, pending, resume>>
        /\ UNCHANGED <<att, authorised, ran, dead>>
        /\ \A c \in Attempts : Handled(c)
        /\ \A c \in announced : Suspended(c)
    BY DEF SuspendInv, HandleCapability, vars, history
  <1>2. a \notin announced BY <1>1 DEF Suspended
  <1>3. PICK h \in {"racing", "refused"} :
          /\ handler' = [handler EXCEPT ![a] = h]
          /\ h = "racing" => UNCHANGED reply
          /\ h = "refused" => reply' = [reply EXCEPT ![a] = Reply("error", None)]
    BY DEF HandleCapability
  <1>4. /\ handler'[a] = h
        /\ \A c \in Attempts : c # a => handler'[c] = handler[c]
    BY <1>1, <1>3 DEF ServerTypeOK
  <1>5. \A c \in Attempts : c # a => reply'[c] = reply[c] BY <1>1, <1>3 DEF ServerTypeOK
  <1>6. ServerTypeOK'
    <2>1. handler' \in [Attempts -> {"idle", "refused", "racing", "answered", "dropped"}]
      BY <1>1, <1>3 DEF ServerTypeOK
    <2>2. reply' \in [Attempts \cup Resumes ->
                        [status : {"none", "error", "denied", "completed", "interaction_required"},
                         input : Inputs \cup {None}]]
      <3>1. CASE h = "racing" BY <1>1, <1>3, <3>1 DEF ServerTypeOK
      <3>2. CASE h = "refused" BY <1>1, <1>3, <3>2 DEF ServerTypeOK, Reply
      <3> QED BY <3>1, <3>2
    <2> QED BY <1>1, <2>1, <2>2 DEF ServerTypeOK
  <1>7. \A c \in Attempts : Handled(c)' BY <1>1, <1>2, <1>3, <1>4 DEF Handled
  <1>8. \A c \in announced' : Suspended(c)'
    BY <1>1, <1>2, <1>4, <1>5 DEF Suspended, OnLayer, ServerTypeOK
  <1>9. (\A r \in Resumes : Took(r)' => Resumed(r)') /\ ResolvedOnce' /\ SentByResume'
    BY <1>1, <1>4, ResumesStay
  <1>10. Replied'
    <2>1. Reply("error", None).status # "completed" BY DEF Reply
    <2>2. CASE h = "racing" BY <1>1, <1>3, <2>2, NoReplies
    <2>3. CASE h = "refused" BY <1>1, <1>3, <2>1, <2>3, CallReplies
    <2> QED BY <2>2, <2>3
  <1> QED BY <1>6, <1>7, <1>8, <1>9, <1>10 DEF SuspendInv

\* The SuspendLayer announces.
LEMMA AnnounceKeeps ==
  ASSUME SuspendInv, NEW a \in Attempts, Announce(a)
  PROVE  SuspendInv'
  <1>1. /\ ServerTypeOK
        /\ handler[a] = "racing"
        /\ announced' = announced \cup {a}
        /\ UNCHANGED <<vars, up, handler, channel, pending, resume, reply>>
        /\ UNCHANGED <<att, authorised, ran, dead>>
        /\ \A c \in Attempts : Handled(c)
        /\ \A c \in announced : Suspended(c)
        /\ OnLayer(a, "suspend")
        /\ att[a].pc = "cascade"
    BY DEF SuspendInv, Announce, vars, history, AtSuspend, At, OnLayer
  <1>2. ServerTypeOK' BY <1>1 DEF ServerTypeOK
  <1>3. \A c \in Attempts : Handled(c)' BY <1>1 DEF Handled
  <1>4. \A c \in announced : Suspended(c)' BY <1>1 DEF Suspended, OnLayer
  <1>5. Suspended(a)' BY <1>1 DEF Suspended, OnLayer, Handled
  <1>6. (\A r \in Resumes : Took(r)' => Resumed(r)') /\ ResolvedOnce' /\ SentByResume'
    BY <1>1, ResumesStay
  <1>7. Replied' BY <1>1, NoReplies
  <1> QED BY <1>1, <1>2, <1>3, <1>4, <1>5, <1>6, <1>7 DEF SuspendInv

\* The handler parks the call and shows its client the input.
LEMMA ParkKeeps ==
  ASSUME IInv, SuspendInv, NEW a \in Attempts, Park(a)
  PROVE  SuspendInv'
  <1>1. /\ ServerTypeOK
        /\ handler[a] = "racing"
        /\ a \in announced
        /\ pending' = pending \cup {a}
        /\ handler' = [handler EXCEPT ![a] = "answered"]
        /\ reply' = [reply EXCEPT ![a] = Reply("interaction_required", att[a].input)]
        /\ UNCHANGED <<vars, up, announced, channel, resume>>
        /\ UNCHANGED <<att, authorised, ran, dead>>
        /\ \A c \in Attempts : Handled(c)
        /\ \A c \in announced : Suspended(c)
    BY DEF SuspendInv, Park, vars, history
  <1>2. att[a].input \in Inputs \cup {None} BY DEF IInv, TypeOK, States
  <1>3. /\ handler'[a] = "answered"
        /\ \A c \in Attempts : c # a => handler'[c] = handler[c] /\ reply'[c] = reply[c]
        /\ reply'[a].input = att[a].input
    BY <1>1 DEF ServerTypeOK, Reply
  <1>4. ServerTypeOK'
    <2>1. handler' \in [Attempts -> {"idle", "refused", "racing", "answered", "dropped"}]
      BY <1>1 DEF ServerTypeOK
    <2>2. reply' \in [Attempts \cup Resumes ->
                        [status : {"none", "error", "denied", "completed", "interaction_required"},
                         input : Inputs \cup {None}]]
      BY <1>1, <1>2 DEF ServerTypeOK, Reply
    <2> QED BY <1>1, <2>1, <2>2 DEF ServerTypeOK
  <1>5. \A c \in Attempts : Handled(c)' BY <1>1, <1>3 DEF Handled, Open, SenderGone, Answer
  <1>6. channel[a] = Open /\ authorised[a] = None /\ OnLayer(a, "suspend")
    BY <1>1 DEF Handled, Suspended, OnLayer
  <1>7. Suspended(a)' BY <1>1, <1>3, <1>6 DEF Suspended, OnLayer
  <1>8. \A c \in announced : c # a => Suspended(c)' BY <1>1, <1>3 DEF Suspended, OnLayer, ServerTypeOK
  <1>9. (\A r \in Resumes : Took(r)' => Resumed(r)') /\ ResolvedOnce' /\ SentByResume'
    BY <1>1, <1>3, ResumesStay
  <1>10. Replied'
    <2>1. Reply("interaction_required", att[a].input).status # "completed" BY DEF Reply
    <2> QED BY <1>1, <2>1, CallReplies
  <1> QED BY <1>1, <1>4, <1>5, <1>7, <1>8, <1>9, <1>10 DEF SuspendInv

\* What map_execution_result makes of a task that ended.
LEMMA ResultIsOwn ==
  ASSUME IInv, NEW a \in Attempts
  PROVE  /\ MapExecutionResult(a) \in
              [status : {"none", "error", "denied", "completed", "interaction_required"},
               input : Inputs \cup {None}]
         /\ MapExecutionResult(a).status = "completed" => RanOn(a, MapExecutionResult(a).input)
  <1>1. att[a].input \in Inputs \cup {None} /\ Coherent(a) BY DEF IInv, TypeOK, States
  <1>2. CASE att[a].pc = "done" /\ att[a].outcome = "success"
    <2>1. MapExecutionResult(a) = Reply("completed", att[a].input) BY <1>2 DEF MapExecutionResult
    <2>2. ran[a] # None /\ ran[a] = att[a].input BY <1>1, <1>2 DEF Coherent, Ran
    <2> QED BY <1>1, <1>2, <2>1, <2>2 DEF Reply, RanOn
  <1>3. CASE ~(att[a].pc = "done" /\ att[a].outcome = "success")
    BY <1>3 DEF MapExecutionResult, Denied, Reply
  <1> QED BY <1>2, <1>3

\* The task ended without coming to the SuspendLayer, and the call is answered with its
\* result.
LEMMA ReturnResultKeeps ==
  ASSUME IInv, SuspendInv, NEW a \in Attempts, ReturnResult(a)
  PROVE  SuspendInv'
  <1>1. /\ ServerTypeOK
        /\ handler[a] = "racing"
        /\ a \notin announced
        /\ handler' = [handler EXCEPT ![a] = "answered"]
        /\ reply' = [reply EXCEPT ![a] = MapExecutionResult(a)]
        /\ UNCHANGED <<vars, up, announced, channel, pending, resume>>
        /\ UNCHANGED <<att, authorised, ran, dead>>
        /\ \A c \in Attempts : Handled(c)
        /\ \A c \in announced : Suspended(c)
    BY DEF SuspendInv, ReturnResult, vars, history
  <1>2. /\ handler'[a] = "answered"
        /\ \A c \in Attempts : c # a => handler'[c] = handler[c] /\ reply'[c] = reply[c]
    BY <1>1 DEF ServerTypeOK
  <1>3. /\ MapExecutionResult(a) \in
             [status : {"none", "error", "denied", "completed", "interaction_required"},
              input : Inputs \cup {None}]
        /\ MapExecutionResult(a).status = "completed" => RanOn(a, MapExecutionResult(a).input)
    BY ResultIsOwn
  <1>4. ServerTypeOK'
    <2>1. handler' \in [Attempts -> {"idle", "refused", "racing", "answered", "dropped"}]
      BY <1>1 DEF ServerTypeOK
    <2>2. reply' \in [Attempts \cup Resumes ->
                        [status : {"none", "error", "denied", "completed", "interaction_required"},
                         input : Inputs \cup {None}]]
      BY <1>1, <1>3 DEF ServerTypeOK
    <2> QED BY <1>1, <2>1, <2>2 DEF ServerTypeOK
  <1>5. \A c \in Attempts : Handled(c)' BY <1>1, <1>2 DEF Handled, Open, SenderGone, Answer
  <1>6. \A c \in announced' : Suspended(c)' BY <1>1, <1>2 DEF Suspended, OnLayer, ServerTypeOK
  <1>7. (\A r \in Resumes : Took(r)' => Resumed(r)') /\ ResolvedOnce' /\ SentByResume'
    BY <1>1, <1>2, ResumesStay
  <1>8. Replied' BY <1>1, <1>3, CallReplies
  <1> QED BY <1>4, <1>5, <1>6, <1>7, <1>8 DEF SuspendInv

\* The handler is dropped at its select!.
LEMMA DropCallKeeps ==
  ASSUME SuspendInv, NEW a \in Attempts, DropCall(a)
  PROVE  SuspendInv'
  <1>1. /\ ServerTypeOK
        /\ handler[a] = "racing"
        /\ handler' = [handler EXCEPT ![a] = "dropped"]
        /\ channel' = [channel EXCEPT ![a] = SenderGone]
        /\ UNCHANGED <<vars, up, announced, pending, resume, reply>>
        /\ UNCHANGED <<att, authorised, ran, dead>>
        /\ \A c \in Attempts : Handled(c)
        /\ \A c \in announced : Suspended(c)
        /\ \A r \in Resumes : Took(r) => Resumed(r)
    BY DEF SuspendInv, DropCall, vars, history
  <1>2. /\ handler'[a] = "dropped"
        /\ channel'[a] = SenderGone
        /\ \A c \in Attempts : c # a => handler'[c] = handler[c] /\ channel'[c] = channel[c]
    BY <1>1 DEF ServerTypeOK
  <1>3. channel[a] = Open BY <1>1 DEF Handled
  <1>4. Open # SenderGone /\ SenderGone \notin Parsed BY DEF Open, SenderGone, Parsed, Answer
  <1>5. ServerTypeOK'
    <2>1. handler' \in [Attempts -> {"idle", "refused", "racing", "answered", "dropped"}]
      BY <1>1 DEF ServerTypeOK
    <2>2. channel' \in [Attempts -> Resolutions]
      BY <1>1 DEF ServerTypeOK, Resolutions, SenderGone, Answer
    <2> QED BY <1>1, <2>1, <2>2 DEF ServerTypeOK
  <1>6. \A c \in Attempts : Handled(c)' BY <1>1, <1>2, <1>3, <1>4 DEF Handled
  <1>7. \A c \in announced' : Suspended(c)'
    <2> SUFFICES ASSUME NEW c \in announced PROVE Suspended(c)' BY <1>1
    <2>1. c \in Attempts /\ Suspended(c) BY <1>1 DEF ServerTypeOK
    <2>2. CASE c # a BY <1>1, <1>2, <2>1, <2>2 DEF Suspended, OnLayer
    <2>3. CASE c = a
      <3>1. authorised[a] = None /\ OnLayer(a, "suspend")
        BY <1>1, <1>3, <2>1, <2>3 DEF Suspended, Handled, OnLayer
      <3> QED BY <1>1, <1>2, <1>4, <2>1, <2>3, <3>1 DEF Suspended, OnLayer
    <2> QED BY <2>2, <2>3
  <1>8. \A r \in Resumes : Took(r)' => Resumed(r)'
    <2> SUFFICES ASSUME NEW r \in Resumes, Took(r) PROVE Resumed(r)' BY <1>1 DEF Took
    <2>1. Resumed(r) /\ resume[r].token \in Attempts BY <1>1 DEF Resumed, ServerTypeOK
    <2>2. resume[r].token # a BY <1>1, <2>1 DEF Resumed
    <2> QED BY <1>1, <1>2, <2>1, <2>2 DEF Resumed
  <1>9. ResolvedOnce' /\ SentByResume'
    BY <1>1, <1>2, <1>4 DEF SuspendInv, ResolvedOnce, SentByResume, Took
  <1>10. Replied' BY <1>1, NoReplies
  <1> QED BY <1>5, <1>6, <1>7, <1>8, <1>9, <1>10 DEF SuspendInv

\* What parse_resolution makes of an argument is a resolution.
LEMMA ParsedArguments ==
  ASSUME NEW argument \in Arguments
  PROVE  /\ ParseResolution(argument) \in Parsed
         /\ ParseResolution(argument) \in Resolutions
  <1>1. CASE argument \in [verb : {"allow", "deny", "other"}, input : {None}]
    BY <1>1 DEF ParseResolution, Parsed, Resolutions, Answer
  <1>2. CASE argument \in [verb : {"replace_input"}, input : Inputs]
    <2>1. ParseResolution(argument) = Answer("replace", argument.input) /\ argument.input \in Inputs
      BY <1>2 DEF ParseResolution
    <2> QED BY <2>1 DEF Parsed, Resolutions, Answer
  <1> QED BY <1>1, <1>2 DEF Arguments

\* A resume whose token is not good, or whose call is gone, is refused; an entry it took
\* out belongs to a call that is dead.
LEMMA ResumeRefused ==
  ASSUME SuspendInv, NEW r \in Resumes, NEW token \in Attempts \cup {None}, NEW argument \in Arguments,
         HandleResume(r, token, argument), token \notin pending \/ Home[token] \in dead
  PROVE  SuspendInv'
  <1>1. /\ ServerTypeOK
        /\ resume[r].pc = "idle"
        /\ pending' = pending \ {token}
        /\ resume' = [resume EXCEPT ![r] = Resume("refused", None, Open)]
        /\ reply' = [reply EXCEPT ![r] = Denied]
        /\ UNCHANGED <<vars, up, handler, announced, channel>>
        /\ UNCHANGED <<att, authorised, ran, dead>>
        /\ \A c \in Attempts : Handled(c)
        /\ \A c \in announced : Suspended(c)
        /\ \A s \in Resumes : Took(s) => Resumed(s)
    BY DEF SuspendInv, HandleResume, vars, history
  <1>2. /\ resume'[r].pc = "refused"
        /\ \A s \in Resumes : s # r => resume'[s] = resume[s] /\ reply'[s] = reply[s]
        /\ reply'[r] = Denied
        /\ \A c \in Attempts : reply'[c] = reply[c]
    BY <1>1, TokensAssumption DEF ServerTypeOK, Resume
  <1>3. ServerTypeOK'
    <2>1. Open \in Resolutions BY DEF Open, Answer, Resolutions
    <2>2. resume' \in [Resumes -> [pc : {"idle", "refused", "waiting", "answered", "dropped"},
                                   token : Attempts \cup {None}, resolution : Resolutions]]
      BY <1>1, <2>1 DEF ServerTypeOK, Resume
    <2>3. reply' \in [Attempts \cup Resumes ->
                        [status : {"none", "error", "denied", "completed", "interaction_required"},
                         input : Inputs \cup {None}]]
      BY <1>1 DEF ServerTypeOK, Denied, Reply
    <2> QED BY <1>1, <2>2, <2>3 DEF ServerTypeOK
  <1>4. \A c \in Attempts : Handled(c)' BY <1>1 DEF Handled
  <1>5. \A c \in announced' : Suspended(c)'
    <2> SUFFICES ASSUME NEW c \in announced PROVE Suspended(c)' BY <1>1
    <2>1. c \in Attempts /\ Suspended(c) BY <1>1 DEF ServerTypeOK
    <2>2. c \in pending => c \in pending' \/ Home[c] \in dead BY <1>1
    <2> QED BY <1>1, <1>2, <2>1, <2>2 DEF Suspended, OnLayer
  <1>6. ~Took(r)' /\ ~Took(r) BY <1>1, <1>2 DEF Took
  <1>7. \A s \in Resumes : (Took(s)' <=> Took(s)) /\ (Took(s) => resume'[s] = resume[s])
    BY <1>2, <1>6 DEF Took
  <1>8. \A s \in Resumes : Took(s)' => Resumed(s)' BY <1>1, <1>7 DEF Resumed
  <1>9. ResolvedOnce' BY <1>7 DEF SuspendInv, ResolvedOnce
  <1>10. SentByResume' BY <1>1, <1>7 DEF SuspendInv, SentByResume
  <1>11. Replied'
    <2>1. Replied BY DEF SuspendInv
    <2>2. Denied.status # "completed" BY DEF Denied, Reply
    <2>3. \A c \in Attempts : reply'[c].status = "completed" =>
            c \notin announced' /\ RanOn(c, reply[c].input)'
      BY <1>1, <1>2, <2>1 DEF Replied, RanOn
    <2>4. \A s \in Resumes : reply'[s].status = "completed" =>
            Took(s)' /\ RanOn(resume[s].token, reply[s].input)'
      BY <1>1, <1>2, <1>7, <2>1, <2>2 DEF Replied, RanOn
    <2> QED BY <2>3, <2>4 DEF Replied
  <1> QED BY <1>3, <1>4, <1>5, <1>8, <1>9, <1>10, <1>11 DEF SuspendInv

\* A resume takes its token and sends the resolution: it is the only one that does.
LEMMA ResumeTakes ==
  ASSUME SuspendInv, NEW r \in Resumes, NEW token \in Attempts \cup {None}, NEW argument \in Arguments,
         HandleResume(r, token, argument), ~(token \notin pending \/ Home[token] \in dead)
  PROVE  SuspendInv'
  <1> DEFINE sent == ParseResolution(argument)
  <1>1. /\ ServerTypeOK
        /\ resume[r].pc = "idle"
        /\ token \in pending
        /\ pending' = pending \ {token}
        /\ resume' = [resume EXCEPT ![r] = Resume("waiting", token, sent)]
        /\ channel' = [channel EXCEPT ![token] = sent]
        /\ UNCHANGED <<vars, up, handler, announced, reply>>
        /\ UNCHANGED <<att, authorised, ran, dead>>
        /\ \A c \in Attempts : Handled(c)
        /\ \A c \in announced : Suspended(c)
        /\ \A s \in Resumes : Took(s) => Resumed(s)
    BY DEF SuspendInv, HandleResume, vars, history
  <1>2. sent \in Parsed /\ sent \in Resolutions BY ParsedArguments
  <1> HIDE DEF sent
  <1>3. /\ token \in Attempts
        /\ token \in announced
        /\ handler[token] = "answered"
        /\ channel[token] = Open
    BY <1>1 DEF ServerTypeOK, Handled
  <1>4. Open \notin Parsed /\ SenderGone \notin Parsed BY DEF Open, SenderGone, Parsed, Answer
  <1>5. /\ resume'[r] = Resume("waiting", token, sent)
        /\ resume'[r].pc = "waiting"
        /\ resume'[r].token = token
        /\ resume'[r].resolution = sent
        /\ \A s \in Resumes : s # r => resume'[s] = resume[s]
        /\ channel'[token] = sent
        /\ \A c \in Attempts : c # token => channel'[c] = channel[c]
    BY <1>1, <1>3 DEF ServerTypeOK, Resume
  <1>6. ServerTypeOK'
    <2>1. resume' \in [Resumes -> [pc : {"idle", "refused", "waiting", "answered", "dropped"},
                                   token : Attempts \cup {None}, resolution : Resolutions]]
      BY <1>1, <1>2, <1>3 DEF ServerTypeOK, Resume
    <2>2. channel' \in [Attempts -> Resolutions] BY <1>1, <1>2 DEF ServerTypeOK
    <2> QED BY <1>1, <2>1, <2>2 DEF ServerTypeOK
  <1>7. \A c \in Attempts : Handled(c)'
    <2> SUFFICES ASSUME NEW c \in Attempts PROVE Handled(c)' OBVIOUS
    <2>1. CASE c # token BY <1>1, <1>5, <2>1 DEF Handled
    <2>2. CASE c = token BY <1>1, <1>2, <1>3, <1>4, <1>5, <2>2 DEF Handled
    <2> QED BY <2>1, <2>2
  <1>8. \A c \in announced' : Suspended(c)'
    <2> SUFFICES ASSUME NEW c \in announced PROVE Suspended(c)' BY <1>1
    <2>1. c \in Attempts /\ Suspended(c) BY <1>1 DEF ServerTypeOK
    <2>2. CASE c # token BY <1>1, <1>5, <2>1, <2>2 DEF Suspended, OnLayer
    <2>3. CASE c = token
      <3>1. authorised[c] = None /\ OnLayer(c, "suspend")
        BY <1>1, <1>3, <2>1, <2>3 DEF Suspended, Handled, OnLayer
      <3> QED BY <1>1, <1>2, <1>3, <1>4, <1>5, <2>1, <2>3, <3>1 DEF Suspended, OnLayer
    <2> QED BY <2>2, <2>3
  <1>9. ~Took(r) /\ Took(r)' BY <1>1, <1>5 DEF Took
  <1>10. \A s \in Resumes : s # r => (Took(s)' <=> Took(s)) BY <1>5 DEF Took
  <1>11. \A s \in Resumes : Took(s) => resume[s].token \in Attempts /\ resume[s].token # token
    BY <1>1, <1>3, <1>4 DEF Resumed, ServerTypeOK
  <1>12. \A s \in Resumes : Took(s)' => Resumed(s)'
    <2> SUFFICES ASSUME NEW s \in Resumes, Took(s)' PROVE Resumed(s)' OBVIOUS
    <2>1. CASE s = r BY <1>1, <1>2, <1>3, <1>5, <2>1 DEF Resumed
    <2>2. CASE s # r BY <1>1, <1>5, <1>10, <1>11, <2>2 DEF Resumed
    <2> QED BY <2>1, <2>2
  <1>13. ResolvedOnce'
    <2> SUFFICES ASSUME NEW s \in Resumes, NEW t \in Resumes, Took(s)', Took(t)',
                        resume'[s].token = resume'[t].token
                 PROVE  s = t
      BY DEF ResolvedOnce
    <2> QED BY <1>5, <1>10, <1>11 DEF SuspendInv, ResolvedOnce
  <1>14. SentByResume'
    <2> SUFFICES ASSUME NEW c \in Attempts, channel'[c] \in Parsed
                 PROVE  \E s \in Resumes : Took(s)' /\ resume'[s].token = c
      BY DEF SentByResume, Parsed
    <2>1. CASE c = token BY <1>5, <1>9, <2>1
    <2>2. CASE c # token BY <1>5, <1>9, <1>10, <2>2 DEF SuspendInv, SentByResume
    <2> QED BY <2>1, <2>2
  <1>15. Replied'
    <2>1. reply[r].status # "completed" BY <1>9 DEF SuspendInv, Replied
    <2>2. ASSUME NEW s \in Resumes
          PROVE  reply[s].status = "completed" => resume'[s] = resume[s]
      <3>1. CASE s = r BY <2>1, <3>1
      <3>2. CASE s # r BY <1>5, <3>2
      <3> QED BY <3>1, <3>2
    <2>3. \A c \in announced' : c \in announced \/ att[c].pc # "done" BY <1>1
    <2> QED BY <1>1, <2>2, <2>3, NoReplies
  <1> QED BY <1>6, <1>7, <1>8, <1>12, <1>13, <1>14, <1>15 DEF SuspendInv

\* A resume that took its token is answered or dropped.
LEMMA ResumeEnds ==
  ASSUME IInv, SuspendInv, NEW r \in Resumes, ReturnResumed(r) \/ DropResume(r)
  PROVE  SuspendInv'
  <1>1. /\ ServerTypeOK
        /\ resume[r].pc = "waiting"
        /\ UNCHANGED <<vars, up, handler, announced, channel, pending>>
        /\ UNCHANGED <<att, authorised, ran, dead>>
        /\ \A c \in Attempts : Handled(c)
        /\ \A c \in announced : Suspended(c)
        /\ \A s \in Resumes : Took(s) => Resumed(s)
    BY DEF SuspendInv, ReturnResumed, DropResume, vars, history
  <1>2. PICK pc \in {"answered", "dropped"} : resume' = [resume EXCEPT ![r].pc = pc]
    BY DEF ReturnResumed, DropResume
  <1>3. /\ Took(r) /\ Took(r)'
        /\ resume'[r].token = resume[r].token
        /\ resume'[r].resolution = resume[r].resolution
        /\ \A s \in Resumes : s # r => resume'[s] = resume[s]
    BY <1>1, <1>2 DEF ServerTypeOK, Took
  <1>4. resume[r].token \in Attempts BY <1>1, <1>3 DEF Resumed, ServerTypeOK
  <1> DEFINE result == MapExecutionResult(resume[r].token)
  <1>5. /\ result \in [status : {"none", "error", "denied", "completed", "interaction_required"},
                       input : Inputs \cup {None}]
        /\ result.status = "completed" => RanOn(resume[r].token, result.input)
    BY <1>4, ResultIsOwn
  <1>6. reply' = reply \/ reply' = [reply EXCEPT ![r] = result] BY DEF ReturnResumed, DropResume
  <1> HIDE DEF result
  <1>7. /\ \A c \in Attempts : reply'[c] = reply[c]
        /\ \A s \in Resumes : s # r => reply'[s] = reply[s]
        /\ reply'[r] = reply[r] \/ reply'[r] = result
    BY <1>1, <1>6, TokensAssumption DEF ServerTypeOK
  <1>8. ServerTypeOK'
    <2>1. resume' \in [Resumes -> [pc : {"idle", "refused", "waiting", "answered", "dropped"},
                                   token : Attempts \cup {None}, resolution : Resolutions]]
      BY <1>1, <1>2 DEF ServerTypeOK
    <2>2. reply' \in [Attempts \cup Resumes ->
                        [status : {"none", "error", "denied", "completed", "interaction_required"},
                         input : Inputs \cup {None}]]
      BY <1>1, <1>5, <1>6 DEF ServerTypeOK
    <2> QED BY <1>1, <2>1, <2>2 DEF ServerTypeOK
  <1>9. \A c \in Attempts : Handled(c)' BY <1>1 DEF Handled
  <1>10. \A c \in announced' : Suspended(c)' BY <1>1, <1>7 DEF Suspended, OnLayer, ServerTypeOK
  <1>11. \A s \in Resumes : /\ Took(s)' <=> Took(s)
                            /\ resume'[s].token = resume[s].token
                            /\ resume'[s].resolution = resume[s].resolution
    BY <1>3 DEF Took
  <1>12. \A s \in Resumes : Took(s)' => Resumed(s)' BY <1>1, <1>11 DEF Resumed
  <1>13. ResolvedOnce' BY <1>11 DEF SuspendInv, ResolvedOnce
  <1>14. SentByResume' BY <1>1, <1>11 DEF SuspendInv, SentByResume
  <1>15. Replied'
    <2>1. Replied BY DEF SuspendInv
    <2>2. \A c \in Attempts : reply'[c].status = "completed" =>
            c \notin announced' /\ RanOn(c, reply[c].input)'
      BY <1>1, <1>7, <2>1 DEF Replied, RanOn
    <2>3. \A s \in Resumes : reply'[s].status = "completed" =>
            Took(s)' /\ RanOn(resume[s].token, reply[s].input)'
      <3> SUFFICES ASSUME NEW s \in Resumes, reply'[s].status = "completed"
                   PROVE  Took(s)' /\ RanOn(resume[s].token, reply[s].input)'
        OBVIOUS
      <3>1. CASE reply'[s] = reply[s] BY <1>1, <1>11, <2>1, <3>1 DEF Replied, RanOn
      <3>2. CASE s = r /\ reply'[r] = result BY <1>1, <1>3, <1>5, <3>2 DEF RanOn
      <3> QED BY <1>7, <3>1, <3>2
    <2> QED BY <2>2, <2>3 DEF Replied
  <1> QED BY <1>8, <1>9, <1>10, <1>12, <1>13, <1>14, <1>15 DEF SuspendInv

-----------------------------------------------------------------------------
(***************************************************************************)
(* The invariant is inductive.                                             *)
(***************************************************************************)

LEMMA SuspendInit == ServerInit => IInv /\ SuspendInv
  <1> SUFFICES ASSUME ServerInit PROVE IInv /\ SuspendInv OBVIOUS
  <1>1. IInv BY IInvInit DEF ServerInit
  <1>2. ServerTypeOK
    <2>1. Open \in Resolutions BY DEF Open, Answer, Resolutions
    <2>2. Resume("idle", None, Open) \in
            [pc : {"idle", "refused", "waiting", "answered", "dropped"},
             token : Attempts \cup {None}, resolution : Resolutions]
      BY <2>1 DEF Resume
    <2>3. NoReply \in [status : {"none", "error", "denied", "completed", "interaction_required"},
                       input : Inputs \cup {None}]
      BY DEF NoReply, Reply
    <2> QED BY <2>1, <2>2, <2>3 DEF ServerInit, ServerTypeOK
  <1>3. \A a \in Attempts : Handled(a)
    BY DEF ServerInit, Init, Ready, Handled, Open, SenderGone, Parsed, Answer
  <1>4. \A a \in announced : Suspended(a) BY DEF ServerInit
  <1>5. \A r \in Resumes : ~Took(r) BY DEF ServerInit, Resume, Took
  <1>6. \A a \in Attempts : channel[a] \notin Parsed BY DEF ServerInit, Open, Parsed, Answer
  <1>7. \A x \in Attempts \cup Resumes : reply[x].status # "completed"
    BY DEF ServerInit, NoReply, Reply
  <1>8. Replied BY <1>7 DEF Replied
  <1> QED BY <1>1, <1>2, <1>3, <1>4, <1>5, <1>6, <1>8 DEF SuspendInv, ResolvedOnce, SentByResume

\* The server runs its executors as the executor's specification lets them run, but for
\* the death of all of them at once.
LEMMA ExecutorSteps ==
  ASSUME IInv, SuspendInv, [ServerNext]_serverVars
  PROVE  \/ [Next]_vars
         \/ dead' = Executors /\ UNCHANGED <<latched, next, loop, att, cancelled, file, history, failed>>
  <1>1. ASSUME NEW a \in Attempts, TaskStep(a) \/ AnnounceFails(a) \/ Resolve(a) PROVE [Next]_vars
    <2>1. AttemptStep(a) BY <1>1, AnnounceFailsKeeps, ResolveKeeps DEF TaskStep
    <2> QED BY <2>1 DEF Next
  <1>2. ASSUME NEW a \in Attempts, Panic(a) PROVE [Next]_vars
    <2>1. Home[a] \in Executors /\ Kill(Home[a]) BY <1>2, ExecutorsAssumption DEF Panic
    <2> QED BY <2>1 DEF Next
  <1>3. ASSUME NEW a \in Attempts,
               HandleCapability(a) \/ Announce(a) \/ Park(a) \/ ReturnResult(a) \/ DropCall(a)
        PROVE  UNCHANGED vars
    BY <1>3 DEF HandleCapability, Announce, Park, ReturnResult, DropCall
  <1>4. ASSUME NEW r \in Resumes,
               \/ \E token \in Attempts \cup {None}, argument \in Arguments :
                    HandleResume(r, token, argument)
               \/ ReturnResumed(r) \/ DropResume(r)
        PROVE  UNCHANGED vars
    BY <1>4 DEF HandleResume, ReturnResumed, DropResume
  <1>5. CASE ServerDies BY <1>5 DEF ServerDies
  <1>6. CASE MachineDies BY <1>6 DEF MachineDies, Next
  <1>7. CASE UNCHANGED serverVars BY <1>7 DEF serverVars
  <1> QED BY <1>1, <1>2, <1>3, <1>4, <1>5, <1>6, <1>7 DEF ServerNext

LEMMA SuspendNext ==
  ASSUME IInv, SuspendInv, [ServerNext]_serverVars
  PROVE  IInv' /\ SuspendInv'
  <1>1. IInv'
    <2>1. CASE [Next]_vars BY <2>1, IInvNext
    <2>2. CASE /\ dead' = Executors
               /\ UNCHANGED <<latched, next, loop, att, cancelled, file, history, failed>>
      <3>1. TypeOK' BY <2>2 DEF IInv, TypeOK, file, history
      <3> QED BY <2>2, <3>1, StutterKeeps DEF file, history
    <2> QED BY <2>1, <2>2, ExecutorSteps
  <1>2. up \in BOOLEAN /\ dead \subseteq Executors BY DEF IInv, TypeOK, SuspendInv, ServerTypeOK
  <1>3. ASSUME NEW a \in Attempts,
               \/ HandleCapability(a) \/ TaskStep(a)
               \/ Announce(a) \/ AnnounceFails(a) \/ Resolve(a)
               \/ Park(a) \/ ReturnResult(a) \/ DropCall(a)
        PROVE  SuspendInv'
    BY <1>3, HandleCapabilityKeeps, TaskStepKeeps, AnnounceKeeps, AnnounceFailsKeeps, ResolveKeeps,
       ParkKeeps, ReturnResultKeeps, DropCallKeeps
  <1>4. ASSUME NEW a \in Attempts, Panic(a) PROVE SuspendInv'
    <2>1. UNCHANGED <<att, authorised, ran, server, up>> /\ dead \subseteq dead'
      BY <1>4 DEF Panic, Kill, history
    <2> QED BY <1>2, <2>1, DeathKeeps
  <1>5. ASSUME NEW r \in Resumes, NEW token \in Attempts \cup {None}, NEW argument \in Arguments,
               HandleResume(r, token, argument)
        PROVE  SuspendInv'
    BY <1>5, ResumeRefused, ResumeTakes
  <1>6. ASSUME NEW r \in Resumes, ReturnResumed(r) \/ DropResume(r) PROVE SuspendInv'
    BY <1>6, ResumeEnds
  <1>7. CASE ServerDies \/ MachineDies
    <2>1. UNCHANGED <<att, authorised, ran, server>> /\ up' = FALSE /\ dead' = Executors
      BY <1>7 DEF ServerDies, MachineDies, PowerLoss, history
    <2> QED BY <1>1, <1>2, <2>1, DeathKeeps
  <1>8. CASE UNCHANGED serverVars
    <2>1. UNCHANGED <<att, authorised, ran, server, up, dead>>
      BY <1>8 DEF serverVars, vars, history
    <2> QED BY <1>1, <1>2, <2>1, DeathKeeps
  <1> QED BY <1>1, <1>3, <1>4, <1>5, <1>6, <1>7, <1>8 DEF ServerNext

LEMMA SuspendAlways == ServerSpec => [](IInv /\ SuspendInv)
  <1>1. (IInv /\ SuspendInv) /\ [ServerNext]_serverVars => (IInv /\ SuspendInv)' BY SuspendNext
  <1> QED BY SuspendInit, <1>1, PTL DEF ServerSpec

-----------------------------------------------------------------------------
(***************************************************************************)
(* The theorems.                                                           *)
(***************************************************************************)

\* Type correctness of the server's handlers, channels, map and replies.
THEOREM ServerTypeCorrect == ServerSpec => []ServerTypeOK
  <1>1. SuspendInv => ServerTypeOK BY DEF SuspendInv
  <1> QED BY SuspendAlways, <1>1, PTL

\* However many calls and resumes race, and wherever handlers are dropped and tasks die: a
\* token is good for one resume, a suspended call is authorised only by it and with the
\* input its client was shown or the one it sent, a reply "completed" names what the tool
\* ran on, and a call that waits can be resumed (park, handle_resume, SuspendLayer).
THEOREM SuspensionCorrect == ServerSpec => []SuspensionSound
  <1>1. ASSUME IInv, SuspendInv PROVE SuspensionSound
    <2> USE <1>1
    <2>1. ResolvedOnce BY DEF SuspendInv
    <2>2. AuthorisedByResume
      <3> SUFFICES ASSUME NEW a \in announced, authorised[a] # None
                   PROVE  \E r \in Resumes :
                            /\ Took(r)
                            /\ resume[r].token = a
                            /\ \/ resume[r].resolution.kind = "allow" /\ authorised[a] = reply[a].input
                               \/ resume[r].resolution = Answer("replace", authorised[a])
        BY DEF AuthorisedByResume
      <3>1. a \in Attempts /\ Suspended(a) /\ Handled(a) BY DEF SuspendInv, ServerTypeOK
      <3>2. \/ channel[a].kind = "allow" /\ authorised[a] = reply[a].input
            \/ channel[a] = Answer("replace", authorised[a])
        BY <3>1 DEF Suspended
      <3>3. channel[a] \in Parsed BY <3>1, <3>2 DEF Handled, Open, SenderGone, Answer
      <3>4. PICK r \in Resumes : Took(r) /\ resume[r].token = a
        BY <3>1, <3>3 DEF SuspendInv, SentByResume
      <3>5. channel[a] = resume[r].resolution BY <3>4 DEF SuspendInv, Resumed
      <3> QED BY <3>2, <3>4, <3>5
    <2>3. RepliesAreOwn BY DEF SuspendInv, Replied, RanOn, RepliesAreOwn
    <2>4. ParkedCallsReachable
      <3> SUFFICES ASSUME NEW a \in announced, AtSuspend(a), channel[a] = Open
                   PROVE  handler[a] = "racing" \/ a \in pending
        BY DEF ParkedCallsReachable
      <3>1. Suspended(a) /\ Handled(a) /\ Home[a] \notin dead
        BY DEF SuspendInv, ServerTypeOK, AtSuspend, At
      <3>2. handler[a] # "dropped" BY <3>1 DEF Handled, Open, SenderGone, Answer
      <3> QED BY <3>1, <3>2 DEF Suspended
    <2> QED BY <2>1, <2>2, <2>3, <2>4 DEF SuspensionSound
  <1> QED BY SuspendAlways, <1>1, PTL

\* What the executor promises holds of the calls of the server too: a tool runs only on
\* what was authorised and recorded, and the audit file tells the truth of every call that
\* ended (build_executor, handle_capability).
THEOREM ServerGoverned == ServerSpec => [](Governed /\ RecordsTellTheTruth)
  <1> DEFINE AllCleared == \A a \in Attempts : Cleared(a)
  <1>1. ServerInit => AllCleared BY DEF ServerInit, Init, Ready, Cleared, Past
  <1>2. ASSUME IInv, SuspendInv, AllCleared, [ServerNext]_serverVars PROVE AllCleared'
    <2>1. CASE [Next]_vars BY <1>2, <2>1, ClearedNext
    <2>2. CASE UNCHANGED att BY <1>2, <2>2 DEF Cleared, RulePlace, Past
    <2> QED BY <1>2, <2>1, <2>2, ExecutorSteps
  <1>3. IInv /\ AllCleared => Governed /\ RecordsTellTheTruth
    BY IInvAttributes, IInvRules, IInvPairs, IInvOutcomes, IInvIds DEF Governed, RecordsTellTheTruth
  <1> HIDE DEF AllCleared
  <1>4. ServerSpec => []AllCleared BY SuspendAlways, <1>1, <1>2, PTL DEF ServerSpec
  <1> QED BY SuspendAlways, <1>3, <1>4, PTL
=============================================================================

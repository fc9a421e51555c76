---------------------------- MODULE DriverProofs ----------------------------
(***************************************************************************)
(* Proofs about Driver, for every value of its constants.                  *)
(*                                                                         *)
(* The types need that a call in progress has a key.  The bounds on what   *)
(* is charged rest on KeyInv: the key in force is the last one minted, it  *)
(* was minted against the prompt and the cost the loop still has, every    *)
(* earlier key belongs to an earlier turn and is settled and collected,    *)
(* and so the cost the loop does not know of is the key in force's alone.  *)
(* KeyInv needs that the first prompt is not replaced on a re-dispatch.    *)
(***************************************************************************)
EXTENDS Driver, TLAPS, SequenceTheorems

TypedInv ==
  /\ TypeOK
  /\ pc = "waiting" => key # 0

\* What one answer may cost.
LEMMA CostBounds ==
  ASSUME NEW cost \in Costs
  PROVE  cost \in Nat /\ cost <= MaxCost
  <1>1. cost \in 0..MaxCost /\ MaxCost \in Nat
    BY CostsAssumption
  <1> QED BY <1>1

\* Replacing one key's record leaves a sequence of keys of the same length.
LEMMA KeyReplaced ==
  ASSUME NEW s \in Seq(Key), NEW k \in 1..Len(s), NEW r \in Key
  PROVE  /\ [s EXCEPT ![k] = r] \in Seq(Key)
         /\ Len([s EXCEPT ![k] = r]) = Len(s)
         /\ [s EXCEPT ![k] = r][k] = r
         /\ \A j \in 1..Len(s) : j # k => [s EXCEPT ![k] = r][j] = s[j]
  BY ExceptSeq

\* The record of a key that is taken, settled or released.
LEMMA KeyTyped ==
  ASSUME NEW r \in Key, NEW p \in Nat \X Nat, NEW c \in Nat
  PROVE  /\ [r EXCEPT !.state = "running", !.payload = p] \in Key
         /\ [r EXCEPT !.state = "settled", !.cost = c] \in Key
         /\ [r EXCEPT !.state = "idle"] \in Key
  BY DEF Key

\* Minting keeps the sequence of keys, and the key in force is one of it.
LEMMA StampTyped ==
  ASSUME TypeOK, NEW p \in Nat \X Nat, Stamp(p)
  PROVE  /\ mc' \in Seq(Key)
         /\ Len(mc') \in Nat
         /\ key' \in 1..Len(mc')
         /\ print' \in Nat \X Nat
         /\ elapsed' \in 0..WaitBudget
  <1>1. NewKey \in Key
    BY DEF NewKey, Key, TypeOK
  <1>2. CASE key # 0 /\ print = p
    BY <1>2 DEF Stamp, TypeOK
  <1>3. CASE ~(key # 0 /\ print = p)
    <2>1. mc' = Append(mc, NewKey) /\ key' = Len(mc) + 1 /\ print' = p /\ elapsed' = 0
      BY <1>3 DEF Stamp
    <2>2. mc' \in Seq(Key) /\ Len(mc') = Len(mc) + 1
      BY <1>1, <2>1, AppendProperties DEF TypeOK
    <2> QED BY <2>1, <2>2, LimitsAssumption DEF TypeOK
  <1> QED BY <1>2, <1>3

\* The variables a step leaves alone keep their types.
LEMMA FailsTyped ==
  ASSUME TypedInv, NEW class \in {"edge", "retryable", "reused", "conflict",
                                           "attempt_timeout", "fatal", "too_large"},
         Fails(class), UNCHANGED mc, arrived' \in BOOLEAN
  PROVE  TypedInv'
  BY LimitsAssumption DEF TypedInv, TypeOK, Fails, Goto, TimePasses, intent, talk, work,
         money

LEMMA AnsweredTyped ==
  ASSUME TypedInv, pc = "waiting", Answered
  PROVE  TypedInv'
  <1>1. key \in 1..Len(mc)
    BY DEF TypedInv, TypeOK
  <1>2. mc[key] \in Key
    BY <1>1 DEF TypedInv, TypeOK
  <1>3. mc[key].cost \in Nat
    BY <1>2 DEF Key
  <1>4. mc' \in Seq(Key) /\ Len(mc') = Len(mc)
    BY DEF TypedInv, TypeOK, Answered
  <1>5. arrived' \in BOOLEAN /\ key' \in 0..Len(mc')
    <2>1. Len(mc') \in Nat
      BY <1>4, LenProperties
    <2>2. key' \in 0..Len(mc')
      BY <2>1 DEF Answered
    <2>3. arrived' \in BOOLEAN
      BY DEF Answered
    <2> QED BY <2>2, <2>3
  <1>6. slept' \in 0..PauseBudget /\ spent' \in Nat /\ turn' \in Nat /\ retries' \in Nat
    BY <1>3, LimitsAssumption DEF Answered, TypedInv, TypeOK
  <1> QED
    BY <1>4, <1>5, <1>6, LimitsAssumption DEF TypedInv, TypeOK, Answered, Goto, talk, work

LEMMA TypedInit == ASSUME Init PROVE TypedInv
  <1>1. mc = <<>> /\ mc \in Seq(Key) /\ Len(mc) = 0
    BY EmptySeq DEF Init
  <1>2. spent \in Nat /\ charged \in Nat
    BY LimitsAssumption, CostsAssumption DEF Init
  <1>3. refused \subseteq Calls /\ nudged \in BOOLEAN /\ cancelled \in BOOLEAN /\ arrived \in BOOLEAN
    BY DEF Init
  <1> QED
    BY <1>1, <1>2, <1>3, LimitsAssumption, CostsAssumption DEF Init, TypedInv, TypeOK, Reasons

\* A step of Next keeps the types and the key of a call in progress.
LEMMA TypedStep == ASSUME TypedInv, [Next]_vars PROVE TypedInv'
  <1> USE LimitsAssumption DEF counters, intent, talk, work, money
  <1>1. CASE AskRefused
    BY <1>1 DEF AskRefused, Finish, TypedInv, TypeOK, Reasons
  <1>2. CASE Compact
    BY <1>2 DEF Compact, Goto, TypedInv, TypeOK
  <1>3. CASE TooLarge
    BY <1>3 DEF TooLarge, Finish, TypedInv, TypeOK, Reasons
  <1>4. CASE Dispatch
    BY <1>4 DEF Dispatch, Goto, TypedInv, TypeOK
  <1>5. CASE Send
    <2>1. CASE Finish("audit_fatal") /\ UNCHANGED <<key, print, elapsed, mc>>
      BY <1>5, <2>1 DEF Send, Finish, TypedInv, TypeOK, Reasons
    <2>2. CASE Goto("waiting") /\ Stamp(Payload(prompt))
      <3>1. Payload(prompt) \in Nat \X Nat
        BY DEF Payload, TypedInv, TypeOK
      <3>2. /\ mc' \in Seq(Key) /\ Len(mc') \in Nat /\ key' \in 1..Len(mc')
            /\ print' \in Nat \X Nat /\ elapsed' \in 0..WaitBudget
        BY <2>2, <3>1, StampTyped DEF TypedInv
      <3> QED BY <1>5, <2>2, <3>2 DEF Send, Goto, TypedInv, TypeOK
    <2> QED BY <1>5, <2>1, <2>2 DEF Send
  <1>6. CASE Receive
    <2>1. key \in 1..Len(mc) /\ mc[key] \in Key /\ Payload(prompt) \in Nat \X Nat
      <3>0. pc = "waiting"
        BY <1>6 DEF Receive
      <3>1. key \in 1..Len(mc)
        BY <3>0 DEF TypedInv, TypeOK
      <3>2. mc[key] \in Key
        BY <3>1 DEF TypedInv, TypeOK
      <3>3. Payload(prompt) \in Nat \X Nat
        BY DEF TypedInv, TypeOK, Payload
      <3> QED BY <3>1, <3>2, <3>3
    <2>2. [mc[key] EXCEPT !.state = "running", !.payload = Payload(prompt)] \in Key
      BY <2>1, KeyTyped
    <2>3. mc' \in Seq(Key) /\ Len(mc') = Len(mc)
      BY <1>6, <2>1, <2>2, KeyReplaced DEF Receive, TypedInv, TypeOK
    <2>4. arrived' \in BOOLEAN
      BY <1>6 DEF Receive
    <2> QED BY <1>6, <2>3, <2>4 DEF Receive, TypedInv, TypeOK
  <1>7. CASE Refuse
    BY <1>7, FailsTyped DEF Refuse, TypedInv, TypeOK
  <1>8. CASE Replay
    BY <1>8, AnsweredTyped, FailsTyped DEF Replay, TypedInv, TypeOK
  <1>9. CASE \E k \in DOMAIN mc : Settle(k)
    <2>1. PICK k \in 1..Len(mc) : Settle(k)
      BY <1>9 DEF TypedInv, TypeOK
    <2>2. PICK cost \in Costs :
            /\ mc' = [mc EXCEPT ![k] = [@ EXCEPT !.state = "settled", !.cost = cost]]
            /\ charged' = charged + cost
      BY <2>1 DEF Settle
    <2>3. cost \in Nat /\ charged' \in Nat
      <3>1. cost \in Nat
        BY CostBounds
      <3>2. charged \in Nat
        BY DEF TypedInv, TypeOK
      <3> QED BY <2>2, <3>1, <3>2
    <2>4. mc \in Seq(Key) /\ mc[k] \in Key
      <3>1. mc \in Seq(Key)
        BY DEF TypedInv, TypeOK
      <3> QED BY <3>1
    <2>5. mc' \in Seq(Key) /\ Len(mc') = Len(mc)
      <3> DEFINE r == [mc[k] EXCEPT !.state = "settled", !.cost = cost]
      <3>1. r \in Key
        BY <2>3, <2>4, <<0, 0>> \in Nat \X Nat, KeyTyped
      <3>2. mc' = [mc EXCEPT ![k] = r]
        BY <2>2
      <3> HIDE DEF r
      <3> QED BY <2>4, <3>1, <3>2, KeyReplaced
    <2> QED BY <2>1, <2>3, <2>5 DEF Settle, TypedInv, TypeOK
  <1>10. CASE \E k \in DOMAIN mc : Release(k)
    <2>1. PICK k \in 1..Len(mc) : Release(k)
      BY <1>10 DEF TypedInv, TypeOK
    <2>2. mc \in Seq(Key) /\ mc[k] \in Key
      BY DEF TypedInv, TypeOK
    <2>3. mc' \in Seq(Key) /\ Len(mc') = Len(mc) /\ arrived' \in BOOLEAN
      <3> DEFINE r == [mc[k] EXCEPT !.state = "idle"]
      <3>1. r \in Key
        BY <2>2, <<0, 0>> \in Nat \X Nat, 0 \in Nat, KeyTyped
      <3>2. mc' = [mc EXCEPT ![k] = r] /\ arrived' \in BOOLEAN
        BY <2>1 DEF Release
      <3> HIDE DEF r
      <3> QED BY <2>2, <3>1, <3>2, KeyReplaced
    <2>4. CASE ~arrived
      BY <2>1, <2>3, <2>4 DEF Release, TypedInv, TypeOK
    <2>5. CASE arrived
      <3>1. PICK class \in {"retryable", "fatal", "attempt_timeout", "too_large"} : Fails(class)
        BY <2>1, <2>5 DEF Release
      <3> QED BY <2>3, <3>1 DEF Fails, Goto, TimePasses, TypedInv, TypeOK
    <2> QED BY <2>4, <2>5
  <1>11. CASE Deliver
    BY <1>11, AnsweredTyped DEF Deliver
  <1>12. CASE Cut
    BY <1>12, FailsTyped DEF Cut
  <1>13. CASE GiveUp
    BY <1>13 DEF GiveUp, Finish, TypedInv, TypeOK, Reasons
  <1>14. CASE Redispatch
    <2>1. key' \in 0..Len(mc') /\ mc' = mc
      BY <1>14 DEF Redispatch, TypedInv, TypeOK
    <2>2. slept' \in 0..PauseBudget /\ elapsed' \in 0..WaitBudget /\ retries' \in Nat
      BY <1>14 DEF Redispatch, TimePasses, TypedInv, TypeOK
    <2>3. pc' \in {"pause", "done"} /\ reason' \in Reasons
      BY <1>14 DEF Redispatch, Goto, Finish, TypedInv, TypeOK, Reasons
    <2> QED BY <1>14, <2>1, <2>2, <2>3 DEF Redispatch, TypedInv, TypeOK
  <1>15. CASE PauseEnds
    BY <1>15 DEF PauseEnds, Goto, Finish, TypedInv, TypeOK, Reasons
  <1>16. CASE WaitForAnswer
    <2>1. pollsTotal' \in Nat /\ elapsed' \in 0..WaitBudget
      BY <1>16 DEF WaitForAnswer, TypedInv, TypeOK
    <2>2. pc' \in {"poll", "done"} /\ reason' \in Reasons
      BY <1>16 DEF WaitForAnswer, Goto, Finish, TypedInv, TypeOK, Reasons
    <2> QED BY <1>16, <2>1, <2>2 DEF WaitForAnswer, TypedInv, TypeOK
  <1>17. CASE PollEnds
    <2>1. CASE cancelled
      BY <1>17, <2>1 DEF PollEnds, Finish, TypedInv, TypeOK, Reasons
    <2>2. CASE ~cancelled
      <3>1. Payload(prompt) \in Nat \X Nat
        BY DEF Payload, TypedInv, TypeOK
      <3>2. /\ mc' \in Seq(Key) /\ Len(mc') \in Nat /\ key' \in 1..Len(mc')
            /\ print' \in Nat \X Nat /\ elapsed' \in 0..WaitBudget
        BY <1>17, <2>2, <3>1, StampTyped DEF PollEnds, TypedInv
      <3> QED BY <1>17, <2>2, <3>2 DEF PollEnds, Goto, TypedInv, TypeOK
    <2> QED BY <2>1, <2>2
  <1>18. CASE OverCap
    BY <1>18 DEF OverCap, Finish, TypedInv, TypeOK, Reasons
  <1>19. CASE Truncated
    BY <1>19 DEF Truncated, Goto, Push, Finish, TypedInv, TypeOK, Reasons
  <1>20. CASE Final
    <2>1. pc' \in {"ask", "done"} /\ reason' \in Reasons /\ nudged' \in BOOLEAN
      BY <1>20 DEF Final, Goto, Finish, TypedInv, TypeOK, Reasons
    <2> QED BY <1>20, <2>1 DEF Final, Push, TypedInv, TypeOK
  <1>21. CASE Malformed
    <2>1. pc' \in {"ask", "done"} /\ reason' \in Reasons
      BY <1>21 DEF Malformed, Goto, Finish, TypedInv, TypeOK, Reasons
    <2> QED BY <1>21, <2>1 DEF Malformed, Push, TypedInv, TypeOK
  <1>22. CASE CallTool
    <2>1. pc' \in {"tool", "done"} /\ reason' \in Reasons /\ call' \in Calls /\ tried' \in Nat
      BY <1>22 DEF CallTool, Goto, Finish, TypedInv, TypeOK, Reasons
    <2> QED BY <1>22, <2>1 DEF CallTool, Push, TypedInv, TypeOK
  <1>23. CASE Denied
    <2>1. pc' \in {"ask", "done"} /\ reason' \in Reasons /\ refused' \subseteq Calls
      BY <1>23 DEF Denied, Goto, Finish, TypedInv, TypeOK, Reasons
    <2>2. hist' \in Nat /\ room' \in {"unknown", "compacted", "composed"}
      BY <1>23 DEF Denied, Push, TypedInv, TypeOK
    <2> QED BY <1>23, <2>1, <2>2 DEF Denied, TypedInv, TypeOK
  <1>24. CASE NotRun
    <2>1. pc' = "done" /\ reason' \in Reasons /\ denied' \in Nat
      BY <1>24 DEF NotRun, Finish, TypedInv, TypeOK, Reasons
    <2> QED BY <1>24, <2>1 DEF NotRun, TypedInv, TypeOK
  <1>25. CASE Admit
    BY <1>25 DEF Admit, Goto, TypedInv, TypeOK
  <1>26. CASE ToolSucceeds
    BY <1>26 DEF ToolSucceeds, Goto, Push, TypedInv, TypeOK
  <1>27. CASE ToolFails
    <2>1. pc' \in {"ask", "done"} /\ reason' \in Reasons /\ denied' \in Nat
      BY <1>27 DEF ToolFails, Goto, Finish, TypedInv, TypeOK, Reasons
    <2>2. hist' \in Nat /\ room' \in {"unknown", "compacted", "composed"}
      BY <1>27 DEF ToolFails, Push, TypedInv, TypeOK
    <2> QED BY <1>27, <2>1, <2>2 DEF ToolFails, TypedInv, TypeOK
  <1>28. CASE Cancel
    <2>1. cancelled' \in BOOLEAN
      BY <1>28 DEF Cancel
    <2> QED BY <1>28, <2>1 DEF Cancel, TypedInv, TypeOK
  <1>29. CASE UNCHANGED vars
    BY <1>29 DEF vars, TypedInv, TypeOK
  <1> QED
    BY <1>1, <1>2, <1>3, <1>4, <1>5, <1>6, <1>7, <1>8, <1>9, <1>10, <1>11, <1>12, <1>13, <1>14,
       <1>15, <1>16, <1>17, <1>18, <1>19, <1>20, <1>21, <1>22, <1>23, <1>24, <1>25, <1>26, <1>27,
       <1>28, <1>29 DEF Next, DriverStep

(***************************************************************************)
(* Type correctness of the agent loop and of what it knows of the Model    *)
(* Connector, with the bounds on a turn's sleep and on the in-flight wait. *)
(***************************************************************************)
THEOREM TypeCorrect == Spec => []TypeOK
  <1>1. Init => TypedInv
    BY TypedInit
  <1>2. TypedInv /\ [Next]_vars => TypedInv'
    BY TypedStep
  <1>3. TypedInv => TypeOK
    BY DEF TypedInv
  <1> QED BY <1>1, <1>2, <1>3, PTL DEF Spec

-----------------------------------------------------------------------------
(***************************************************************************)
(* What is charged.                                                        *)
(***************************************************************************)

\* The key in force is the last one, belongs to this turn and was minted for what the loop
\* would send again now.
KeyInForce ==
  key # 0 => /\ key = Len(mc)
             /\ mc[key].turn = turn
             /\ print = <<hist, spent>>
             /\ prompt = hist
             /\ room = "composed"
             /\ spent <= Cap
             /\ mc[key].state # "idle" => mc[key].payload = print

\* Every other key was answered in an earlier turn, and no two share a turn.
EarlierKeys ==
  /\ \A k \in 1..Len(mc) : k # key => mc[k].turn < turn /\ mc[k].state = "settled"
  /\ \A j, k \in 1..Len(mc) : mc[j].turn = mc[k].turn => j = k

\* The cost the loop does not know of is the key in force's.
Unseen ==
  /\ key = 0 => charged = spent
  /\ key # 0 /\ mc[key].state # "settled" => charged = spent
  /\ key # 0 /\ mc[key].state = "settled" => /\ charged = spent + mc[key].cost
                                            /\ mc[key].cost <= MaxCost
  /\ spent <= Cap + MaxCost

\* Where the loop has a key, and what a dispatch being recorded will send.
KeyAt ==
  /\ pc \in {"settle", "tool", "running"} => key = 0
  /\ pc \in {"waiting", "recover", "poll", "pause"} => key # 0
  /\ pc = "record" => prompt = hist /\ room = "composed" /\ spent <= Cap
  /\ arrived => pc = "waiting" /\ mc[key].state # "idle"
  /\ error # "reused"

KeyInv == KeyInForce /\ EarlierKeys /\ Unseen /\ KeyAt

\* A step that touches neither the key, the history nor the costs.
LEMMA KeyQuiet ==
  ASSUME KeyInv, UNCHANGED <<intent, hist, room, money, mc>>,
         arrived' => arrived /\ pc' = pc,
         error' # "reused",
         pc' \in {"settle", "tool", "running"} => key = 0,
         pc' \in {"waiting", "recover", "poll", "pause"} => key # 0,
         pc' = "record" => pc = "record"
  PROVE  KeyInv'
  <1> USE DEF KeyInv, intent, money
  <1>1. KeyInForce'
    BY DEF KeyInForce
  <1>2. EarlierKeys'
    BY DEF EarlierKeys
  <1>3. Unseen'
    BY DEF Unseen
  <1>4. KeyAt'
    BY DEF KeyAt
  <1> QED BY <1>1, <1>2, <1>3, <1>4

\* A step between two keys that may change the history.
LEMMA KeyTalk ==
  ASSUME KeyInv, key = 0, pc # "waiting", UNCHANGED <<key, money, mc, arrived, error>>,
         pc' \notin {"record", "waiting", "recover", "poll", "pause"}
  PROVE  KeyInv'
  <1> USE DEF KeyInv, money
  <1>1. KeyInForce'
    BY DEF KeyInForce
  <1>2. EarlierKeys'
    BY DEF EarlierKeys
  <1>3. Unseen'
    BY DEF Unseen
  <1>4. KeyAt'
    BY DEF KeyAt
  <1> QED BY <1>1, <1>2, <1>3, <1>4

\* Sending: the key in force, which fits the payload, or the first key of the turn.
LEMMA KeySent ==
  ASSUME TypeOK, KeyInv, Stamp(Payload(prompt)), pc \in {"record", "poll"}, pc' = "waiting",
         UNCHANGED <<prompt, hist, room, money, arrived, error>>
  PROVE  KeyInv'
  <1> USE DEF money
  <1>1. prompt = hist /\ room = "composed" /\ spent <= Cap /\ ~arrived /\ error # "reused"
    BY DEF KeyInv, KeyAt, KeyInForce
  <1>2. Payload(prompt) = <<hist, spent>>
    BY <1>1 DEF Payload
  <1>3. CASE key # 0
    <2>1. print = Payload(prompt)
      BY <1>2, <1>3 DEF KeyInv, KeyInForce
    <2>2. UNCHANGED <<key, print, mc>>
      BY <1>3, <2>1 DEF Stamp
    <2>3. KeyInForce' /\ EarlierKeys'
      BY <2>2 DEF KeyInv, KeyInForce, EarlierKeys
    <2>4. Unseen' /\ KeyAt'
      BY <1>1, <1>3, <2>2 DEF KeyInv, Unseen, KeyAt
    <2> QED BY <2>3, <2>4 DEF KeyInv
  <1>4. CASE key = 0
    <2>1. mc' = Append(mc, NewKey) /\ key' = Len(mc) + 1 /\ print' = <<hist, spent>>
      BY <1>2, <1>4 DEF Stamp
    <2>2. NewKey \in Key /\ NewKey.turn = turn /\ NewKey.state = "idle"
      BY DEF NewKey, Key, TypeOK
    <2>3. /\ Len(mc') = Len(mc) + 1 /\ Len(mc) \in Nat
          /\ mc'[Len(mc) + 1] = NewKey
          /\ \A k \in 1..Len(mc) : mc'[k] = mc[k]
      BY <2>1, <2>2, AppendProperties DEF TypeOK
    <2>4. PICK n \in Nat : n = Len(mc) + 1
      BY <2>3
    <2>5. key' = n /\ Len(mc') = n /\ mc'[n] = NewKey /\ \A k \in 1..n : k # n => mc'[k] = mc[k]
      BY <2>1, <2>3, <2>4
    <2>6. KeyInForce'
      BY <1>1, <2>1, <2>2, <2>5 DEF KeyInForce
    <2>7. \A k \in 1..Len(mc) : mc[k].turn < turn /\ mc[k].turn \in Nat /\ mc[k].state = "settled"
      <3>1. ASSUME NEW k \in 1..Len(mc)
            PROVE  mc[k].turn \in Nat
        <4>1. mc \in Seq(Key)
          BY DEF TypeOK
        <4>2. mc[k] \in Key
          BY <4>1, ElementOfSeq
        <4> QED BY <4>2 DEF Key
      <3>2. \A k \in 1..Len(mc) : k # 0
        BY <2>3
      <3> QED BY <1>4, <3>1, <3>2 DEF KeyInv, EarlierKeys
    <2>8. \A k \in 1..n : k # n => k \in 1..Len(mc)
      BY <2>3, <2>4
    <2>9. EarlierKeys'
      <3>1. ASSUME NEW k \in 1..n, k # n
            PROVE  mc'[k].turn < turn /\ mc'[k].state = "settled" /\ mc'[k].turn # turn
        BY <3>1, <2>5, <2>7, <2>8 DEF TypeOK
      <3>2. ASSUME NEW j \in 1..n, NEW k \in 1..n, mc'[j].turn = mc'[k].turn
            PROVE  j = k
        <4>1. CASE j = n
          BY <3>1, <3>2, <4>1, <2>2, <2>5
        <4>2. CASE k = n
          BY <3>1, <3>2, <4>2, <2>2, <2>5
        <4>3. CASE j # n /\ k # n
          BY <3>2, <4>3, <2>5, <2>8 DEF KeyInv, EarlierKeys
        <4> QED BY <4>1, <4>2, <4>3
      <3> QED BY <3>1, <3>2, <2>5 DEF EarlierKeys
    <2>10. Unseen'
      <3>1. charged = spent /\ spent <= Cap + MaxCost
        BY <1>4 DEF KeyInv, Unseen
      <3> QED BY <2>2, <2>5, <3>1 DEF Unseen
    <2>11. KeyAt'
      BY <1>1, <2>3, <2>4, <2>5 DEF KeyAt
    <2> QED BY <2>6, <2>9, <2>10, <2>11 DEF KeyInv
  <1> QED BY <1>3, <1>4

\* One key's record changed, and it was the key in force.
LEMMA OtherKeys ==
  ASSUME TypeOK, KeyInv, NEW k \in 1..Len(mc), NEW r \in Key, mc' = [mc EXCEPT ![k] = r],
         r.turn = mc[k].turn, k = key, key' = key, turn' = turn
  PROVE  EarlierKeys' /\ Len(mc') = Len(mc) /\ mc'[k] = r
  <1>1. /\ Len(mc') = Len(mc) /\ mc'[k] = r
        /\ \A j \in 1..Len(mc) : j # k => mc'[j] = mc[j]
    BY KeyReplaced DEF TypeOK
  <1>2. \A j \in 1..Len(mc) : mc'[j].turn = mc[j].turn
    BY <1>1
  <1>3. \A j \in 1..Len(mc) : j # key => mc'[j].turn < turn /\ mc'[j].state = "settled"
    BY <1>1 DEF KeyInv, EarlierKeys
  <1> QED BY <1>1, <1>2, <1>3 DEF KeyInv, EarlierKeys

\* A key that is running is the key in force.
LEMMA RunningKey ==
  ASSUME KeyInv, NEW k \in 1..Len(mc), mc[k].state = "running"
  PROVE  k = key
  BY DEF KeyInv, EarlierKeys

\* Model Connector takes the request.
LEMMA KeyReceived == ASSUME TypedInv, KeyInv, Receive PROVE KeyInv'
  <1> USE DEF money, intent, talk
  <1>1. pc = "waiting" /\ mc[key].state = "idle"
    BY DEF Receive
  <1>2. key \in 1..Len(mc) /\ key # 0
    BY <1>1 DEF TypedInv, TypeOK
  <1>3. mc[key] \in Key /\ Payload(prompt) \in Nat \X Nat
    <2>1. mc \in Seq(Key)
      BY DEF TypedInv, TypeOK
    <2>2. mc[key] \in Key
      BY <1>2, <2>1, ElementOfSeq
    <2>3. Payload(prompt) \in Nat \X Nat
      BY DEF TypedInv, TypeOK, Payload
    <2> QED BY <2>2, <2>3
  <1> DEFINE r == [mc[key] EXCEPT !.state = "running", !.payload = Payload(prompt)]
  <1>4. r \in Key /\ r.turn = mc[key].turn /\ r.state = "running" /\ r.payload = Payload(prompt)
    BY <1>3, KeyTyped DEF Key
  <1>5. mc' = [mc EXCEPT ![key] = r] /\ UNCHANGED <<pc, key, print, prompt, hist, room, spent,
                                                    charged, turn, error>>
    BY DEF Receive
  <1> HIDE DEF r
  <1>6. EarlierKeys' /\ Len(mc') = Len(mc) /\ mc'[key] = r
    BY <1>2, <1>4, <1>5, OtherKeys DEF TypedInv
  <1>7. KeyInForce'
    BY <1>2, <1>4, <1>5, <1>6 DEF KeyInv, KeyInForce, Payload
  <1>8. Unseen'
    BY <1>1, <1>2, <1>4, <1>5, <1>6 DEF KeyInv, Unseen
  <1>9. KeyAt'
    BY <1>1, <1>2, <1>4, <1>5, <1>6 DEF KeyInv, KeyAt
  <1> QED BY <1>6, <1>7, <1>8, <1>9 DEF KeyInv

\* The provider answered.
LEMMA KeySettled ==
  ASSUME TypedInv, KeyInv, NEW k \in 1..Len(mc), Settle(k)
  PROVE  KeyInv'
  <1> USE DEF money, intent, talk
  <1>1. k = key /\ mc[key].state = "running"
    BY RunningKey DEF Settle
  <1>2. PICK cost \in Costs :
          /\ mc' = [mc EXCEPT ![k] = [@ EXCEPT !.state = "settled", !.cost = cost]]
          /\ charged' = charged + cost
    BY DEF Settle
  <1>3. cost \in Nat /\ cost <= MaxCost
    BY CostBounds
  <1>4. mc[k] \in Key
    <2>1. mc \in Seq(Key)
      BY DEF TypedInv, TypeOK
    <2> QED BY <2>1, ElementOfSeq
  <1> DEFINE r == [mc[k] EXCEPT !.state = "settled", !.cost = cost]
  <1>5. /\ r \in Key /\ r.turn = mc[k].turn /\ r.state = "settled" /\ r.cost = cost
        /\ r.payload = mc[k].payload
    BY <1>3, <1>4 DEF Key
  <1>6. mc' = [mc EXCEPT ![k] = r]
    BY <1>2
  <1>7. UNCHANGED <<pc, key, print, prompt, hist, room, spent, turn, error, arrived>>
    BY DEF Settle
  <1> HIDE DEF r
  <1>8. EarlierKeys' /\ Len(mc') = Len(mc) /\ mc'[key] = r
    BY <1>1, <1>5, <1>6, <1>7, OtherKeys DEF TypedInv
  <1>9. key # 0
    BY <1>1, LenProperties DEF TypedInv, TypeOK
  <1>10. KeyInForce'
    BY <1>1, <1>5, <1>7, <1>8, <1>9 DEF KeyInv, KeyInForce
  <1>11. Unseen'
    BY <1>1, <1>2, <1>3, <1>5, <1>7, <1>8, <1>9 DEF KeyInv, Unseen
  <1>12. KeyAt'
    BY <1>1, <1>5, <1>7, <1>8, <1>9 DEF KeyInv, KeyAt
  <1> QED BY <1>8, <1>10, <1>11, <1>12 DEF KeyInv

\* The provider failed.
LEMMA KeyReleased ==
  ASSUME TypedInv, KeyInv, NEW k \in 1..Len(mc), Release(k)
  PROVE  KeyInv'
  <1> USE DEF money, intent, talk
  <1>1. k = key /\ mc[key].state = "running"
    BY RunningKey DEF Release
  <1>2. mc[k] \in Key
    <2>1. mc \in Seq(Key)
      BY DEF TypedInv, TypeOK
    <2> QED BY <2>1, ElementOfSeq
  <1> DEFINE r == [mc[k] EXCEPT !.state = "idle"]
  <1>3. r \in Key /\ r.turn = mc[k].turn /\ r.state = "idle"
    BY <1>2 DEF Key
  <1>4. mc' = [mc EXCEPT ![k] = r] /\ ~arrived'
    BY DEF Release
  <1> HIDE DEF r
  <1>5. UNCHANGED <<key, print, prompt, hist, room, spent, charged, turn>>
    BY DEF Release, Fails
  <1>6. EarlierKeys' /\ Len(mc') = Len(mc) /\ mc'[key] = r
    BY <1>1, <1>3, <1>4, <1>5, OtherKeys DEF TypedInv
  <1>7. key # 0
    BY <1>1, LenProperties DEF TypedInv, TypeOK
  <1>8. KeyInForce'
    BY <1>1, <1>3, <1>5, <1>6, <1>7 DEF KeyInv, KeyInForce
  <1>9. Unseen'
    BY <1>1, <1>3, <1>5, <1>6, <1>7 DEF KeyInv, Unseen
  <1>10. error' # "reused" /\ (pc' = pc \/ pc' = "recover")
    BY DEF Release, Fails, Goto, KeyInv, KeyAt
  <1>11. KeyAt'
    BY <1>4, <1>5, <1>7, <1>10 DEF KeyInv, KeyAt
  <1> QED BY <1>6, <1>8, <1>9, <1>11 DEF KeyInv

\* The loop has the answer of a settled key.
LEMMA KeyAnswered ==
  ASSUME TypedInv, KeyInv, pc = "waiting", mc[key].state = "settled", Answered
  PROVE  KeyInv'
  <1> USE DEF talk
  <1>1. key # 0 /\ key \in 1..Len(mc) /\ turn \in Nat
    BY DEF TypedInv, TypeOK
  <1>2. /\ key' = 0 /\ turn' = turn + 1 /\ ~arrived' /\ pc' = "settle"
        /\ spent' = spent + mc[key].cost
        /\ UNCHANGED <<mc, charged, error>>
    BY DEF Answered, Goto
  <1>3. mc[key].turn = turn /\ spent <= Cap
    BY <1>1 DEF KeyInv, KeyInForce
  <1>4. \A k \in 1..Len(mc) : mc[k].turn < turn + 1 /\ mc[k].state = "settled"
    <2>1. SUFFICES ASSUME NEW k \in 1..Len(mc)
                   PROVE  mc[k].turn < turn + 1 /\ mc[k].state = "settled"
      OBVIOUS
    <2>2. mc[k].turn \in Nat
      <3>1. mc \in Seq(Key)
        BY DEF TypedInv, TypeOK
      <3>2. mc[k] \in Key
        BY <3>1, ElementOfSeq
      <3> QED BY <3>2 DEF Key
    <2>3. CASE k = key
      BY <1>1, <1>3, <2>3
    <2>4. CASE k # key
      BY <1>1, <2>2, <2>4 DEF KeyInv, EarlierKeys
    <2> QED BY <2>3, <2>4
  <1>5. EarlierKeys'
    BY <1>2, <1>4 DEF KeyInv, EarlierKeys
  <1>6. charged = spent + mc[key].cost /\ mc[key].cost <= MaxCost
    BY <1>1 DEF KeyInv, Unseen
  <1>7. mc[key].cost \in Nat /\ spent \in Nat
    <2>1. mc \in Seq(Key) /\ spent \in Nat
      BY DEF TypedInv, TypeOK
    <2>2. mc[key] \in Key
      BY <1>1, <2>1, ElementOfSeq
    <2> QED BY <2>1, <2>2 DEF Key
  <1>8. Unseen'
    <2>1. Cap \in Nat /\ MaxCost \in Nat
      BY LimitsAssumption, CostsAssumption
    <2>2. spent' = charged /\ spent' <= Cap + MaxCost
      BY <1>2, <1>3, <1>6, <1>7, <2>1
    <2> QED BY <1>2, <2>2 DEF Unseen
  <1>9. KeyInForce' /\ KeyAt'
    BY <1>2 DEF KeyInv, KeyInForce, KeyAt
  <1> QED BY <1>5, <1>8, <1>9 DEF KeyInv

LEMMA KeyInit == ASSUME Init PROVE KeyInv
  <1>1. mc = <<>> /\ Len(mc) = 0 /\ key = 0 /\ charged = spent
    BY EmptySeq DEF Init
  <1>2. spent <= Cap + MaxCost
    <2>1. spent \in 0..(Cap + MaxCost)
      BY CostsAssumption DEF Init
    <2> QED BY <2>1, LimitsAssumption, CostsAssumption
  <1>3. KeyInForce /\ Unseen
    BY <1>1, <1>2 DEF KeyInForce, Unseen
  <1>4. EarlierKeys
    BY <1>1 DEF EarlierKeys
  <1>5. KeyAt
    BY DEF Init, KeyAt
  <1> QED BY <1>3, <1>4, <1>5 DEF KeyInv

\* Without an exact first prompt every step keeps the key's invariant.
LEMMA KeyStep ==
  ASSUME ~FirstPrompt, TypedInv, KeyInv, [Next]_vars
  PROVE  KeyInv'
  <1> USE DEF counters, intent, talk, work, money
  <1>0. /\ pc \in {"settle", "tool", "running"} => key = 0
        /\ pc \in {"waiting", "recover", "poll", "pause"} => key # 0
        /\ arrived => pc = "waiting"
        /\ error # "reused"
    BY DEF KeyInv, KeyAt
  <1>1. CASE AskRefused
    BY <1>0, <1>1, KeyQuiet DEF AskRefused, Finish
  <1>2. CASE Compact
    <2>1. key = 0
      BY <1>2 DEF Compact, KeyInv, KeyInForce
    <2> QED BY <1>2, <2>1, KeyTalk DEF Compact, Goto
  <1>3. CASE TooLarge
    BY <1>0, <1>3, KeyQuiet DEF TooLarge, Finish
  <1>4. CASE Dispatch
    <2>1. /\ pc' = "record" /\ prompt' = hist /\ room' = "composed" /\ spent <= Cap
          /\ UNCHANGED <<key, print, hist, spent, charged, turn, mc, error, arrived>>
          /\ ~arrived
      BY <1>0, <1>4 DEF Dispatch, Goto, MayAsk
    <2>2. KeyInForce' /\ EarlierKeys'
      BY <2>1 DEF KeyInv, KeyInForce, EarlierKeys
    <2>3. Unseen' /\ KeyAt'
      BY <2>1 DEF KeyInv, Unseen, KeyAt
    <2> QED BY <2>2, <2>3 DEF KeyInv
  <1>5. CASE Send
    <2>1. CASE Finish("audit_fatal") /\ UNCHANGED <<key, print, elapsed, mc>>
      BY <1>0, <1>5, <2>1, KeyQuiet DEF Send, Finish
    <2>2. CASE Goto("waiting") /\ Stamp(Payload(prompt))
      BY <1>5, <2>2, KeySent DEF Send, Goto, TypedInv
    <2> QED BY <1>5, <2>1, <2>2 DEF Send
  <1>6. CASE Receive
    BY <1>6, KeyReceived
  <1>7. CASE Refuse
    <2>1. mc[key].payload = Payload(prompt)
      BY <1>0, <1>7 DEF Refuse, KeyInv, KeyInForce, Payload
    <2>2. Fails("conflict") /\ UNCHANGED <<arrived, mc>> /\ ~arrived /\ pc = "waiting"
      BY <1>7, <2>1 DEF Refuse
    <2> QED BY <1>0, <2>2, KeyQuiet DEF Fails, Goto
  <1>8. CASE Replay
    <2>1. CASE Answered
      BY <1>8, <2>1, KeyAnswered DEF Replay
    <2>2. CASE Fails("fatal") /\ UNCHANGED <<arrived, mc>>
      BY <1>0, <1>8, <2>2, KeyQuiet DEF Replay, Fails, Goto
    <2> QED BY <1>8, <2>1, <2>2 DEF Replay
  <1>9. CASE \E k \in DOMAIN mc : Settle(k)
    <2>1. PICK k \in 1..Len(mc) : Settle(k)
      BY <1>9 DEF TypedInv, TypeOK
    <2> QED BY <2>1, KeySettled
  <1>10. CASE \E k \in DOMAIN mc : Release(k)
    <2>1. PICK k \in 1..Len(mc) : Release(k)
      BY <1>10 DEF TypedInv, TypeOK
    <2> QED BY <2>1, KeyReleased
  <1>11. CASE Deliver
    BY <1>11, KeyAnswered DEF Deliver
  <1>12. CASE Cut
    BY <1>0, <1>12, KeyQuiet DEF Cut, Fails, Goto
  <1>13. CASE GiveUp
    BY <1>0, <1>13, KeyQuiet DEF GiveUp, Finish
  <1>14. CASE Redispatch
    BY <1>0, <1>14, KeyQuiet DEF Redispatch, Finish, Goto
  <1>15. CASE PauseEnds
    BY <1>0, <1>15, KeyQuiet DEF PauseEnds, Finish, Goto
  <1>16. CASE WaitForAnswer
    BY <1>0, <1>16, KeyQuiet DEF WaitForAnswer, Finish, Goto
  <1>17. CASE PollEnds
    <2>1. CASE cancelled
      BY <1>0, <1>17, <2>1, KeyQuiet DEF PollEnds, Finish
    <2>2. CASE ~cancelled
      BY <1>17, <2>2, KeySent DEF PollEnds, Goto, TypedInv
    <2> QED BY <2>1, <2>2
  <1>18. CASE OverCap
    BY <1>0, <1>18, KeyTalk DEF OverCap, Finish
  <1>19. CASE Truncated
    BY <1>0, <1>19, KeyTalk DEF Truncated, Finish, Goto
  <1>20. CASE Final
    BY <1>0, <1>20, KeyTalk DEF Final, Finish, Goto
  <1>21. CASE Malformed
    BY <1>0, <1>21, KeyTalk DEF Malformed, Finish, Goto
  <1>22. CASE CallTool
    BY <1>0, <1>22, KeyTalk DEF CallTool, Finish, Goto
  <1>23. CASE Denied
    BY <1>0, <1>23, KeyTalk DEF Denied, Finish, Goto
  <1>24. CASE NotRun
    BY <1>0, <1>24, KeyTalk DEF NotRun, Finish
  <1>25. CASE Admit
    BY <1>0, <1>25, KeyTalk DEF Admit, Goto
  <1>26. CASE ToolSucceeds
    BY <1>0, <1>26, KeyTalk DEF ToolSucceeds, Goto
  <1>27. CASE ToolFails
    BY <1>0, <1>27, KeyTalk DEF ToolFails, Finish, Goto
  <1>28. CASE Cancel
    BY <1>0, <1>28, KeyQuiet DEF Cancel
  <1>29. CASE UNCHANGED vars
    BY <1>0, <1>29, KeyQuiet DEF vars
  <1> QED
    BY <1>1, <1>2, <1>3, <1>4, <1>5, <1>6, <1>7, <1>8, <1>9, <1>10, <1>11, <1>12, <1>13, <1>14,
       <1>15, <1>16, <1>17, <1>18, <1>19, <1>20, <1>21, <1>22, <1>23, <1>24, <1>25, <1>26, <1>27,
       <1>28, <1>29 DEF Next, DriverStep

LEMMA KeyAlways == ASSUME ~FirstPrompt PROVE Spec => [](TypedInv /\ KeyInv)
  <1>1. Init => TypedInv /\ KeyInv
    BY TypedInit, KeyInit
  <1>2. TypedInv /\ KeyInv /\ [Next]_vars => (TypedInv /\ KeyInv)'
    BY TypedStep, KeyStep
  <1> QED BY <1>1, <1>2, PTL DEF Spec

(***************************************************************************)
(* A turn of the agent loop is charged once, for any limits, costs, edge   *)
(* cuts and interleavings, as long as no exact first prompt is configured. *)
(***************************************************************************)
THEOREM OneChargeCorrect == ASSUME ~FirstPrompt PROVE Spec => []OneChargePerTurn
  <1>1. TypedInv /\ KeyInv => OneChargePerTurn
    <2>1. TypedInv => DOMAIN mc = 1..Len(mc)
      BY LenProperties DEF TypedInv, TypeOK
    <2> QED BY <2>1 DEF KeyInv, EarlierKeys, OneChargePerTurn
  <1> QED BY <1>1, KeyAlways, PTL

(***************************************************************************)
(* The account is never charged more than the cap and one answer.          *)
(***************************************************************************)
THEOREM CapCorrect == ASSUME ~FirstPrompt PROVE Spec => []CapOvershoot
  <1>1. TypedInv /\ KeyInv => CapOvershoot
    <2>1. SUFFICES ASSUME TypedInv, KeyInv PROVE charged <= Cap + MaxCost
      BY DEF CapOvershoot
    <2>2. Cap \in Nat /\ MaxCost \in Nat
      BY LimitsAssumption, CostsAssumption
    <2>3. spent \in Nat
      BY <2>1 DEF TypedInv, TypeOK
    <2>4. CASE key # 0 /\ mc[key].state = "settled"
      <3>1. spent <= Cap /\ charged = spent + mc[key].cost /\ mc[key].cost <= MaxCost
        BY <2>1, <2>4 DEF KeyInv, KeyInForce, Unseen
      <3>2. mc[key].cost \in Nat
        <4>1. mc \in Seq(Key) /\ key \in 1..Len(mc)
          BY <2>1, <2>4 DEF TypedInv, TypeOK
        <4>2. mc[key] \in Key
          BY <4>1, ElementOfSeq
        <4> QED BY <4>2 DEF Key
      <3> QED BY <2>2, <2>3, <3>1, <3>2
    <2>5. CASE ~(key # 0 /\ mc[key].state = "settled")
      BY <2>1, <2>2, <2>3, <2>5 DEF KeyInv, Unseen
    <2> QED BY <2>4, <2>5
  <1> QED BY <1>1, KeyAlways, PTL

(***************************************************************************)
(* Whenever the loop acts on an answer, the cost it has recorded is what   *)
(* the account was charged.                                                *)
(***************************************************************************)
THEOREM CostCorrect == ASSUME ~FirstPrompt PROVE Spec => []CostIsExact
  <1>1. KeyInv => CostIsExact
    BY DEF KeyInv, KeyAt, Unseen, CostIsExact
  <1> QED BY <1>1, KeyAlways, PTL

(***************************************************************************)
(* The account and the run agree: the three facts together.                *)
(***************************************************************************)
THEOREM ChargesCorrect == ASSUME ~FirstPrompt PROVE Spec => []ChargesAccounted
  <1>1. OneChargePerTurn /\ CapOvershoot /\ CostIsExact => ChargesAccounted
    BY DEF ChargesAccounted
  <1> QED BY <1>1, OneChargeCorrect, CapCorrect, CostCorrect, PTL

-----------------------------------------------------------------------------
(***************************************************************************)
(* What a completed run did.                                               *)
(***************************************************************************)

\* A call that succeeded ran, and a run is completed only when it did what it must.
WorkInv ==
  /\ toolCalls <= ran
  /\ pc = "running" => toolCalls < ran
  /\ pc # "done" => reason # "completed"
  /\ arrived => pc = "waiting"
  /\ reason = "completed" /\ RequireAction => toolCalls > 0

LEMMA WorkStep ==
  ASSUME TypeOK, WorkInv, [Next]_vars
  PROVE  WorkInv'
  <1> USE DEF counters, intent, talk, work, money
  <1>0. toolCalls \in Nat /\ ran \in Nat
    BY DEF TypeOK
  <1>1. ASSUME UNCHANGED <<toolCalls, ran>>, pc' # "running",
               reason' = reason \/ reason' # "completed",
               pc = "done" => pc' = "done",
               arrived' => arrived /\ pc' = pc
        PROVE  WorkInv'
    BY <1>1 DEF WorkInv
  <1>2. CASE AskRefused \/ Compact \/ TooLarge \/ Dispatch \/ Send
    BY <1>1, <1>2 DEF AskRefused, Compact, TooLarge, Dispatch, Send, Goto, Finish, WorkInv
  <1>3. CASE Receive
    BY <1>3 DEF Receive, WorkInv
  <1>4. CASE Refuse \/ Replay \/ Deliver \/ Cut
    BY <1>1, <1>4 DEF Refuse, Replay, Deliver, Cut, Fails, Answered, Goto, WorkInv
  <1>5. CASE \E k \in DOMAIN mc : Settle(k)
    BY <1>5 DEF Settle, WorkInv
  <1>6. CASE \E k \in DOMAIN mc : Release(k)
    <2>1. PICK k \in DOMAIN mc : Release(k)
      BY <1>6
    <2>2. UNCHANGED <<toolCalls, ran, reason>> /\ (pc' = pc \/ pc' = "recover")
      BY <2>1 DEF Release, Fails, Goto
    <2>3. ~arrived'
      BY <2>1 DEF Release
    <2>4. CASE arrived
      BY <2>2, <2>3, <2>4 DEF WorkInv
    <2>5. CASE ~arrived
      BY <2>1, <2>2, <2>3, <2>5 DEF Release, WorkInv
    <2> QED BY <2>4, <2>5
  <1>7. CASE GiveUp \/ Redispatch \/ PauseEnds \/ WaitForAnswer \/ PollEnds
    BY <1>1, <1>7 DEF GiveUp, Redispatch, PauseEnds, WaitForAnswer, PollEnds, Goto, Finish, WorkInv
  <1>8. CASE OverCap \/ Truncated \/ Malformed \/ CallTool
    BY <1>1, <1>8 DEF OverCap, Truncated, Malformed, CallTool, Goto, Finish, WorkInv
  <1>9. CASE Final
    BY <1>0, <1>9 DEF Final, Goto, Finish, WorkInv
  <1>10. CASE Denied \/ NotRun
    BY <1>1, <1>10 DEF Denied, NotRun, Goto, Finish, WorkInv
  <1>11. CASE Admit
    BY <1>0, <1>11 DEF Admit, Goto, WorkInv
  <1>12. CASE ToolSucceeds
    BY <1>0, <1>12 DEF ToolSucceeds, Goto, WorkInv
  <1>13. CASE ToolFails
    BY <1>1, <1>13 DEF ToolFails, Goto, Finish, WorkInv
  <1>14. CASE Cancel
    BY <1>14 DEF Cancel, WorkInv
  <1>15. CASE UNCHANGED vars
    BY <1>15 DEF vars, WorkInv
  <1> QED
    BY <1>2, <1>3, <1>4, <1>5, <1>6, <1>7, <1>8, <1>9, <1>10, <1>11, <1>12, <1>13, <1>14, <1>15
    DEF Next, DriverStep

(***************************************************************************)
(* A run that must act and is reported as completed ran a tool.            *)
(***************************************************************************)
THEOREM CompletedCorrect == Spec => []CompletedMeansWork
  <1>1. Init => WorkInv
    BY DEF Init, WorkInv
  <1>2. TypeOK /\ WorkInv /\ [Next]_vars => WorkInv'
    BY WorkStep
  <1>3. TypeOK /\ WorkInv => CompletedMeansWork
    BY DEF TypeOK, WorkInv, CompletedMeansWork
  <1> QED BY <1>1, <1>2, <1>3, TypeCorrect, PTL DEF Spec

-----------------------------------------------------------------------------
(***************************************************************************)
(* Questions and interrupts.                                               *)
(***************************************************************************)

\* The attempts counted against max_turns; a poll is booked before it is made.
Asked == attempts - pollsTotal + (IF pc = "poll" THEN 1 ELSE 0)

\* A key is minted by an attempt that was counted.
AskInv ==
  /\ Len(mc) <= MaxTurns
  /\ pc # "done" => Len(mc) <= Asked /\ Asked <= MaxTurns
  /\ pc = "record" /\ key = 0 => Len(mc) < Asked

\* A step that neither asks nor mints.
LEMMA AskQuiet ==
  ASSUME TypeOK, AskInv, pc \notin {"poll", "done"}, pc' \notin {"poll", "record"},
         UNCHANGED <<attempts, pollsTotal>>, Len(mc') = Len(mc)
  PROVE  AskInv'
  BY DEF AskInv, Asked

LEMMA AskStep ==
  ASSUME ~FirstPrompt, TypedInv, KeyInv, AskInv, [Next]_vars
  PROVE  AskInv'
  <1> USE DEF counters, intent, talk, work, money
  <1>0. /\ TypeOK /\ attempts \in Nat /\ pollsTotal \in Nat /\ Len(mc) \in Nat /\ MaxTurns \in Nat
        /\ mc \in Seq(Key)
    BY LimitsAssumption, LenProperties DEF TypedInv, TypeOK
  <1>1. CASE AskRefused \/ Compact \/ TooLarge
    BY <1>0, <1>1, AskQuiet DEF AskRefused, Compact, TooLarge, Goto, Finish
  <1>2. CASE Dispatch
    BY <1>0, <1>2 DEF Dispatch, MayAsk, Goto, AskInv, Asked
  <1>3. CASE Send
    <2>1. CASE Finish("audit_fatal") /\ UNCHANGED <<key, print, elapsed, mc>>
      BY <1>0, <1>3, <2>1, AskQuiet DEF Send, Finish
    <2>2. CASE Goto("waiting") /\ Stamp(Payload(prompt))
      <3>1. CASE key # 0
        <4>1. print = Payload(prompt)
          BY <1>3, <3>1 DEF Send, KeyInv, KeyInForce, KeyAt, Payload
        <4>2. mc' = mc
          BY <2>2, <3>1, <4>1 DEF Stamp
        <4> QED BY <1>0, <1>3, <2>2, <4>2, AskQuiet DEF Send, Goto
      <3>2. CASE key = 0
        <4>1. Len(mc') = Len(mc) + 1
          <5>1. mc' = Append(mc, NewKey)
            BY <2>2, <3>2 DEF Stamp
          <5> QED BY <1>0, <5>1
        <4>2. Len(mc) < attempts - pollsTotal /\ attempts - pollsTotal <= MaxTurns
          BY <1>0, <1>3, <3>2 DEF Send, AskInv, Asked
        <4> QED BY <1>0, <1>3, <2>2, <4>1, <4>2 DEF Send, Goto, AskInv, Asked
      <3> QED BY <3>1, <3>2
    <2> QED BY <1>3, <2>1, <2>2 DEF Send
  <1>4. CASE Receive
    <2>1. Len(mc') = Len(mc)
      BY <1>0, <1>4 DEF Receive
    <2> QED BY <1>0, <1>4, <2>1, AskQuiet DEF Receive
  <1>5. CASE Refuse \/ Replay \/ Deliver \/ Cut
    BY <1>0, <1>5, AskQuiet DEF Refuse, Replay, Deliver, Cut, Fails, Answered, Goto
  <1>6. CASE \E k \in DOMAIN mc : Settle(k)
    <2>1. Len(mc') = Len(mc)
      BY <1>0, <1>6 DEF Settle
    <2> QED BY <1>0, <1>6, <2>1 DEF Settle, AskInv, Asked
  <1>7. CASE \E k \in DOMAIN mc : Release(k)
    <2>1. PICK k \in DOMAIN mc : Release(k)
      BY <1>7
    <2>2. Len(mc') = Len(mc)
      BY <1>0, <2>1 DEF Release
    <2>3. CASE arrived
      <3>1. pc = "waiting"
        BY <2>3 DEF KeyInv, KeyAt
      <3>2. pc' = "recover" /\ UNCHANGED <<attempts, pollsTotal>>
        BY <2>1, <2>3 DEF Release, Fails, Goto
      <3> QED BY <1>0, <2>2, <3>1, <3>2, AskQuiet
    <2>4. CASE ~arrived
      BY <1>0, <2>1, <2>2, <2>4 DEF Release, AskInv, Asked
    <2> QED BY <2>3, <2>4
  <1>8. CASE GiveUp \/ Redispatch \/ PauseEnds
    BY <1>0, <1>8, AskQuiet DEF GiveUp, Redispatch, PauseEnds, Goto, Finish
  <1>9. CASE WaitForAnswer
    BY <1>0, <1>9 DEF WaitForAnswer, Goto, Finish, AskInv, Asked
  <1>10. CASE PollEnds
    <2>1. CASE cancelled
      BY <1>0, <1>10, <2>1 DEF PollEnds, Finish, AskInv, Asked
    <2>2. CASE ~cancelled
      <3>1. print = Payload(prompt) /\ key # 0
        BY <1>10 DEF PollEnds, KeyInv, KeyInForce, KeyAt, Payload
      <3>2. mc' = mc
        BY <1>10, <2>2, <3>1 DEF PollEnds, Stamp
      <3> QED BY <1>0, <1>10, <2>2, <3>2 DEF PollEnds, Goto, AskInv, Asked
    <2> QED BY <2>1, <2>2
  <1>11. CASE OverCap \/ Truncated \/ Final \/ Malformed \/ CallTool
    BY <1>0, <1>11, AskQuiet DEF OverCap, Truncated, Final, Malformed, CallTool, Goto, Finish
  <1>12. CASE Denied \/ NotRun \/ Admit \/ ToolSucceeds \/ ToolFails
    BY <1>0, <1>12, AskQuiet DEF Denied, NotRun, Admit, ToolSucceeds, ToolFails, Goto, Finish
  <1>13. CASE Cancel
    BY <1>0, <1>13 DEF Cancel, AskInv, Asked
  <1>14. CASE UNCHANGED vars
    BY <1>14 DEF vars, AskInv, Asked
  <1> QED
    BY <1>1, <1>2, <1>3, <1>4, <1>5, <1>6, <1>7, <1>8, <1>9, <1>10, <1>11, <1>12, <1>13, <1>14
    DEF Next, DriverStep

(***************************************************************************)
(* The run mints at most max_turns keys: the polls the limit does not      *)
(* count ask nothing new.                                                  *)
(***************************************************************************)
THEOREM QuestionsCorrect == ASSUME ~FirstPrompt PROVE Spec => []QuestionsCapped
  <1>1. Init => AskInv
    <2>1. Init => Len(mc) = 0 /\ attempts = 0 /\ pollsTotal = 0 /\ pc = "ask"
      BY EmptySeq DEF Init
    <2> QED BY <2>1, LimitsAssumption DEF AskInv, Asked
  <1>2. TypedInv /\ KeyInv /\ AskInv /\ [Next]_vars => AskInv'
    BY AskStep
  <1>3. AskInv => QuestionsCapped
    BY DEF AskInv, QuestionsCapped
  <1> QED BY <1>1, <1>2, <1>3, KeyAlways, PTL DEF Spec

(***************************************************************************)
(* After Ctrl-C no tool starts and nothing is sent but the request whose   *)
(* record was being written.                                               *)
(***************************************************************************)
THEOREM InterruptCorrect == Spec => NothingStartsAfterCancel
  <1> USE DEF counters, intent, talk, work, money
  <1>1. ASSUME [Next]_vars, cancelled
        PROVE  ran' = ran /\ (pc' = "waiting" => pc \in {"waiting", "record"})
    <2>1. CASE AskRefused \/ Compact \/ TooLarge \/ Dispatch \/ Send
      BY <2>1 DEF AskRefused, Compact, TooLarge, Dispatch, Send, Goto, Finish
    <2>2. CASE Receive \/ Refuse \/ Replay \/ Deliver \/ Cut
      BY <2>2 DEF Receive, Refuse, Replay, Deliver, Cut, Fails, Answered, Goto
    <2>3. CASE \E k \in DOMAIN mc : Settle(k)
      BY <2>3 DEF Settle
    <2>4. CASE \E k \in DOMAIN mc : Release(k)
      <3>1. PICK k \in DOMAIN mc : Release(k)
        BY <2>4
      <3> QED BY <3>1 DEF Release, Fails, Goto
    <2>5. CASE GiveUp \/ Redispatch \/ PauseEnds \/ WaitForAnswer \/ PollEnds
      BY <1>1, <2>5 DEF GiveUp, Redispatch, PauseEnds, WaitForAnswer, PollEnds, Goto, Finish
    <2>6. CASE OverCap \/ Truncated \/ Final \/ Malformed \/ CallTool
      BY <2>6 DEF OverCap, Truncated, Final, Malformed, CallTool, Goto, Finish
    <2>7. CASE Denied \/ NotRun \/ Admit \/ ToolSucceeds \/ ToolFails
      BY <1>1, <2>7 DEF Denied, NotRun, Admit, ToolSucceeds, ToolFails, Goto, Finish
    <2>8. CASE Cancel
      BY <1>1, <2>8 DEF Cancel
    <2>9. CASE UNCHANGED vars
      BY <2>9 DEF vars
    <2> QED
      BY <1>1, <2>1, <2>2, <2>3, <2>4, <2>5, <2>6, <2>7, <2>8, <2>9 DEF Next, DriverStep
  <1>2. [Next]_vars => [cancelled => /\ ran' = ran
                                     /\ pc' = "waiting" => pc \in {"waiting", "record"}]_vars
    BY <1>1
  <1> QED BY <1>2, PTL DEF Spec, NothingStartsAfterCancel

=============================================================================

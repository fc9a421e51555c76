-------------------------- MODULE SupervisorProofs --------------------------
(***************************************************************************)
(* Proofs about Supervisor, for any number of calls and any limits.        *)
(***************************************************************************)
EXTENDS Supervisor, FiniteSetTheorems, TLAPS

-----------------------------------------------------------------------------
(***************************************************************************)
(* Types.                                                                  *)
(***************************************************************************)

\* A task that sleeps before a restart may still make one.
Sleepers == \A t \in Calls : pc[t] = "backoff" => restarts[t] < MaxRestarts

TypeInv == TypeOK /\ Sleepers

\* A call's own steps, before there is a task, keep the types (Supervisor::spawn).
LEMMA CallTypes ==
  ASSUME TypeInv, NEW t \in Calls, Call(t)
  PROVE  TypeInv'
  <1> USE DEF TypeInv, TypeOK, Sleepers, Tasks, timers, policy, results
  <1>1. CASE Refused(t)
    BY <1>1 DEF Refused
  <1>2. CASE Queue(t)
    BY <1>2 DEF Queue
  <1>3. CASE Spawn(t)
    BY <1>3 DEF Spawn
  <1>4. CASE SpawnFails(t)
    BY <1>4 DEF SpawnFails
  <1>5. QED
    BY <1>1, <1>2, <1>3, <1>4 DEF Call

\* Whatever wakes a watching task keeps the types (next_step).
LEMMA WatchTypes ==
  ASSUME TypeInv, NEW t \in Calls, Watch(t)
  PROVE  TypeInv'
  <1> USE DEF TypeInv, TypeOK, Sleepers, Tasks, timers, policy, results
  <1>1. ASSUME NEW why \in {"cancelled", "wall_clock_timeout", "heartbeat_timeout",
                            "child_wait_failed"},
               Terminate(t, why)
        PROVE  TypeInv'
    BY <1>1 DEF Terminate
  <1>2. CASE Exited(t)
    BY <1>2 DEF Exited
  <1>3. QED
    BY <1>1, <1>2 DEF Watch, Cancelled, DeadlinePassed, WaitFailed, Silent

\* A task that returns leaves every type in place (SuperviseTask::run).
LEMMA ReturnTypes ==
  ASSUME TypeInv, NEW t \in Calls,
         NEW how \in {"refused", "failed", "completed", "escalated"}, Return(t, how),
         proc' \in [Calls -> {"none", "running", "succeeded", "failed", "dying", "gone"}],
         closed' \in [Calls -> BOOLEAN]
  PROVE  TypeInv'
  <1> USE DEF TypeInv, TypeOK, Tasks
  <1>1. now' \in Nat /\ spent' \in BOOLEAN /\ cancelled' \in BOOLEAN
    BY DEF Return
  <1>2. /\ pc' \in [Calls -> {"idle", "queued", "over"} \cup Tasks]
        /\ started' \in [Calls -> Nat]
        /\ liveness' \in [Calls -> Nat]
        /\ deadline' \in [Calls -> Nat]
        /\ window_start' \in [Calls -> Nat]
    BY DEF Return
  <1>3. restarts' \in [Calls -> 0 .. MaxRestarts]
    BY LimitsAssumption DEF Return
  <1>4. restarted_at' \in [Calls -> Seq(Nat)]
    <2>1. << >> \in Seq(Nat)
      OBVIOUS
    <2>2. QED
      BY <2>1, Zenon DEF Return
  <1>5. /\ cause' \in [Calls -> {"none", "cancelled", "wall_clock_timeout",
                                "heartbeat_timeout", "child_wait_failed"}]
        /\ outcome' \in [Calls -> {"none", "refused", "failed", "completed", "escalated"}]
    BY DEF Return
  <1>6. Sleepers'
    BY DEF Return, Sleepers
  <1>7. QED
    BY <1>1, <1>2, <1>3, <1>4, <1>5, <1>6

\* A restart counts one more, which there was room for (handle_failure).
LEMMA TaskTypes ==
  ASSUME TypeInv, NEW t \in Calls, Task(t)
  PROVE  TypeInv'
  <1> USE DEF TypeInv, TypeOK, Sleepers, Tasks, timers, policy, results
  <1>1. CASE Start(t)
    BY <1>1, LimitsAssumption DEF Start
  <1>2. CASE Watch(t)
    BY <1>2, WatchTypes
  <1>3. CASE Terminated(t)
    BY <1>3, ReturnTypes DEF Terminated
  <1>4. CASE TerminationFails(t)
    <2>1. /\ proc' \in [Calls -> {"none", "running", "succeeded", "failed", "dying", "gone"}]
          /\ closed' = closed /\ Return(t, "escalated")
      BY <1>4 DEF TerminationFails
    <2>2. QED
      BY <2>1, ReturnTypes
  <1>5. CASE FinalizationFails(t)
    BY <1>5, ReturnTypes DEF FinalizationFails
  <1>6. CASE Completed(t)
    BY <1>6, ReturnTypes DEF Completed
  <1>7. CASE Failed(t)
    BY <1>7, LimitsAssumption DEF Failed, RenewWindow, MayRestart, Counted
  <1>8. CASE Exhausted(t)
    BY <1>8, ReturnTypes DEF Exhausted
  <1>9. CASE Restart(t)
    <2>1. /\ restarts' \in [Calls -> 0 .. MaxRestarts]
          /\ restarted_at' \in [Calls -> Seq(Nat)]
      <3>1. restarts[t] \in 0 .. MaxRestarts /\ restarts[t] < MaxRestarts
        BY <1>9 DEF Restart
      <3>2. restarts[t] + 1 \in 0 .. MaxRestarts
        BY <3>1, LimitsAssumption
      <3>3. Append(restarted_at[t], now) \in Seq(Nat)
        OBVIOUS
      <3>4. QED
        BY <1>9, <3>2, <3>3 DEF Restart
    <2>2. /\ started' \in [Calls -> Nat]
          /\ liveness' \in [Calls -> Nat]
          /\ deadline' \in [Calls -> Nat]
      <3>1. now + WallClock \in Nat
        BY LimitsAssumption
      <3>2. QED
        BY <1>9, <3>1 DEF Restart
    <2>3. /\ pc' \in [Calls -> {"idle", "queued", "over"} \cup Tasks]
          /\ proc' \in [Calls -> {"none", "running", "succeeded", "failed", "dying", "gone"}]
      BY <1>9 DEF Restart, Tasks
    <2>4. Sleepers'
      BY <1>9 DEF Restart
    <2>5. QED
      BY <1>9, <2>1, <2>2, <2>3, <2>4 DEF Restart
  <1>10. CASE RespawnFails(t)
    <2>1. /\ proc' \in [Calls -> {"none", "running", "succeeded", "failed", "dying", "gone"}]
          /\ closed' = closed /\ Return(t, "escalated")
      BY <1>10 DEF RespawnFails
    <2>2. QED
      BY <2>1, ReturnTypes
  <1>11. QED
    BY <1>1, <1>2, <1>3, <1>4, <1>5, <1>6, <1>7, <1>8, <1>9, <1>10 DEF Task

\* Every step keeps the types.
LEMMA TypeStep == TypeInv /\ [Next]_vars => TypeInv'
  <1> SUFFICES ASSUME TypeInv, [Next]_vars PROVE TypeInv'
    OBVIOUS
  <1> USE DEF TypeInv, TypeOK, Sleepers, Tasks, timers, policy, results
  <1>1. ASSUME NEW t \in Calls, ChildEnds(t) PROVE TypeInv'
    BY <1>1 DEF ChildEnds
  <1>2. ASSUME NEW t \in Calls, Heartbeat(t) PROVE TypeInv'
    BY <1>2 DEF Heartbeat
  <1>3. CASE Cancel
    BY <1>3 DEF Cancel
  <1>4. CASE Spend
    BY <1>4 DEF Spend
  <1>5. CASE Tick
    BY <1>5 DEF Tick
  <1>6. CASE UNCHANGED vars
    BY <1>6 DEF vars
  <1>7. QED
    BY <1>1, <1>2, <1>3, <1>4, <1>5, <1>6, CallTypes, TaskTypes DEF Next

\* The program starts with every type in place.
LEMMA TypeInit == Init => TypeInv
  <1> SUFFICES ASSUME Init PROVE TypeInv
    OBVIOUS
  <1>1. restarts \in [Calls -> 0 .. MaxRestarts]
    BY LimitsAssumption DEF Init
  <1>2. restarted_at \in [Calls -> Seq(Nat)]
    BY DEF Init
  <1>3. /\ now \in Nat /\ spent \in BOOLEAN /\ cancelled \in BOOLEAN
        /\ pc \in [Calls -> {"idle", "queued", "over"} \cup Tasks]
        /\ proc \in [Calls -> {"none", "running", "succeeded", "failed", "dying", "gone"}]
    BY DEF Init
  <1>4. /\ started \in [Calls -> Nat] /\ liveness \in [Calls -> Nat]
        /\ deadline \in [Calls -> Nat] /\ window_start \in [Calls -> Nat]
    BY DEF Init
  <1>5. /\ cause \in [Calls -> {"none", "cancelled", "wall_clock_timeout",
                               "heartbeat_timeout", "child_wait_failed"}]
        /\ closed \in [Calls -> BOOLEAN]
        /\ outcome \in [Calls -> {"none", "refused", "failed", "completed", "escalated"}]
    BY DEF Init
  <1>6. Sleepers
    BY DEF Init, Sleepers
  <1>7. QED
    BY <1>1, <1>2, <1>3, <1>4, <1>5, <1>6 DEF TypeInv, TypeOK

\* The types hold together with the room a sleeping task has left.
LEMMA TypeInvariant == Spec => []TypeInv
  BY TypeInit, TypeStep, PTL DEF Spec

\* Every reachable state is well-typed, and no window's restarts pass max_restarts
\* (SuperviseTask::handle_failure).
THEOREM TypeCorrect == Spec => []TypeOK
  <1>1. TypeInv => TypeOK
    BY DEF TypeInv
  <1>2. QED
    BY <1>1, TypeInvariant, PTL

-----------------------------------------------------------------------------
(***************************************************************************)
(* Permits.                                                                *)
(***************************************************************************)

\* There are no more tasks than permits, and a child nobody has killed has a task.
Permits == Cardinality(Holders) <= MaxChildren

Owned == \A t \in Calls : Live(t) => pc[t] \in Tasks

\* A set of tasks is finite, and so is its size a number.
LEMMA HoldersFinite == IsFiniteSet(Holders) /\ Cardinality(Holders) \in Nat
  <1>1. Holders \subseteq Calls
    BY DEF Holders
  <1>2. QED
    BY <1>1, CallsAssumption, FS_Subset, FS_CardinalityType

\* A step that starts no task leaves no more of them.
LEMMA FewerHolders ==
  ASSUME Permits, \A s \in Calls : pc'[s] \in Tasks => pc[s] \in Tasks
  PROVE  Permits'
  <1>1. Holders' \subseteq Holders
    BY DEF Holders
  <1>2. IsFiniteSet(Holders') /\ Cardinality(Holders') <= Cardinality(Holders)
    BY <1>1, HoldersFinite, FS_Subset
  <1>3. Cardinality(Holders') \in Nat
    BY <1>2, FS_CardinalityType
  <1>4. QED
    BY <1>2, <1>3, HoldersFinite, LimitsAssumption DEF Permits

\* A spawn takes one permit of those that were left (Supervisor::spawn).
LEMMA OneMoreHolder ==
  ASSUME TypeInv, NEW t \in Calls, Spawn(t)
  PROVE  Permits'
  <1>1. Holders' = Holders \cup {t}
    BY DEF Holders, Spawn, TypeInv, TypeOK, Tasks
  <1>2. Cardinality(Holders \cup {t}) <= Cardinality(Holders) + 1
    <2>1. Cardinality(Holders \cup {t})
            = IF t \in Holders THEN Cardinality(Holders) ELSE Cardinality(Holders) + 1
      BY HoldersFinite, FS_AddElement
    <2>2. QED
      BY <2>1, HoldersFinite
  <1>3. Cardinality(Holders) < MaxChildren
    BY DEF Spawn, HasPermit
  <1>4. Cardinality(Holders \cup {t}) \in Nat
    BY HoldersFinite, FS_AddElement, FS_CardinalityType
  <1>5. QED
    BY <1>1, <1>2, <1>3, <1>4, HoldersFinite, LimitsAssumption DEF Permits

\* A task that returns gives its permit back, and its child has been killed.
LEMMA ReturnPermits ==
  ASSUME TypeInv, Permits, Owned, NEW t \in Calls, NEW how, Return(t, how),
         NEW left \in {"gone", "dying"}, proc' = [proc EXCEPT ![t] = left]
  PROVE  Permits' /\ Owned'
  <1> USE DEF TypeInv, TypeOK
  <1>1. pc' = [pc EXCEPT ![t] = "over"]
    BY DEF Return
  <1>2. \A s \in Calls : pc'[s] \in Tasks => pc[s] \in Tasks
    BY <1>1 DEF Tasks
  <1>3. Owned'
    BY <1>1 DEF Owned, Live, Tasks
  <1>4. QED
    BY <1>2, <1>3, FewerHolders

\* Every step keeps permits and owners.
LEMMA PermitStep == TypeInv /\ Permits /\ Owned /\ [Next]_vars => Permits' /\ Owned'
  <1> SUFFICES ASSUME TypeInv, Permits, Owned, [Next]_vars PROVE Permits' /\ Owned'
    OBVIOUS
  <1> DEFINE NoMore == \A s \in Calls : pc'[s] \in Tasks => pc[s] \in Tasks
  <1>1. ASSUME NEW t \in Calls, Call(t) PROVE Permits' /\ Owned'
    <2>1. CASE Spawn(t)
      <3>1. Owned'
        BY <2>1 DEF Spawn, Owned, Live, Tasks, TypeInv, TypeOK
      <3>2. QED
        BY <2>1, <3>1, OneMoreHolder
    <2>2. CASE Refused(t) \/ Queue(t) \/ SpawnFails(t)
      <3>1. NoMore /\ Owned'
        BY <2>2 DEF Refused, Queue, SpawnFails, Owned, Live, Tasks, TypeInv, TypeOK
      <3>2. QED
        BY <3>1, FewerHolders
    <2>3. QED
      BY <1>1, <2>1, <2>2 DEF Call
  <1>2. ASSUME NEW t \in Calls, Start(t) \/ Watch(t) \/ Failed(t) \/ Restart(t)
        PROVE  Permits' /\ Owned'
    <2>1. pc[t] \in Tasks /\ \E p \in Tasks : pc' = [pc EXCEPT ![t] = p]
      BY <1>2 DEF Start, Watch, Failed, Restart, Cancelled, DeadlinePassed, WaitFailed, Silent,
                  Exited, Watching, Terminate, Tasks
    <2>2. \A s \in Calls : s # t => proc'[s] = proc[s]
      BY <1>2 DEF Start, Watch, Failed, Restart, Cancelled, DeadlinePassed, WaitFailed, Silent,
                  Exited, Terminate, TypeInv, TypeOK
    <2>3. NoMore /\ Owned'
      BY <2>1, <2>2 DEF Owned, Live, TypeInv, TypeOK
    <2>4. QED
      BY <2>3, FewerHolders
  <1>3. ASSUME NEW t \in Calls,
               \/ Terminated(t) \/ TerminationFails(t) \/ FinalizationFails(t)
               \/ Completed(t) \/ Exhausted(t) \/ RespawnFails(t)
        PROVE  Permits' /\ Owned'
    <2>1. \E how \in {"completed", "escalated"} : Return(t, how)
      BY <1>3 DEF Terminated, TerminationFails, FinalizationFails, Completed, Exhausted, RespawnFails
    <2>2. \E left \in {"gone", "dying"} : proc' = [proc EXCEPT ![t] = left]
      BY <1>3 DEF Terminated, TerminationFails, FinalizationFails, Completed, Exhausted, RespawnFails
    <2>3. QED
      BY <2>1, <2>2, ReturnPermits
  <1>4. ASSUME NEW t \in Calls, ChildEnds(t) PROVE Permits' /\ Owned'
    <2>1. NoMore /\ Owned'
      BY <1>4 DEF ChildEnds, Owned, Live, TypeInv, TypeOK
    <2>2. QED
      BY <2>1, FewerHolders
  <1>5. CASE UNCHANGED <<pc, proc>>
    <2>1. NoMore /\ Owned'
      BY <1>5 DEF Owned, Live
    <2>2. QED
      BY <2>1, FewerHolders
  <1>6. QED
    BY <1>1, <1>2, <1>3, <1>4, <1>5 DEF Next, Task, Heartbeat, Cancel, Spend, Tick, vars

\* No more children are live than max_concurrent_children, for any number of calls: every
\* live child has a task, and every task a permit.
THEOREM PermitsCorrect == Spec => []LiveWithinPermits
  <1>1. Init => Permits /\ Owned
    <2> SUFFICES ASSUME Init PROVE Permits /\ Owned
      OBVIOUS
    <2>1. Holders = {}
      BY DEF Init, Holders, Tasks
    <2>2. QED
      BY <2>1, FS_EmptySet, LimitsAssumption DEF Init, Permits, Owned, Live
  <1>2. Permits /\ Owned => LiveWithinPermits
    <2> SUFFICES ASSUME Permits, Owned PROVE LiveWithinPermits
      OBVIOUS
    <2> DEFINE Alive == {t \in Calls : Live(t)}
    <2>1. Alive \subseteq Holders
      BY DEF Owned, Holders
    <2>2. IsFiniteSet(Alive) /\ Cardinality(Alive) <= Cardinality(Holders)
      BY <2>1, HoldersFinite, FS_Subset
    <2>3. Cardinality(Alive) \in Nat
      BY <2>2, FS_CardinalityType
    <2>4. QED
      BY <2>2, <2>3, HoldersFinite, LimitsAssumption DEF Permits, LiveWithinPermits
  <1>3. QED
    BY <1>1, <1>2, TypeInvariant, PermitStep, PTL DEF Spec

-----------------------------------------------------------------------------
(***************************************************************************)
(* Reports.                                                                *)
(***************************************************************************)

\* What has been reported is over, and its group gone for good.
Reported ==
  \A t \in Calls : closed[t] \/ outcome[t] = "completed" => pc[t] = "over" /\ proc[t] = "gone"

\* A success, and a `terminate` event, are only reported of a group that has gone
\* (SuperviseTask::run, terminate_group).
THEOREM ReportsCorrect == Spec => []ReportsAreTrue
  <1>1. Init => Reported
    BY DEF Init, Reported
  <1>2. TypeInv /\ Reported /\ [Next]_vars => Reported'
    <2> SUFFICES ASSUME TypeInv, Reported, [Next]_vars PROVE Reported'
      OBVIOUS
    <2> USE DEF TypeInv, TypeOK, Reported, timers, policy, results
    <2>1. ASSUME NEW t \in Calls, Call(t) PROVE Reported'
      BY <2>1 DEF Call, Refused, Queue, Spawn, SpawnFails
    <2>2. ASSUME NEW t \in Calls, Start(t) \/ Watch(t) \/ Failed(t) \/ Restart(t)
          PROVE  Reported'
      <3>1. /\ pc[t] # "over"
            /\ UNCHANGED <<closed, outcome>>
            /\ \A s \in Calls : s # t => pc'[s] = pc[s] /\ proc'[s] = proc[s]
        BY <2>2 DEF Start, Watch, Failed, Restart, Cancelled, DeadlinePassed, WaitFailed, Silent,
                    Exited, Watching, Terminate
      <3>2. QED
        BY <3>1
    <2>3. ASSUME NEW t \in Calls, Terminated(t) \/ Completed(t) PROVE Reported'
      <3>1. /\ pc'[t] = "over" /\ proc'[t] = "gone"
            /\ \A s \in Calls : s # t => /\ pc'[s] = pc[s] /\ proc'[s] = proc[s]
                                         /\ closed'[s] = closed[s] /\ outcome'[s] = outcome[s]
        BY <2>3 DEF Terminated, Completed, Return
      <3>2. QED
        BY <3>1
    <2>4. ASSUME NEW t \in Calls,
                 \/ TerminationFails(t) \/ FinalizationFails(t)
                 \/ Exhausted(t) \/ RespawnFails(t)
          PROVE  Reported'
      <3>1. /\ pc[t] # "over"
            /\ closed' = closed /\ outcome' = [outcome EXCEPT ![t] = "escalated"]
            /\ \A s \in Calls : s # t => pc'[s] = pc[s] /\ proc'[s] = proc[s]
        BY <2>4 DEF TerminationFails, FinalizationFails, Exhausted, RespawnFails, Return
      <3>2. QED
        BY <3>1
    <2>5. ASSUME NEW t \in Calls, ChildEnds(t) PROVE Reported'
      BY <2>5 DEF ChildEnds
    <2>6. CASE UNCHANGED <<pc, proc, closed, outcome>>
      BY <2>6
    <2>7. QED
      BY <2>1, <2>2, <2>3, <2>4, <2>5, <2>6 DEF Next, Task, Heartbeat, Cancel, Spend, Tick, vars
  <1>3. Reported => ReportsAreTrue
    BY DEF Reported, ReportsAreTrue
  <1>4. QED
    BY <1>1, <1>2, <1>3, TypeInvariant, PTL DEF Spec

-----------------------------------------------------------------------------
(***************************************************************************)
(* Clocks.                                                                 *)
(***************************************************************************)

\* A task's clocks belong to the process it has now, and so does what it is ended for.
Timely(t) ==
  /\ pc[t] \in Tasks => started[t] <= liveness[t] /\ liveness[t] <= now
  /\ pc[t] \in Tasks \ {"starting"} => started[t] + WallClock <= deadline[t]
  /\ pc[t] = "ending" /\ cause[t] = "heartbeat_timeout" => now > started[t] + HeartbeatTimeout
  /\ pc[t] = "ending" /\ cause[t] = "wall_clock_timeout" => now >= started[t] + WallClock

\* The clocks are numbers.
LEMMA ClockTypes ==
  ASSUME TypeInv, NEW t \in Calls
  PROVE  /\ now \in Nat /\ started[t] \in Nat /\ liveness[t] \in Nat /\ deadline[t] \in Nat
         /\ pc[t] \in {"idle", "queued", "over"} \cup Tasks
  BY DEF TypeInv, TypeOK

\* A child whose clocks are not touched stays timely while time passes, wherever its task
\* goes on to but a termination.
LEMMA QuietClocks ==
  ASSUME TypeInv, NEW t \in Calls, Timely(t), now' \in Nat, now <= now',
         started'[t] = started[t], liveness'[t] = liveness[t], deadline'[t] = deadline[t],
         pc'[t] \in Tasks => pc[t] \in Tasks,
         pc'[t] \in Tasks \ {"starting"} => pc[t] \in Tasks \ {"starting"},
         pc'[t] = "ending" => pc[t] = "ending" /\ cause'[t] = cause[t]
  PROVE  Timely(t)'
  BY ClockTypes, LimitsAssumption DEF Timely

\* A termination's cause has come true for the process that is running.
LEMMA TerminateClocks ==
  ASSUME TypeInv, NEW t \in Calls, Timely(t), pc[t] = "watch", NEW why, Terminate(t, why),
         why = "wall_clock_timeout" => now >= deadline[t],
         why = "heartbeat_timeout" => now - liveness[t] > HeartbeatTimeout
  PROVE  Timely(t)'
  <1>1. /\ pc'[t] = "ending" /\ cause'[t] = why /\ now' = now
        /\ started' = started /\ liveness' = liveness /\ deadline' = deadline
    BY DEF Terminate, TypeInv, TypeOK, timers
  <1>2. started[t] <= liveness[t] /\ liveness[t] <= now /\ started[t] + WallClock <= deadline[t]
    BY DEF Timely, Tasks
  <1>3. QED
    BY <1>1, <1>2, ClockTypes, LimitsAssumption DEF Timely

\* A task's own step keeps it timely.
LEMMA TaskClocks ==
  ASSUME TypeInv, NEW t \in Calls, Timely(t), Task(t)
  PROVE  Timely(t)'
  <1>1. CASE Start(t)
    <2>1. /\ pc'[t] = "watch" /\ deadline'[t] = now + WallClock /\ now' = now
          /\ started' = started /\ liveness' = liveness /\ pc[t] \in Tasks
      BY <1>1 DEF Start, TypeInv, TypeOK, Tasks
    <2>2. started[t] <= liveness[t] /\ liveness[t] <= now
      BY <2>1 DEF Timely
    <2>3. QED
      BY <2>1, <2>2, ClockTypes, LimitsAssumption DEF Timely, Tasks
  <1>2. CASE Exited(t) \/ Failed(t)
    <2>1. /\ pc[t] \in {"watch", "closing"} /\ pc'[t] \in {"closing", "backoff"} /\ now' = now
          /\ started' = started /\ liveness' = liveness /\ deadline' = deadline
      BY <1>2 DEF Exited, Failed, Watching, TypeInv, TypeOK, timers
    <2>2. QED
      BY <2>1, QuietClocks, ClockTypes DEF Tasks
  <1>3. CASE Restart(t)
    <2>1. /\ pc'[t] = "watch" /\ started'[t] = now /\ liveness'[t] = now
          /\ deadline'[t] = now + WallClock /\ now' = now
      BY <1>3 DEF Restart, TypeInv, TypeOK
    <2>2. QED
      BY <2>1, ClockTypes, LimitsAssumption DEF Timely, Tasks
  <1>4. CASE Cancelled(t) \/ DeadlinePassed(t) \/ WaitFailed(t) \/ Silent(t)
    BY <1>4, TerminateClocks DEF Cancelled, DeadlinePassed, WaitFailed, Silent, Watching
  <1>5. ASSUME NEW how, Return(t, how) PROVE Timely(t)'
    BY <1>5 DEF Return, Timely, Tasks, TypeInv, TypeOK
  <1>6. QED
    BY <1>1, <1>2, <1>3, <1>4, <1>5
       DEF Task, Watch, Terminated, TerminationFails, FinalizationFails, Completed, Exhausted,
           RespawnFails

\* A step of one call or task leaves the others' clocks alone.
LEMMA OthersClocks ==
  ASSUME TypeInv, NEW s \in Calls, NEW t \in Calls, s # t,
         Call(t) \/ Task(t) \/ ChildEnds(t) \/ Heartbeat(t)
  PROVE  /\ now' = now /\ pc'[s] = pc[s] /\ cause'[s] = cause[s]
         /\ started'[s] = started[s] /\ liveness'[s] = liveness[s] /\ deadline'[s] = deadline[s]
  <1> USE DEF TypeInv, TypeOK, timers, results
  <1>1. CASE Call(t)
    BY <1>1 DEF Call, Refused, Queue, Spawn, SpawnFails
  <1>2. CASE Start(t) \/ Watch(t) \/ Failed(t) \/ Restart(t)
    BY <1>2 DEF Start, Watch, Cancelled, DeadlinePassed, WaitFailed, Silent, Exited, Terminate,
                Failed, Restart
  <1>3. ASSUME NEW how, Return(t, how)
        PROVE  /\ now' = now /\ pc'[s] = pc[s] /\ cause'[s] = cause[s]
               /\ started'[s] = started[s] /\ liveness'[s] = liveness[s]
               /\ deadline'[s] = deadline[s]
    BY <1>3 DEF Return
  <1>4. CASE ChildEnds(t) \/ Heartbeat(t)
    BY <1>4 DEF ChildEnds, Heartbeat
  <1>5. QED
    BY <1>1, <1>2, <1>3, <1>4
       DEF Task, Terminated, TerminationFails, FinalizationFails, Completed, Exhausted, RespawnFails

\* A child that is terminated for silence or for its wall clock has had that time
\* itself, whatever was restarted before it (next_step, respawn, handle_failure).
THEOREM TimeoutsCorrect == Spec => []TimeoutsAreEarned
  <1> DEFINE ClockInv == \A t \in Calls : Timely(t)
  <1>1. Init => ClockInv
    BY DEF Init, Timely, Tasks
  <1>2. TypeInv /\ ClockInv /\ [Next]_vars => ClockInv'
    <2> SUFFICES ASSUME TypeInv, ClockInv, [Next]_vars, NEW s \in Calls PROVE Timely(s)'
      OBVIOUS
    <2>1. Timely(s)
      OBVIOUS
    <2>2. ASSUME NEW t \in Calls, t # s, Call(t) \/ Task(t) \/ ChildEnds(t) \/ Heartbeat(t)
          PROVE  Timely(s)'
      BY <2>1, <2>2, OthersClocks, QuietClocks, ClockTypes
    <2>3. CASE Call(s)
      <3>1. CASE Spawn(s)
        <4>1. /\ pc'[s] = "starting" /\ started'[s] = now /\ liveness'[s] = now /\ now' = now
          BY <3>1 DEF Spawn, TypeInv, TypeOK
        <4>2. QED
          BY <4>1, ClockTypes DEF Timely
      <3>2. CASE Refused(s) \/ Queue(s) \/ SpawnFails(s)
        <4>1. pc'[s] \in {"over", "queued"}
          BY <3>2 DEF Refused, Queue, SpawnFails, TypeInv, TypeOK
        <4>2. QED
          BY <4>1 DEF Timely, Tasks
      <3>3. QED
        BY <2>3, <3>1, <3>2 DEF Call
    <2>4. CASE Heartbeat(s)
      <3>1. /\ liveness'[s] = now /\ now' = now /\ pc' = pc /\ started' = started
            /\ deadline' = deadline /\ cause' = cause
        BY <2>4 DEF Heartbeat, TypeInv, TypeOK, results
      <3>2. QED
        BY <2>1, <3>1, ClockTypes DEF Timely
    <2>5. CASE Tick
      <3>1. now' = now + 1 /\ UNCHANGED <<pc, started, liveness, deadline, cause>>
        BY <2>5 DEF Tick, timers, results
      <3>2. QED
        BY <2>1, <3>1, ClockTypes, QuietClocks
    <2>6. CASE UNCHANGED <<now, pc, timers, cause>>
      BY <2>1, <2>6 DEF Timely, timers
    <2>7. QED
      BY <2>1, <2>2, <2>3, <2>4, <2>5, <2>6, TaskClocks DEF Next, ChildEnds, Cancel, Spend, vars, results
  <1>3. ClockInv => TimeoutsAreEarned
    BY DEF Timely, TimeoutsAreEarned
  <1>4. QED
    BY <1>1, <1>2, <1>3, TypeInvariant, PTL DEF Spec

-----------------------------------------------------------------------------
(***************************************************************************)
(* The rate of restarts.                                                   *)
(***************************************************************************)

\* Where a child's restarts lie at a time: the ones that the window does not count before
\* it, and all but the last MaxRestarts of those more than a window before it.
Placed(at, counted, start, clock) ==
  /\ start <= clock
  /\ counted <= Len(at)
  /\ \A i \in 1 .. Len(at) : at[i] <= clock
  /\ \A i \in 1 .. Len(at) : i + counted <= Len(at) => at[i] <= start
  /\ \A i \in 1 .. Len(at) : i + counted + MaxRestarts <= Len(at) => at[i] + Window < start

\* One child's part of RestartRate.
Spaced(at) ==
  \A i, j \in DOMAIN at : j = i + 2 * MaxRestarts => at[j] > at[i] + Window

Lies(t) ==
  /\ pc[t] \notin Tasks \ {"starting"} => restarted_at[t] = << >> /\ restarts[t] = 0
  /\ Placed(restarted_at[t], restarts[t], window_start[t], now)

Slow(t) == Spaced(restarted_at[t])

RateInv == \A t \in Calls : Lies(t) /\ Slow(t)

\* What a child's restarts are made of.
LEMMA RateTypes ==
  ASSUME TypeInv, NEW t \in Calls
  PROVE  /\ now \in Nat /\ window_start[t] \in Nat /\ restarts[t] \in Nat
         /\ restarts[t] <= MaxRestarts /\ restarted_at[t] \in Seq(Nat)
         /\ pc[t] = "backoff" => restarts[t] < MaxRestarts
  BY LimitsAssumption DEF TypeInv, TypeOK, Sleepers

\* Time that passes moves no restart.
LEMMA PlacedLater ==
  ASSUME NEW at \in Seq(Nat), NEW counted \in Nat, NEW start \in Nat, NEW clock \in Nat,
         NEW later \in Nat, clock <= later, Placed(at, counted, start, clock)
  PROVE  Placed(at, counted, start, later)
  <1>1. Len(at) \in Nat /\ \A i \in 1 .. Len(at) : at[i] \in Nat
    OBVIOUS
  <1>2. QED
    BY <1>1 DEF Placed

\* A window that starts when the last one is over: what it forgets lies before it, and
\* all but the last MaxRestarts of that more than a window before it.
LEMMA PlacedRenewed ==
  ASSUME NEW at \in Seq(Nat), NEW counted \in Nat, NEW start \in Nat, NEW clock \in Nat,
         counted <= MaxRestarts, Placed(at, counted, start, clock), start + Window < clock
  PROVE  Placed(at, 0, clock, clock)
  <1>1. Len(at) \in Nat /\ \A i \in 1 .. Len(at) : at[i] \in Nat
    OBVIOUS
  <1>2. \A i \in 1 .. Len(at) : i + 0 + MaxRestarts <= Len(at) => at[i] + Window < clock
    <2> SUFFICES ASSUME NEW i \in 1 .. Len(at), i + 0 + MaxRestarts <= Len(at)
                 PROVE  at[i] + Window < clock
      OBVIOUS
    <2>1. i + counted <= Len(at)
      BY <1>1, LimitsAssumption
    <2>2. at[i] <= start
      BY <2>1 DEF Placed
    <2>3. at[i] \in Nat
      BY <1>1
    <2>4. QED
      BY <2>2, <2>3, LimitsAssumption
  <1>3. \A i \in 1 .. Len(at) : at[i] <= clock
    BY DEF Placed
  <1>4. QED
    BY <1>1, <1>2, <1>3 DEF Placed

\* A restart comes more than a window after the one 2 * MaxRestarts before it: fewer than
\* MaxRestarts lie in this window and at most MaxRestarts in the one before.
LEMMA PlacedAppend ==
  ASSUME NEW at \in Seq(Nat), NEW counted \in Nat, NEW start \in Nat, NEW clock \in Nat,
         counted < MaxRestarts, Placed(at, counted, start, clock), Spaced(at)
  PROVE  Placed(Append(at, clock), counted + 1, start, clock) /\ Spaced(Append(at, clock))
  <1> DEFINE n == Len(at)
             a == Append(at, clock)
  <1>1. n \in Nat /\ \A i \in 1 .. n : at[i] \in Nat
    OBVIOUS
  <1>2. /\ Len(a) = n + 1
        /\ \A i \in 1 .. n : a[i] = at[i]
        /\ a[n + 1] = clock
        /\ DOMAIN a = 1 .. n + 1 /\ DOMAIN at = 1 .. n
    OBVIOUS
  <1>3. /\ start <= clock /\ counted <= n
        /\ \A i \in 1 .. n : at[i] <= clock
        /\ \A i \in 1 .. n : i + counted <= n => at[i] <= start
        /\ \A i \in 1 .. n : i + counted + MaxRestarts <= n => at[i] + Window < start
    BY DEF Placed
  <1>4. \A i, j \in 1 .. n : j = i + 2 * MaxRestarts => at[j] > at[i] + Window
    BY <1>2 DEF Spaced
  <1> HIDE DEF n, a
  <1>5. \A i \in 1 .. n + 1 : i \in 1 .. n \/ i = n + 1
    BY <1>1
  <1>6. /\ \A i \in 1 .. n + 1 : a[i] <= clock
        /\ \A i \in 1 .. n + 1 : i + (counted + 1) <= n + 1 => a[i] <= start
        /\ \A i \in 1 .. n + 1 :
             i + (counted + 1) + MaxRestarts <= n + 1 => a[i] + Window < start
    <2> SUFFICES ASSUME NEW i \in 1 .. n + 1
                 PROVE  /\ a[i] <= clock
                        /\ i + (counted + 1) <= n + 1 => a[i] <= start
                        /\ i + (counted + 1) + MaxRestarts <= n + 1 => a[i] + Window < start
      OBVIOUS
    <2>1. CASE i \in 1 .. n
      BY <1>1, <1>2, <1>3, <2>1, LimitsAssumption
    <2>2. CASE i = n + 1
      BY <1>1, <1>2, <2>2, LimitsAssumption
    <2>3. QED
      BY <1>5, <2>1, <2>2
  <1>7. \A i, j \in 1 .. n + 1 : j = i + 2 * MaxRestarts => a[j] > a[i] + Window
    <2> SUFFICES ASSUME NEW i \in 1 .. n + 1, NEW j \in 1 .. n + 1, j = i + 2 * MaxRestarts
                 PROVE  a[j] > a[i] + Window
      OBVIOUS
    <2>1. CASE j \in 1 .. n
      <3>1. i \in 1 .. n
        BY <1>1, <2>1, LimitsAssumption
      <3>2. QED
        BY <1>2, <1>4, <2>1, <3>1
    <2>2. CASE j = n + 1
      <3>1. i \in 1 .. n /\ i + counted + MaxRestarts <= n
        BY <1>1, <2>2, LimitsAssumption
      <3>2. at[i] + Window < start /\ a[i] = at[i] /\ a[j] = clock /\ at[i] \in Nat
        BY <1>1, <1>2, <1>3, <2>2, <3>1
      <3>3. QED
        BY <1>3, <3>2, LimitsAssumption
    <2>3. QED
      BY <1>5, <2>1, <2>2
  <1>8. QED
    BY <1>1, <1>2, <1>3, <1>6, <1>7 DEF Placed, Spaced, a

\* A child whose restarts and window are not touched stays as it is while time passes.
LEMMA QuietRate ==
  ASSUME TypeInv, NEW t \in Calls, Lies(t), Slow(t),
         now' \in Nat, now <= now',
         pc'[t] \notin Tasks \ {"starting"} => pc[t] \notin Tasks \ {"starting"},
         restarts'[t] = restarts[t], restarted_at'[t] = restarted_at[t],
         window_start'[t] = window_start[t]
  PROVE  Lies(t)' /\ Slow(t)'
  <1>1. Placed(restarted_at[t], restarts[t], window_start[t], now')
    BY RateTypes, PlacedLater DEF Lies
  <1>2. QED
    BY <1>1 DEF Lies, Slow

\* A child without restarts and with a window that has started.
LEMMA EmptyRate ==
  ASSUME NEW t \in Calls, restarted_at'[t] = << >>, restarts'[t] = 0,
         window_start'[t] <= now'
  PROVE  Lies(t)' /\ Slow(t)'
  BY DEF Lies, Slow, Placed, Spaced

\* A failure outside the window starts another (handle_failure).
LEMMA FailedRate ==
  ASSUME TypeInv, NEW t \in Calls, Lies(t), Slow(t), Failed(t)
  PROVE  Lies(t)' /\ Slow(t)'
  <1>1. /\ restarted_at' = restarted_at /\ now' = now /\ pc'[t] = "backoff"
        /\ pc[t] = "closing"
        /\ restarts'[t] = IF Expired(t) THEN 0 ELSE restarts[t]
        /\ window_start'[t] = IF Expired(t) THEN now ELSE window_start[t]
    BY DEF Failed, RenewWindow, Counted, TypeInv, TypeOK
  <1>2. CASE ~Expired(t)
    BY <1>1, <1>2, QuietRate, RateTypes DEF Tasks
  <1>3. CASE Expired(t)
    <2>1. window_start[t] + Window < now
      BY <1>3, RateTypes, LimitsAssumption DEF Expired
    <2>2. Placed(restarted_at[t], 0, now, now)
      BY <2>1, RateTypes, PlacedRenewed DEF Lies
    <2>3. QED
      BY <1>1, <1>3, <2>2 DEF Lies, Slow, Tasks
  <1>4. QED
    BY <1>2, <1>3

\* A restart leaves the child's restarts where they may lie (handle_failure).
LEMMA RestartRateStep ==
  ASSUME TypeInv, NEW t \in Calls, Lies(t), Slow(t), Restart(t)
  PROVE  Lies(t)' /\ Slow(t)'
  <1>1. /\ restarted_at'[t] = Append(restarted_at[t], now) /\ restarts'[t] = restarts[t] + 1
        /\ window_start' = window_start /\ now' = now /\ pc'[t] = "watch" /\ pc[t] = "backoff"
    BY DEF Restart, TypeInv, TypeOK
  <1>2. /\ Placed(Append(restarted_at[t], now), restarts[t] + 1, window_start[t], now)
        /\ Spaced(Append(restarted_at[t], now))
    BY <1>1, RateTypes, PlacedAppend DEF Lies, Slow
  <1>3. QED
    BY <1>1, <1>2 DEF Lies, Slow, Tasks

\* Every step keeps every child's restarts apart.
LEMMA RateStep == TypeInv /\ RateInv /\ [Next]_vars => RateInv'
  <1> SUFFICES ASSUME TypeInv, RateInv, [Next]_vars, NEW s \in Calls
               PROVE  Lies(s)' /\ Slow(s)'
    BY DEF RateInv
  <1>0. Lies(s) /\ Slow(s)
    BY DEF RateInv
  <1> USE DEF TypeInv, TypeOK
  <1> DEFINE Quiet ==
        /\ pc'[s] \notin Tasks \ {"starting"} => pc[s] \notin Tasks \ {"starting"}
        /\ restarts'[s] = restarts[s] /\ restarted_at'[s] = restarted_at[s]
        /\ window_start'[s] = window_start[s]
  <1>1. ASSUME Quiet, now' = now PROVE Lies(s)' /\ Slow(s)'
    BY <1>0, <1>1, QuietRate
  <1>2. CASE Tick
    BY <1>0, <1>2, QuietRate DEF Tick, policy
  <1>3. CASE UNCHANGED <<now, pc, policy>>
    BY <1>1, <1>3 DEF policy
  <1>4. ASSUME NEW t \in Calls, Call(t) PROVE Lies(s)' /\ Slow(s)'
    <2>1. Quiet /\ now' = now
      BY <1>4 DEF Call, Refused, Queue, Spawn, SpawnFails, policy, Tasks
    <2>2. QED
      BY <1>1, <2>1
  <1>5. ASSUME NEW t \in Calls, Watch(t) PROVE Lies(s)' /\ Slow(s)'
    <2>1. Quiet /\ now' = now
      BY <1>5 DEF Watch, Cancelled, DeadlinePassed, WaitFailed, Silent, Exited, Watching, Terminate,
                  policy, Tasks
    <2>2. QED
      BY <1>1, <2>1
  <1>6. ASSUME NEW t \in Calls, Start(t) \/ Failed(t) \/ Restart(t), s # t
        PROVE  Lies(s)' /\ Slow(s)'
    <2>1. Quiet /\ now' = now
      BY <1>6 DEF Start, Failed, RenewWindow, Restart
    <2>2. QED
      BY <1>1, <2>1
  <1>7. ASSUME Start(s) PROVE Lies(s)' /\ Slow(s)'
    <2>1. restarted_at[s] = << >> /\ restarts[s] = 0
      BY <1>0, <1>7 DEF Start, Lies
    <2>2. QED
      BY <1>7, <2>1, EmptyRate DEF Start
  <1>8. ASSUME NEW t \in Calls, NEW how, Return(t, how) PROVE Lies(s)' /\ Slow(s)'
    <2>1. CASE s = t
      BY <1>8, <2>1, EmptyRate DEF Return
    <2>2. CASE s # t
      <3>1. Quiet /\ now' = now
        BY <1>8, <2>2 DEF Return
      <3>2. QED
        BY <1>1, <3>1
    <2>3. QED
      BY <2>1, <2>2
  <1>9. ASSUME NEW t \in Calls, Task(t) PROVE Lies(s)' /\ Slow(s)'
    BY <1>0, <1>5, <1>6, <1>7, <1>8, <1>9, FailedRate, RestartRateStep
       DEF Task, Terminated, TerminationFails, FinalizationFails, Completed, Exhausted, RespawnFails
  <1>10. QED
    BY <1>2, <1>3, <1>4, <1>9 DEF Next, ChildEnds, Heartbeat, Cancel, Spend, vars

\* No length of one window sees more than 2 * max_restarts restarts of a child, for any
\* limits and however long its task runs (SuperviseTask::handle_failure).
THEOREM RateCorrect == Spec => []RestartRate
  <1>1. Init => RateInv
    BY DEF Init, RateInv, Lies, Slow, Placed, Spaced
  <1>2. RateInv => RestartRate
    BY DEF RateInv, Slow, Spaced, RestartRate
  <1>3. QED
    BY <1>1, <1>2, TypeInvariant, RateStep, PTL DEF Spec

\* What the supervisor reports of a child is true of the process that runs now, for any
\* number of calls and any limits (handle_failure, respawn, terminate).
THEOREM EarnedCorrect == Spec => []ReportsAreEarned
  <1>1. ReportsAreTrue /\ TimeoutsAreEarned => ReportsAreEarned
    BY DEF ReportsAreEarned
  <1>2. QED
    BY <1>1, ReportsCorrect, TimeoutsCorrect, PTL
=============================================================================

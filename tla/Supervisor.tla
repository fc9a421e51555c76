----------------------------- MODULE Supervisor -----------------------------
(***************************************************************************)
(* The process supervisor (crates/supervisor/src): calls of                *)
(* Supervisor::spawn, the task that watches each child, its restarts, and  *)
(* the permits and the cancellation they share.                            *)
(*                                                                         *)
(* A child is one process group of the execution boundary, of which the    *)
(* supervisor relies on what Boundary shows: an Ok means that the whole    *)
(* group has gone, and a child that is dropped, or whose cleanup failed,   *)
(* has been sent its last signal.  A task's step ends where it awaits.     *)
(***************************************************************************)
EXTENDS Naturals, FiniteSets, Sequences

CONSTANTS
  Calls,             \* calls of Supervisor::spawn, each with the task it may start
  MaxChildren,       \* SupervisorConfig::max_concurrent_children
  MaxRestarts,       \* RestartPolicy::max_restarts
  Window,            \* RestartPolicy::window
  WallClock,         \* SupervisorConfig::wall_clock
  HeartbeatTimeout,  \* SupervisorConfig::heartbeat_timeout
  MaxTime            \* bound on the clock

ASSUME CallsAssumption == IsFiniteSet(Calls)

ASSUME LimitsAssumption ==
  /\ MaxChildren \in Nat
  /\ MaxRestarts \in Nat
  /\ Window \in Nat
  /\ WallClock \in Nat
  /\ HeartbeatTimeout \in Nat
  /\ MaxTime \in Nat

VARIABLES
  now,           \* the clock
  spent,         \* CostTracker::check_budget refuses
  cancelled,     \* Supervisor::cancel was called
  pc,            \* where the call and then its task are
  proc,          \* the child's process group
  started,       \* history: when the current process was spawned
  liveness,      \* the watch channel of the last heartbeat
  deadline,      \* run's wall-clock deadline
  window_start,  \* run's restart window
  restarts,      \* restarts counted in that window
  restarted_at,  \* history: the times of all restarts
  cause,         \* why the task is terminating its child
  closed,        \* the `terminate` event was recorded
  outcome        \* what spawn or wait returned

timers  == <<started, liveness, deadline>>
policy  == <<window_start, restarts, restarted_at>>
results == <<cause, closed, outcome>>
vars    == <<now, spent, cancelled, pc, proc, timers, policy, results>>

-----------------------------------------------------------------------------
Init ==
  /\ now = 0
  /\ spent = FALSE
  /\ cancelled = FALSE
  /\ pc = [t \in Calls |-> "idle"]
  /\ proc = [t \in Calls |-> "none"]
  /\ started = [t \in Calls |-> 0]
  /\ liveness = [t \in Calls |-> 0]
  /\ deadline = [t \in Calls |-> 0]
  /\ window_start = [t \in Calls |-> 0]
  /\ restarts = [t \in Calls |-> 0]
  /\ restarted_at = [t \in Calls |-> << >>]
  /\ cause = [t \in Calls |-> "none"]
  /\ closed = [t \in Calls |-> FALSE]
  /\ outcome = [t \in Calls |-> "none"]

Tasks == {"starting", "watch", "ending", "closing", "backoff"}

\* OwnedSemaphorePermit: a task holds its permit until it is dropped.
Holders == {t \in Calls : pc[t] \in Tasks}

-----------------------------------------------------------------------------
(***************************************************************************)
(* Supervisor::spawn.                                                      *)
(***************************************************************************)

\* check_budget refuses, before a permit is asked for.
Refused(t) ==
  /\ pc[t] = "idle"
  /\ spent
  /\ pc' = [pc EXCEPT ![t] = "over"]
  /\ outcome' = [outcome EXCEPT ![t] = "refused"]
  /\ UNCHANGED <<now, spent, cancelled, proc, timers, policy, cause, closed>>

Queue(t) ==
  /\ pc[t] = "idle"
  /\ ~spent
  /\ pc' = [pc EXCEPT ![t] = "queued"]
  /\ UNCHANGED <<now, spent, cancelled, proc, timers, policy, results>>

\* Semaphore::acquire_owned
HasPermit == Cardinality(Holders) < MaxChildren

\* The permit is there, the process runs and its `spawn` event is recorded.
Spawn(t) ==
  /\ pc[t] = "queued"
  /\ HasPermit
  /\ pc' = [pc EXCEPT ![t] = "starting"]
  /\ proc' = [proc EXCEPT ![t] = "running"]
  /\ started' = [started EXCEPT ![t] = now]
  /\ liveness' = [liveness EXCEPT ![t] = now]
  /\ UNCHANGED <<now, spent, cancelled, deadline, policy, results>>

\* No process was spawned, or its event could not be recorded and it is dropped, and the
\* permit after it.
SpawnFails(t) ==
  /\ pc[t] = "queued"
  /\ HasPermit
  /\ pc' = [pc EXCEPT ![t] = "over"]
  /\ \E left \in {"none", "dying"} : proc' = [proc EXCEPT ![t] = left]
  /\ outcome' = [outcome EXCEPT ![t] = "failed"]
  /\ UNCHANGED <<now, spent, cancelled, timers, policy, cause, closed>>

-----------------------------------------------------------------------------
(***************************************************************************)
(* SuperviseTask::run.                                                     *)
(***************************************************************************)

\* The runtime polls the task for the first time.
Start(t) ==
  /\ pc[t] = "starting"
  /\ pc' = [pc EXCEPT ![t] = "watch"]
  /\ window_start' = [window_start EXCEPT ![t] = now]
  /\ deadline' = [deadline EXCEPT ![t] = now + WallClock]
  /\ UNCHANGED <<now, spent, cancelled, proc, started, liveness, restarts, restarted_at,
                 results>>

Terminate(t, why) ==
  /\ pc' = [pc EXCEPT ![t] = "ending"]
  /\ cause' = [cause EXCEPT ![t] = why]
  /\ UNCHANGED <<now, spent, cancelled, proc, timers, policy, closed, outcome>>

\* Mutant: the token is looked at once the child has exited.
MutantCancelled(t) ==
  /\ pc[t] = "watch"
  /\ cancelled
  /\ proc[t] # "running"
  /\ Terminate(t, "cancelled")

\* next_step: its arms are polled in this order.
Cancelled(t) ==
  /\ pc[t] = "watch"
  /\ cancelled
  /\ Terminate(t, "cancelled")

DeadlinePassed(t) ==
  /\ pc[t] = "watch"
  /\ ~cancelled
  /\ now >= deadline[t]
  /\ Terminate(t, "wall_clock_timeout")

\* The two later arms of next_step: neither of the first two is ready.
Watching(t) == pc[t] = "watch" /\ ~cancelled /\ now < deadline[t]

WaitFailed(t) == Watching(t) /\ Terminate(t, "child_wait_failed")

\* The exit was observed, and the leader is still there.
Exited(t) ==
  /\ Watching(t)
  /\ proc[t] \in {"succeeded", "failed"}
  /\ pc' = [pc EXCEPT ![t] = "closing"]
  /\ UNCHANGED <<now, spent, cancelled, proc, timers, policy, results>>

\* A tick finds the channel old.  An exit may not have been observed yet.
Silent(t) ==
  /\ Watching(t)
  /\ now - liveness[t] > HeartbeatTimeout
  /\ Terminate(t, "heartbeat_timeout")

\* The task returns: its child is dropped before its permit, and run's clocks with it.
Return(t, how) ==
  /\ pc' = [pc EXCEPT ![t] = "over"]
  /\ outcome' = [outcome EXCEPT ![t] = how]
  /\ started' = [started EXCEPT ![t] = 0]
  /\ liveness' = [liveness EXCEPT ![t] = 0]
  /\ deadline' = [deadline EXCEPT ![t] = 0]
  /\ window_start' = [window_start EXCEPT ![t] = 0]
  /\ restarts' = [restarts EXCEPT ![t] = 0]
  /\ restarted_at' = [restarted_at EXCEPT ![t] = << >>]
  /\ cause' = [cause EXCEPT ![t] = "none"]
  /\ UNCHANGED <<now, spent, cancelled>>

\* terminate_group: the group has gone and the event is recorded.
Terminated(t) ==
  /\ pc[t] = "ending"
  /\ proc' = [proc EXCEPT ![t] = "gone"]
  /\ closed' = [closed EXCEPT ![t] = TRUE]
  /\ Return(t, "escalated")

\* Mutant: the child is given up as it is.
MutantTerminationFails(t) ==
  /\ pc[t] = "ending"
  /\ Return(t, "escalated")
  /\ UNCHANGED <<proc, closed>>

\* terminate_group: the cleanup failed, or the record of a complete one did.
TerminationFails(t) ==
  /\ pc[t] = "ending"
  /\ \E left \in {"gone", "dying"} : proc' = [proc EXCEPT ![t] = left]
  /\ Return(t, "escalated")
  /\ UNCHANGED closed

\* finalize_after_exit fails.
FinalizationFails(t) ==
  /\ pc[t] = "closing"
  /\ proc' = [proc EXCEPT ![t] = "dying"]
  /\ Return(t, "escalated")
  /\ UNCHANGED closed

\* The group has gone and the leader's status is success.
Completed(t) ==
  /\ pc[t] = "closing"
  /\ proc[t] = "succeeded"
  /\ Return(t, "completed")
  /\ proc' = [proc EXCEPT ![t] = "gone"]
  /\ UNCHANGED closed

Expired(t) == now - window_start[t] > Window

\* handle_failure: the restarts that count, after the window was looked at.
Counted(t) == IF Expired(t) THEN 0 ELSE restarts[t]

MayRestart(t) == Counted(t) < MaxRestarts

\* Mutant: the window is not moved when its count is forgotten.
MutantRenewWindow(t) ==
  /\ restarts' = [restarts EXCEPT ![t] = Counted(t)]
  /\ UNCHANGED window_start

\* A window that is over is replaced by one that starts now.
RenewWindow(t) ==
  /\ restarts' = [restarts EXCEPT ![t] = Counted(t)]
  /\ window_start' = [window_start EXCEPT ![t] = IF Expired(t) THEN now ELSE @]

\* The group has gone, the leader failed, and it may be restarted: sleep before that.
Failed(t) ==
  /\ pc[t] = "closing"
  /\ proc[t] = "failed"
  /\ MayRestart(t)
  /\ pc' = [pc EXCEPT ![t] = "backoff"]
  /\ proc' = [proc EXCEPT ![t] = "gone"]
  /\ RenewWindow(t)
  /\ UNCHANGED <<now, spent, cancelled, timers, restarted_at, results>>

\* restart_exhausted
Exhausted(t) ==
  /\ pc[t] = "closing"
  /\ proc[t] = "failed"
  /\ ~MayRestart(t)
  /\ proc' = [proc EXCEPT ![t] = "gone"]
  /\ Return(t, "escalated")
  /\ UNCHANGED closed

\* Mutant: the new process inherits the liveness of the one that died.
MutantRestart(t) ==
  /\ pc[t] = "backoff"
  /\ pc' = [pc EXCEPT ![t] = "watch"]
  /\ proc' = [proc EXCEPT ![t] = "running"]
  /\ started' = [started EXCEPT ![t] = now]
  /\ restarts' = [restarts EXCEPT ![t] = @ + 1]
  /\ restarted_at' = [restarted_at EXCEPT ![t] = Append(@, now)]
  /\ deadline' = [deadline EXCEPT ![t] = now + WallClock]
  /\ UNCHANGED <<now, spent, cancelled, liveness, window_start, results>>

\* The backoff is over and respawn succeeds.  Nothing is looked at during the sleep,
\* and it may take any time.
Restart(t) ==
  /\ pc[t] = "backoff"
  /\ pc' = [pc EXCEPT ![t] = "watch"]
  /\ proc' = [proc EXCEPT ![t] = "running"]
  /\ started' = [started EXCEPT ![t] = now]
  /\ liveness' = [liveness EXCEPT ![t] = now]
  /\ restarts' = [restarts EXCEPT ![t] = @ + 1]
  /\ restarted_at' = [restarted_at EXCEPT ![t] = Append(@, now)]
  /\ deadline' = [deadline EXCEPT ![t] = now + WallClock]
  /\ UNCHANGED <<now, spent, cancelled, window_start, results>>

RespawnFails(t) ==
  /\ pc[t] = "backoff"
  /\ \E left \in {"gone", "dying"} : proc' = [proc EXCEPT ![t] = left]
  /\ Return(t, "escalated")
  /\ UNCHANGED closed

-----------------------------------------------------------------------------
(***************************************************************************)
(* The children, the caller and the clock.                                 *)
(***************************************************************************)

\* A child exits by itself, or of the signal that a drop or a failed cleanup sent it.
ChildEnds(t) ==
  /\ \/ proc[t] = "running" /\ \E how \in {"succeeded", "failed"} : proc' = [proc EXCEPT ![t] = how]
     \/ proc[t] = "dying" /\ proc' = [proc EXCEPT ![t] = "gone"]
  /\ UNCHANGED <<now, spent, cancelled, pc, timers, policy, results>>

\* spawn_reader: a liveness line, of this process or left over from the one before it.
Heartbeat(t) ==
  /\ pc[t] \in Tasks
  /\ liveness' = [liveness EXCEPT ![t] = now]
  /\ UNCHANGED <<now, spent, cancelled, pc, proc, started, deadline, policy, results>>

Cancel ==
  /\ ~cancelled
  /\ cancelled' = TRUE
  /\ UNCHANGED <<now, spent, pc, proc, timers, policy, results>>

Spend ==
  /\ ~spent
  /\ spent' = TRUE
  /\ UNCHANGED <<now, cancelled, pc, proc, timers, policy, results>>

Tick ==
  /\ now < MaxTime
  /\ now' = now + 1
  /\ UNCHANGED <<spent, cancelled, pc, proc, timers, policy, results>>

-----------------------------------------------------------------------------
Call(t) == Refused(t) \/ Queue(t) \/ Spawn(t) \/ SpawnFails(t)

\* What wakes a task that is watching.
Watch(t) ==
  Cancelled(t) \/ DeadlinePassed(t) \/ WaitFailed(t) \/ Exited(t) \/ Silent(t)

Task(t) ==
  \/ Start(t)
  \/ Watch(t)
  \/ Terminated(t) \/ TerminationFails(t)
  \/ FinalizationFails(t) \/ Completed(t) \/ Failed(t) \/ Exhausted(t)
  \/ Restart(t) \/ RespawnFails(t)

Next ==
  \/ \E t \in Calls : Call(t) \/ Task(t) \/ ChildEnds(t) \/ Heartbeat(t)
  \/ Cancel \/ Spend \/ Tick

Spec == Init /\ [][Next]_vars

\* The runtime polls what is ready and every await of a task is bounded, but for that of
\* an exit: a call that has its permit goes on, a task that can step does.
Fairness ==
  \A t \in Calls :
    /\ WF_vars(Spawn(t) \/ SpawnFails(t))
    /\ WF_vars(Start(t) \/ Cancelled(t) \/ DeadlinePassed(t) \/ Exited(t))
    /\ WF_vars(Terminated(t) \/ TerminationFails(t))
    /\ WF_vars(FinalizationFails(t) \/ Completed(t) \/ Failed(t) \/ Exhausted(t))
    /\ WF_vars(Restart(t) \/ RespawnFails(t))

FairSpec == Spec /\ Fairness

-----------------------------------------------------------------------------
(***************************************************************************)
(* Properties.                                                             *)
(***************************************************************************)

\* Every variable has its type, and the restarts of a window never pass their limit.
TypeOK ==
  /\ now \in Nat
  /\ spent \in BOOLEAN
  /\ cancelled \in BOOLEAN
  /\ pc \in [Calls -> {"idle", "queued", "over"} \cup Tasks]
  /\ proc \in [Calls -> {"none", "running", "succeeded", "failed", "dying", "gone"}]
  /\ started \in [Calls -> Nat]
  /\ liveness \in [Calls -> Nat]
  /\ deadline \in [Calls -> Nat]
  /\ window_start \in [Calls -> Nat]
  /\ restarts \in [Calls -> 0 .. MaxRestarts]
  /\ restarted_at \in [Calls -> Seq(Nat)]
  /\ cause \in [Calls -> {"none", "cancelled", "wall_clock_timeout", "heartbeat_timeout",
                          "child_wait_failed"}]
  /\ closed \in [Calls -> BOOLEAN]
  /\ outcome \in [Calls -> {"none", "refused", "failed", "completed", "escalated"}]

\* A process group nobody has killed.
Live(t) == proc[t] \in {"running", "succeeded", "failed"}

\* No more children are live than there are permits, whatever failed on the way: a permit
\* is given back only after its child was sent the last signal (SupervisorConfig:
\* "Maximum simultaneously-live children").
LiveWithinPermits == Cardinality({t \in Calls : Live(t)}) <= MaxChildren

\* A success, and a `terminate` event, are only reported of a child whose whole group has
\* gone (terminate.rs: "recorded only after trustworthy cleanup").
ReportsAreTrue ==
  \A t \in Calls : closed[t] \/ outcome[t] = "completed" => proc[t] = "gone"

\* A child is terminated for silence or for its wall clock only after the process that is
\* running now has had all of that time: nothing it is blamed for is a predecessor's
\* (respawn and handle_failure reset both clocks).
TimeoutsAreEarned ==
  \A t \in Calls : pc[t] = "ending" =>
    /\ cause[t] = "heartbeat_timeout" => now > started[t] + HeartbeatTimeout
    /\ cause[t] = "wall_clock_timeout" => now >= started[t] + WallClock

\* What the supervisor reports of a child is true of the process that is running now, and
\* not of its predecessor before a restart: success and termination only of a group that
\* has gone, a timeout only of a process that has had the time (handle_failure, respawn).
ReportsAreEarned == ReportsAreTrue /\ TimeoutsAreEarned

\* A crash-looping child is restarted at most twice the configured number of times within
\* any window's length, wherever that starts: handle_failure counts in windows that follow
\* one another and not in the "Sliding window" of RestartPolicy's comment.
RestartRate ==
  \A t \in Calls : \A i, j \in DOMAIN restarted_at[t] :
    j = i + 2 * MaxRestarts => restarted_at[t][j] > restarted_at[t][i] + Window

\* After a cancellation every call returns and every task ends, also one that waits for a
\* permit, is about to restart its child or was started afterwards (Supervisor::cancel:
\* "cooperative shutdown of every supervised child").
CancelEnds == cancelled ~> \A t \in Calls : pc[t] \in {"idle", "over"}
=============================================================================

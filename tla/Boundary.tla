------------------------------ MODULE Boundary ------------------------------
(***************************************************************************)
(* The execution boundary (crates/execution-boundary/src/process.rs): the  *)
(* process groups it owns, the service that observes their exits, and the  *)
(* operating system that may give a released number to somebody else.      *)
(*                                                                         *)
(* A child is a group of three: the leader whose pid is the group's        *)
(* number, the anchor that joins it before the leader runs, and whatever   *)
(* the leader has forked into it.  A process is "dying" from a SIGKILL     *)
(* until it is a zombie, a zombie is a member until it is reaped, and a    *)
(* group's number is free once it has no member left.                      *)
(*                                                                         *)
(* The owner is ProcessSpec::run; the supervisor's calls and the           *)
(* pseudo-terminal's are some of its steps.  An owner's step ends where    *)
(* the code awaits, and its future may be dropped there.                   *)
(***************************************************************************)
EXTENDS Naturals, FiniteSets

CONSTANTS
  Kids,          \* BoundaryChild values
  Pids,          \* the numbers the system gives to processes
  NoPid,         \* the number of a child that was never spawned
  MaxObservers,  \* MAX_ACTIVE_EXIT_OBSERVERS
  Free, Orphan   \* a subscription nobody holds, and one whose receiver was dropped

ASSUME NamesAssumption ==
  /\ Free \notin Kids
  /\ Orphan \notin Kids
  /\ Free # Orphan
  /\ NoPid \notin Pids

VARIABLES
  pid,       \* BoundaryChild::pid
  leader,    \* the direct child
  anchor,    \* the process that keeps the group
  kin,       \* what the leader forked into the group
  foreign,   \* numbers that other programs use
  pc,        \* where the owner is
  via,       \* who runs the finalization
  final,     \* BoundaryChild::final_signal
  failed,    \* finalize_owned_group has collected a failure
  spoiled,   \* exit observation failed during the grace period
  cleaned,   \* BoundaryChild::cleanup_complete
  verdict,   \* what the lifecycle came to, which run returns
  seen,      \* what the exit observer told the child
  subs,      \* ExitSubscriberState::senders
  fatal,     \* ExitSubscriberState::fatal
  poll,      \* the exit the observer has polled and not yet sent
  stray      \* history: a signal reached a group that is not the sender's

group    == <<leader, anchor, kin>>
outcome  == <<failed, spoiled, cleaned, verdict>>
observer == <<subs, fatal, poll>>
vars     == <<pid, group, foreign, pc, via, final, outcome, seen, observer, stray>>

-----------------------------------------------------------------------------
(***************************************************************************)
(* Process groups.                                                         *)
(***************************************************************************)

Present(k) == leader[k] # "gone" \/ anchor[k] # "gone" \/ kin[k] # "gone"

\* A group with this number exists.
Held(p) == p \in foreign \/ \E j \in Kids : pid[j] = p /\ Present(j)

Killed(state) == IF state = "running" THEN "dying" ELSE state

\* killpg: it reaches the child's group while that has a member, and whoever has the
\* number afterwards.
Reaches(k) == stray' = (stray \/ (~Present(k) /\ Held(pid[k])))

\* SIGKILL to the group.
KillGroup(k) ==
  /\ leader' = [leader EXCEPT ![k] = Killed(@)]
  /\ anchor' = [anchor EXCEPT ![k] = Killed(@)]
  /\ kin'    = [kin    EXCEPT ![k] = Killed(@)]

\* start_kill on both handles, which know when they have been reaped.
KillHandles(k) ==
  /\ leader' = [leader EXCEPT ![k] = Killed(@)]
  /\ anchor' = [anchor EXCEPT ![k] = Killed(@)]
  /\ UNCHANGED kin

\* The receiver is dropped: the sender stays registered until the service uses it.
Unsubscribe(k) ==
  /\ subs' = [p \in Pids |-> IF subs[p] = k THEN Orphan ELSE subs[p]]
  /\ seen' = [seen EXCEPT ![k] = "waiting"]

-----------------------------------------------------------------------------
(***************************************************************************)
(* Finalization.                                                           *)
(***************************************************************************)

Finalizing == {"leader", "anchor", "probe"}

\* issue_final_group_signal: once for each child, and its result is kept.
FinalSignal(k) ==
  \/ /\ final[k] # "none"
     /\ UNCHANGED <<final, stray>>
     /\ IF final[k] = "refused" THEN KillHandles(k) ELSE UNCHANGED group
  \/ /\ final[k] = "none"
     /\ Reaches(k)
     /\ final' = [final EXCEPT ![k] = "sent"]
     /\ KillGroup(k)
  \/ /\ final[k] = "none"
     /\ Reaches(k)
     /\ final' = [final EXCEPT ![k] = "refused"]
     /\ KillHandles(k)

\* finalize_group_and_reap up to its first await.
Finalize(k, who) ==
  /\ Unsubscribe(k)
  /\ FinalSignal(k)
  /\ pc' = [pc EXCEPT ![k] = "leader"]
  /\ via' = [via EXCEPT ![k] = who]
  /\ failed' = [failed EXCEPT ![k] = final'[k] = "refused"]

\* Nobody works for the child any longer.
Over(k) ==
  /\ pc' = [pc EXCEPT ![k] = "over"]
  /\ via' = [via EXCEPT ![k] = "none"]
  /\ failed' = [failed EXCEPT ![k] = FALSE]

\* The child's value is gone, and what it held with it.
Forget(k) ==
  /\ spoiled' = [spoiled EXCEPT ![k] = FALSE]
  /\ cleaned' = [cleaned EXCEPT ![k] = FALSE]
  /\ verdict' = [verdict EXCEPT ![k] = "none"]

\* Mutant: a dropped child is left to kill_on_drop.
MutantRelease(k) ==
  /\ Forget(k)
  /\ Over(k)
  /\ KillHandles(k)
  /\ Unsubscribe(k)
  /\ UNCHANGED <<final, stray>>

\* Drop: nothing is left to do after a complete cleanup, and a task finishes it otherwise.
Release(k) ==
  /\ Forget(k)
  /\ IF cleaned[k]
       THEN /\ Over(k)
            /\ final' = [final EXCEPT ![k] = "none"]
            /\ Unsubscribe(k)
            /\ UNCHANGED <<group, stray>>
       ELSE Finalize(k, "detached")

\* child.wait, under POST_KILL_REAP_TIMEOUT.
ReapLeader(k) ==
  /\ pc[k] = "leader"
  /\ pc' = [pc EXCEPT ![k] = "anchor"]
  /\ \/ /\ leader[k] \in {"zombie", "gone"}
        /\ leader' = [leader EXCEPT ![k] = "gone"]
        /\ UNCHANGED failed
     \/ /\ leader[k] # "gone"
        /\ failed' = [failed EXCEPT ![k] = TRUE]
        /\ UNCHANGED leader
  /\ UNCHANGED <<pid, anchor, kin, foreign, via, final, spoiled, cleaned, verdict,
                 seen, observer, stray>>

\* anchor.wait, under the same timeout.
ReapAnchor(k) ==
  /\ pc[k] = "anchor"
  /\ pc' = [pc EXCEPT ![k] = "probe"]
  /\ \/ /\ anchor[k] \in {"zombie", "gone"}
        /\ anchor' = [anchor EXCEPT ![k] = "gone"]
        /\ UNCHANGED failed
     \/ /\ anchor[k] # "gone"
        /\ failed' = [failed EXCEPT ![k] = TRUE]
        /\ UNCHANGED anchor
  /\ UNCHANGED <<pid, leader, kin, foreign, via, final, spoiled, cleaned, verdict,
                 seen, observer, stray>>

\* Where a finalization goes: back to run, or to its end.
Conclude(k, done) ==
  IF via[k] = "detached"
    THEN /\ Over(k)
         /\ final' = [final EXCEPT ![k] = "none"]
         /\ UNCHANGED <<cleaned, verdict>>
    ELSE /\ pc' = [pc EXCEPT ![k] = "settled"]
         /\ cleaned' = [cleaned EXCEPT ![k] = @ \/ done]
         /\ verdict' = [verdict EXCEPT ![k] =
                           IF done /\ ~spoiled[k] /\ via[k] # "cleanup" THEN "ok" ELSE "error"]
         /\ failed' = [failed EXCEPT ![k] = FALSE]
         /\ UNCHANGED <<via, final>>

\* Mutant: the number is not looked up again once both handles are reaped.
MutantProbe(k) ==
  /\ pc[k] = "probe"
  /\ Conclude(k, ~failed[k])
  /\ UNCHANGED <<pid, group, foreign, spoiled, seen, observer, stray>>

\* require_group_disappeared: no such group, or the deadline.
Probe(k) ==
  /\ pc[k] = "probe"
  /\ \/ ~Held(pid[k]) /\ Conclude(k, ~failed[k])
     \/ Held(pid[k]) /\ Conclude(k, FALSE)
  /\ UNCHANGED <<pid, group, foreign, spoiled, seen, observer, stray>>

-----------------------------------------------------------------------------
(***************************************************************************)
(* The exit observer service.                                              *)
(***************************************************************************)

\* insert_exit_subscriber
MayRegister(p) ==
  /\ ~fatal
  /\ Cardinality({q \in Pids : subs[q] # Free}) < MaxObservers
  /\ subs[p] = Free

\* Mutant: an error of waitid is taken for a child that is still running.
MutantExitState(p) ==
  IF \E j \in Kids : pid[j] = p /\ leader[j] = "zombie" THEN "exited" ELSE "waiting"

\* poll_exit_without_reaping: waitid knows a pid until it is reaped, and fails on it
\* afterwards.
ExitState(p) ==
  IF \E j \in Kids : pid[j] = p /\ leader[j] = "zombie" THEN "exited"
  ELSE IF \E j \in Kids : pid[j] = p /\ leader[j] \in {"running", "dying"} THEN "waiting"
  ELSE "failed"

\* One number of polling_exit_observer_loop.  Only this thread removes a sender, so the
\* numbers it copied under the lock are still registered.
Poll(p) ==
  /\ poll.pid = NoPid
  /\ subs[p] # Free
  /\ ExitState(p) # "waiting"
  /\ poll' = [pid |-> p, state |-> ExitState(p)]
  /\ UNCHANGED <<pid, group, foreign, pc, via, final, outcome, seen, subs, fatal, stray>>

\* send_exit_observation
Send ==
  /\ poll.pid \in Pids
  /\ IF subs[poll.pid] \in Kids
       THEN seen' = [seen EXCEPT ![subs[poll.pid]] = poll.state]
       ELSE UNCHANGED seen
  /\ subs' = [subs EXCEPT ![poll.pid] = Free]
  /\ poll' = [pid |-> NoPid, state |-> "waiting"]
  /\ UNCHANGED <<pid, group, foreign, pc, via, final, outcome, fatal, stray>>

\* fail_all_exit_subscribers, where kqueue is what observes.
ObserverFails ==
  /\ ~fatal
  /\ poll.pid = NoPid
  /\ fatal' = TRUE
  /\ seen' = [k \in Kids |-> IF \E p \in Pids : subs[p] = k THEN "failed" ELSE seen[k]]
  /\ subs' = [p \in Pids |-> Free]
  /\ UNCHANGED <<pid, group, foreign, pc, via, final, outcome, poll, stray>>

-----------------------------------------------------------------------------
(***************************************************************************)
(* The owner.                                                              *)
(***************************************************************************)

\* spawn_with_stderr: the leader stops itself before it runs the program, and the anchor
\* joins its group.
Spawn(k, p) ==
  /\ pc[k] = "over"
  /\ ~Present(k)
  /\ ~Held(p)
  /\ pid' = [pid EXCEPT ![k] = p]
  /\ leader' = [leader EXCEPT ![k] = "running"]
  /\ anchor' = [anchor EXCEPT ![k] = "running"]
  /\ pc' = [pc EXCEPT ![k] = "arming"]
  /\ final' = [final EXCEPT ![k] = "none"]
  /\ UNCHANGED <<kin, foreign, via, failed, spoiled, cleaned, verdict, seen, observer, stray>>

\* arm_owned_process_group: the observer is registered before the leader goes on.
Arm(k) ==
  /\ pc[k] = "arming"
  /\ MayRegister(pid[k])
  /\ subs' = [subs EXCEPT ![pid[k]] = k]
  /\ pc' = [pc EXCEPT ![k] = "watch"]
  /\ UNCHANGED <<pid, group, foreign, via, final, outcome, seen, fatal, poll, stray>>

\* One of its steps fails: the group is killed and the handles are dropped, with the
\* sender left behind if the failure came after the registration.
ArmFails(k) ==
  /\ pc[k] = "arming"
  /\ Reaches(k)
  /\ KillGroup(k)
  /\ \/ UNCHANGED subs
     \/ MayRegister(pid[k]) /\ subs' = [subs EXCEPT ![pid[k]] = Orphan]
  /\ pc' = [pc EXCEPT ![k] = "over"]
  /\ UNCHANGED <<pid, foreign, via, final, outcome, seen, fatal, poll>>

\* wait_and_close_group: the exit was observed.
Exited(k) ==
  /\ pc[k] = "watch"
  /\ seen[k] = "exited"
  /\ Finalize(k, "natural")
  /\ UNCHANGED <<pid, foreign, spoiled, cleaned, verdict, fatal, poll>>

\* wait_and_close_group: the observation failed, and nothing has been signalled.
WaitFails(k) ==
  /\ pc[k] = "watch"
  /\ seen[k] = "failed"
  /\ pc' = [pc EXCEPT ![k] = "settled"]
  /\ verdict' = [verdict EXCEPT ![k] = "error"]
  /\ UNCHANGED <<pid, group, foreign, via, final, failed, spoiled, cleaned, seen,
                 observer, stray>>

\* The future that waits is dropped for one that terminates: a timeout, a cancellation or
\* too much output.  The supervisor also terminates when the observation has failed.
Interruptible(k) ==
  \/ pc[k] = "watch"
  \/ pc[k] \in Finalizing /\ via[k] = "natural"
  \/ pc[k] = "settled" /\ via[k] = "none"

\* Mutant: a finalization that was interrupted is not resumed.
MutantTerminate(k) ==
  /\ Interruptible(k)
  /\ Reaches(k)
  /\ pc' = [pc EXCEPT ![k] = "grace"]
  /\ UNCHANGED <<pid, group, foreign, via, final, outcome, seen, observer>>

\* terminate_group: SIGTERM, unless the final signal has been sent.
Terminate(k) ==
  /\ Interruptible(k)
  /\ IF final[k] # "none"
       THEN /\ Finalize(k, "terminate")
            /\ UNCHANGED <<spoiled, cleaned, verdict, fatal, poll>>
       ELSE /\ Reaches(k)
            /\ pc' = [pc EXCEPT ![k] = "grace"]
            /\ UNCHANGED <<group, via, final, outcome, seen, observer>>
  /\ UNCHANGED <<pid, foreign>>

\* The leader's exit was observed, the observation failed, or the grace period is over.
GraceEnds(k) ==
  /\ pc[k] = "grace"
  /\ Finalize(k, "terminate")
  /\ spoiled' = [spoiled EXCEPT ![k] = seen[k] = "failed"]
  /\ UNCHANGED <<pid, foreign, cleaned, verdict, fatal, poll>>

\* cleanup_after_output_deadline: the lifecycle and the output together took too long.
OutputDeadline(k) ==
  /\ \/ pc[k] = "settled" /\ via[k] # "cleanup"
     \/ pc[k] \in Finalizing /\ via[k] \in {"natural", "terminate"}
  /\ Finalize(k, "cleanup")
  /\ verdict' = [verdict EXCEPT ![k] = "none"]
  /\ spoiled' = [spoiled EXCEPT ![k] = FALSE]
  /\ UNCHANGED <<pid, foreign, cleaned, fatal, poll>>

\* run returns once the output is complete or was refused, and drops the child.
Return(k) ==
  /\ pc[k] = "settled"
  /\ Release(k)
  /\ UNCHANGED <<pid, foreign, fatal, poll>>

Running(k) ==
  pc[k] \in {"watch", "grace", "settled"} \/ (pc[k] \in Finalizing /\ via[k] # "detached")

\* The caller drops the future of run.
DropFuture(k) ==
  /\ Running(k)
  /\ Release(k)
  /\ UNCHANGED <<pid, foreign, fatal, poll>>

\* Drop without a runtime: the signal first, and what has died already is reaped.
DropAtShutdown(k) ==
  /\ Running(k)
  /\ ~cleaned[k]
  /\ FinalSignal(k)
  /\ Unsubscribe(k)
  /\ Forget(k)
  /\ Over(k)
  /\ UNCHANGED <<pid, foreign, fatal, poll>>

\* Dropped handles: the runtime, or init after it, reaps what was killed.
ReapOrphan(k) ==
  /\ pc[k] = "over"
  /\ \/ /\ leader[k] = "zombie"
        /\ leader' = [leader EXCEPT ![k] = "gone"]
        /\ UNCHANGED anchor
     \/ /\ anchor[k] = "zombie"
        /\ anchor' = [anchor EXCEPT ![k] = "gone"]
        /\ UNCHANGED leader
  /\ UNCHANGED <<pid, kin, foreign, pc, via, final, outcome, seen, observer, stray>>

-----------------------------------------------------------------------------
(***************************************************************************)
(* The system.                                                             *)
(***************************************************************************)

\* A process ends by itself, by a signal of somebody else, or of the SIGKILL it got.
LeaderEnds(k) ==
  /\ leader[k] \in {"running", "dying"}
  /\ leader' = [leader EXCEPT ![k] = "zombie"]
  /\ UNCHANGED <<pid, anchor, kin, foreign, pc, via, final, outcome, seen, observer, stray>>

AnchorEnds(k) ==
  /\ anchor[k] \in {"running", "dying"}
  /\ anchor' = [anchor EXCEPT ![k] = "zombie"]
  /\ UNCHANGED <<pid, leader, kin, foreign, pc, via, final, outcome, seen, observer, stray>>

Forks(k) ==
  /\ leader[k] = "running"
  /\ pc[k] # "arming"
  /\ kin[k] = "gone"
  /\ kin' = [kin EXCEPT ![k] = "running"]
  /\ UNCHANGED <<pid, leader, anchor, foreign, pc, via, final, outcome, seen, observer, stray>>

KinEnds(k) ==
  /\ kin[k] # "gone"
  /\ kin' = [kin EXCEPT ![k] = "gone"]
  /\ UNCHANGED <<pid, leader, anchor, foreign, pc, via, final, outcome, seen, observer, stray>>

\* Another program gets a number that is free, and gives it back.
TakePid(p) ==
  /\ ~Held(p)
  /\ foreign' = foreign \cup {p}
  /\ UNCHANGED <<pid, group, pc, via, final, outcome, seen, observer, stray>>

ReleasePid(p) ==
  /\ p \in foreign
  /\ foreign' = foreign \ {p}
  /\ UNCHANGED <<pid, group, pc, via, final, outcome, seen, observer, stray>>

-----------------------------------------------------------------------------
Init ==
  /\ pid = [k \in Kids |-> NoPid]
  /\ leader = [k \in Kids |-> "gone"]
  /\ anchor = [k \in Kids |-> "gone"]
  /\ kin = [k \in Kids |-> "gone"]
  /\ foreign = {}
  /\ pc = [k \in Kids |-> "over"]
  /\ via = [k \in Kids |-> "none"]
  /\ final = [k \in Kids |-> "none"]
  /\ failed = [k \in Kids |-> FALSE]
  /\ spoiled = [k \in Kids |-> FALSE]
  /\ cleaned = [k \in Kids |-> FALSE]
  /\ verdict = [k \in Kids |-> "none"]
  /\ seen = [k \in Kids |-> "waiting"]
  /\ subs = [p \in Pids |-> Free]
  /\ fatal = FALSE
  /\ poll = [pid |-> NoPid, state |-> "waiting"]
  /\ stray = FALSE

Owner(k) ==
  \/ \E p \in Pids : Spawn(k, p)
  \/ Arm(k) \/ ArmFails(k)
  \/ Exited(k) \/ WaitFails(k) \/ Terminate(k) \/ GraceEnds(k)
  \/ ReapLeader(k) \/ ReapAnchor(k) \/ Probe(k)
  \/ OutputDeadline(k) \/ Return(k)
  \/ DropFuture(k) \/ DropAtShutdown(k) \/ ReapOrphan(k)

System(k) == LeaderEnds(k) \/ AnchorEnds(k) \/ Forks(k) \/ KinEnds(k)

Next ==
  \/ \E k \in Kids : Owner(k) \/ System(k)
  \/ \E p \in Pids : Poll(p) \/ TakePid(p) \/ ReleasePid(p)
  \/ Send \/ ObserverFails

Spec == Init /\ [][Next]_vars

\* What the runtime and the timers bring about: every await ends by itself or at its
\* deadline, and a child that is still watched reaches its timeout.
Progress(k) ==
  \/ Arm(k) \/ ArmFails(k)
  \/ Exited(k) \/ WaitFails(k) \/ (pc[k] = "watch" /\ Terminate(k)) \/ GraceEnds(k)
  \/ ReapLeader(k) \/ ReapAnchor(k) \/ Probe(k)
  \/ Return(k) \/ ReapOrphan(k)

\* A process that was sent SIGKILL ends.
Dies(k) ==
  \/ leader[k] = "dying" /\ LeaderEnds(k)
  \/ anchor[k] = "dying" /\ AnchorEnds(k)
  \/ kin[k] = "dying" /\ KinEnds(k)

Fairness ==
  /\ \A k \in Kids : WF_vars(Progress(k)) /\ WF_vars(Dies(k))
  /\ \A p \in Pids : WF_vars(Poll(p))
  /\ WF_vars(Send)

FairSpec == Spec /\ Fairness

-----------------------------------------------------------------------------
(***************************************************************************)
(* Properties.                                                             *)
(***************************************************************************)

States == {"gone", "running", "dying", "zombie"}

\* Every variable has its type, and a lifecycle that has ended has a verdict.
TypeOK ==
  /\ pid \in [Kids -> Pids \cup {NoPid}]
  /\ leader \in [Kids -> States]
  /\ anchor \in [Kids -> States]
  /\ kin \in [Kids -> States \ {"zombie"}]
  /\ foreign \subseteq Pids
  /\ pc \in [Kids -> {"over", "arming", "watch", "grace", "settled"} \cup Finalizing]
  /\ via \in [Kids -> {"none", "natural", "terminate", "cleanup", "detached"}]
  /\ final \in [Kids -> {"none", "sent", "refused"}]
  /\ failed \in [Kids -> BOOLEAN]
  /\ spoiled \in [Kids -> BOOLEAN]
  /\ cleaned \in [Kids -> BOOLEAN]
  /\ verdict \in [Kids -> {"none", "ok", "error"}]
  /\ seen \in [Kids -> {"waiting", "exited", "failed"}]
  /\ subs \in [Pids -> Kids \cup {Free, Orphan}]
  /\ fatal \in BOOLEAN
  /\ poll \in [pid : Pids \cup {NoPid}, state : {"waiting", "exited", "failed"}]
  /\ stray \in BOOLEAN
  /\ \A k \in Kids : pc[k] = "settled" => verdict[k] # "none"

\* No signal is sent to a group number after the boundary's own group has given it up
\* (terminate_group: "never send a fresh signal to a numeric group that may have been
\* released by a partially completed reap"), however finalizations are interrupted,
\* resumed and dropped and whoever has the number by then.
NoStraySignal == ~stray

\* When the lifecycle's verdict is Ok, nothing of the child's group is left: the leader, the anchor and
\* whatever was forked into it have all gone (finalize_owned_group's disappearance proof).
OkMeansGone == \A k \in Kids : verdict[k] = "ok" => ~Present(k)

\* The exit a child is told of is its own leader's: a number that was reused while an
\* older observation was on its way does not confuse the service (insert_exit_subscriber).
ObservedIsOwn ==
  \A k \in Kids : seen[k] = "exited" => leader[k] \notin {"running", "dying"}

\* A group number that is reused never carries anything from one child to another: no
\* signal for the old group reaches the new one, and no exit observed of the old leader
\* is told to the new child (terminate_group, insert_exit_subscriber).
NothingCrossesOver == NoStraySignal /\ ObservedIsOwn

\* Whatever happens to its owner, the group of a child that was spawned goes away, unless
\* the system refused the final signal (BoundaryChild's Drop and run's deadlines).
NothingStranded ==
  \A k \in Kids : pc[k] = "arming" ~> (~Present(k) \/ final[k] = "refused")

\* Once no child is left, no observer slot stays taken: a sender whose child was reaped
\* before it was polled is removed all the same (poll_exit_without_reaping's error arm).
ObserversReleased ==
  (<>[](\A k \in Kids : leader[k] = "gone" /\ pc[k] = "over"))
    => <>[](\A p \in Pids : subs[p] = Free)
=============================================================================

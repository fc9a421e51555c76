--------------------------- MODULE BoundaryProofs ---------------------------
(***************************************************************************)
(* Proofs about Boundary, for any number of children and any numbers.      *)
(***************************************************************************)
EXTENDS Boundary, TLAPS

-----------------------------------------------------------------------------
(***************************************************************************)
(* Types.                                                                  *)
(***************************************************************************)

\* Killing a process keeps it one of the states a process can be in, and does not touch
\* one that is a zombie or gone.
LEMMA KilledState ==
  ASSUME NEW s \in States
  PROVE  /\ Killed(s) \in States \ {"running"}
         /\ s # "zombie" => Killed(s) # "zombie"
         /\ (Killed(s) = "gone") <=> (s = "gone")
         /\ s = "zombie" => Killed(s) = "zombie"
  BY DEF Killed, States

\* The final signal keeps the types (issue_final_group_signal and its fallback).
LEMMA FinalSignalTypes ==
  ASSUME TypeOK, NEW k \in Kids, FinalSignal(k)
  PROVE  /\ leader' \in [Kids -> States]
         /\ anchor' \in [Kids -> States]
         /\ kin' \in [Kids -> States \ {"zombie"}]
         /\ final' \in [Kids -> {"none", "sent", "refused"}]
         /\ stray' \in BOOLEAN
  <1>1. leader \in [Kids -> States] /\ anchor \in [Kids -> States]
        /\ kin \in [Kids -> States \ {"zombie"}]
        /\ final \in [Kids -> {"none", "sent", "refused"}] /\ stray \in BOOLEAN
    BY DEF TypeOK
  <1>2. CASE final[k] # "none" /\ final[k] # "refused"
    BY <1>1, <1>2 DEF FinalSignal, group
  <1>3. CASE KillHandles(k)
    <2>1. leader' \in [Kids -> States] /\ anchor' \in [Kids -> States] /\ kin' = kin
      BY <1>1, <1>3, KilledState DEF KillHandles
    <2>2. final' \in [Kids -> {"none", "sent", "refused"}]
      BY <1>1 DEF FinalSignal
    <2>3. stray' \in BOOLEAN
      BY <1>1, Zenon DEF FinalSignal, Reaches
    <2>4. QED
      BY <1>1, <2>1, <2>2, <2>3
  <1>4. CASE KillGroup(k)
    <2>1. leader' \in [Kids -> States] /\ anchor' \in [Kids -> States]
          /\ kin' \in [Kids -> States \ {"zombie"}]
      BY <1>1, <1>4, KilledState DEF KillGroup
    <2>2. final' \in [Kids -> {"none", "sent", "refused"}]
      BY <1>1 DEF FinalSignal
    <2>3. stray' \in BOOLEAN
      BY <1>1, Zenon DEF FinalSignal, Reaches
    <2>4. QED
      BY <2>1, <2>2, <2>3
  <1>5. QED
    BY <1>2, <1>3, <1>4 DEF FinalSignal

\* Dropping the receiver keeps them too.
LEMMA UnsubscribeTypes ==
  ASSUME TypeOK, NEW k \in Kids, Unsubscribe(k)
  PROVE  /\ subs' \in [Pids -> Kids \cup {Free, Orphan}]
         /\ seen' \in [Kids -> {"waiting", "exited", "failed"}]
  BY DEF TypeOK, Unsubscribe

\* A finalization begins with every type in place (finalize_group_and_reap).
LEMMA FinalizeTypes ==
  ASSUME TypeOK, NEW k \in Kids, NEW who \in {"natural", "terminate", "cleanup", "detached"},
         Finalize(k, who)
  PROVE  /\ leader' \in [Kids -> States]
         /\ anchor' \in [Kids -> States]
         /\ kin' \in [Kids -> States \ {"zombie"}]
         /\ final' \in [Kids -> {"none", "sent", "refused"}]
         /\ stray' \in BOOLEAN
         /\ subs' \in [Pids -> Kids \cup {Free, Orphan}]
         /\ seen' \in [Kids -> {"waiting", "exited", "failed"}]
         /\ pc' \in [Kids -> {"over", "arming", "watch", "grace", "settled"} \cup Finalizing]
         /\ via' \in [Kids -> {"none", "natural", "terminate", "cleanup", "detached"}]
         /\ failed' \in [Kids -> BOOLEAN]
         /\ \A j \in Kids : pc'[j] = "settled" => j # k /\ pc[j] = "settled"
  <1>1. FinalSignal(k) /\ Unsubscribe(k)
    BY DEF Finalize
  <1>2. /\ pc' \in [Kids -> {"over", "arming", "watch", "grace", "settled"} \cup Finalizing]
        /\ via' \in [Kids -> {"none", "natural", "terminate", "cleanup", "detached"}]
        /\ failed' \in [Kids -> BOOLEAN]
        /\ \A j \in Kids : pc'[j] = "settled" => j # k /\ pc[j] = "settled"
    BY DEF Finalize, TypeOK, Finalizing
  <1>3. QED
    BY <1>1, <1>2, FinalSignalTypes, UnsubscribeTypes

\* So does the end of a child's value (BoundaryChild's Drop).
LEMMA ReleaseTypes ==
  ASSUME TypeOK, NEW k \in Kids, Release(k), UNCHANGED <<pid, foreign, fatal, poll>>
  PROVE  TypeOK'
  <1>1. /\ spoiled' \in [Kids -> BOOLEAN]
        /\ cleaned' \in [Kids -> BOOLEAN]
        /\ verdict' \in [Kids -> {"none", "ok", "error"}]
        /\ \A j \in Kids : j # k => verdict'[j] = verdict[j]
    BY DEF Release, Forget, TypeOK
  <1>2. CASE cleaned[k]
    <2>1. Over(k) /\ Unsubscribe(k)
      BY <1>2 DEF Release
    <2>2. /\ pc' \in [Kids -> {"over", "arming", "watch", "grace", "settled"} \cup Finalizing]
          /\ via' \in [Kids -> {"none", "natural", "terminate", "cleanup", "detached"}]
          /\ failed' \in [Kids -> BOOLEAN]
          /\ \A j \in Kids : pc'[j] = "settled" => j # k /\ pc[j] = "settled"
      BY <2>1 DEF Over, TypeOK
    <2>3. final' \in [Kids -> {"none", "sent", "refused"}] /\ UNCHANGED <<group, stray>>
      BY <1>2 DEF Release, TypeOK
    <2>4. QED
      BY <1>1, <2>1, <2>2, <2>3, UnsubscribeTypes DEF TypeOK, group
  <1>3. CASE ~cleaned[k]
    <2>1. Finalize(k, "detached")
      BY <1>3 DEF Release
    <2>2. QED
      BY <1>1, <2>1, FinalizeTypes DEF TypeOK
  <1>4. QED
    BY <1>2, <1>3

\* The last step of a finalization keeps every type (finalize_owned_group's end).
LEMMA ConcludeTypes ==
  ASSUME TypeOK, NEW k \in Kids, NEW done \in BOOLEAN, Conclude(k, done),
         UNCHANGED <<pid, group, foreign, spoiled, seen, observer, stray>>
  PROVE  TypeOK'
  <1>1. CASE via[k] = "detached"
    <2>1. Over(k) /\ UNCHANGED <<cleaned, verdict>>
      BY <1>1 DEF Conclude
    <2>2. final' \in [Kids -> {"none", "sent", "refused"}]
      BY <1>1 DEF Conclude, TypeOK
    <2>3. QED
      BY <2>1, <2>2 DEF Over, TypeOK, group, observer
  <1>2. CASE via[k] # "detached"
    <2>1. cleaned' \in [Kids -> BOOLEAN]
      BY <1>2, Zenon DEF Conclude, TypeOK
    <2>2. /\ verdict' \in [Kids -> {"none", "ok", "error"}]
          /\ verdict'[k] # "none"
          /\ \A j \in Kids : j # k => verdict'[j] = verdict[j]
      BY <1>2 DEF Conclude, TypeOK
    <2>3. /\ pc' \in [Kids -> {"over", "arming", "watch", "grace", "settled"} \cup Finalizing]
          /\ failed' \in [Kids -> BOOLEAN]
          /\ UNCHANGED <<via, final>>
          /\ \A j \in Kids : j # k => pc'[j] = pc[j]
      BY <1>2 DEF Conclude, TypeOK
    <2>4. QED
      BY <2>1, <2>2, <2>3 DEF TypeOK, group, observer
  <1>3. QED
    BY <1>1, <1>2

\* Every step of the owner keeps the types.
LEMMA OwnerTypes ==
  ASSUME TypeOK, NEW k \in Kids, Owner(k)
  PROVE  TypeOK'
  <1>1. ASSUME NEW p \in Pids, Spawn(k, p) PROVE TypeOK'
    BY <1>1 DEF TypeOK, Spawn, observer, States
  <1>2. CASE Arm(k)
    BY <1>2 DEF TypeOK, Arm, group, outcome
  <1>3. CASE ArmFails(k)
    <2>1. stray' \in BOOLEAN
      BY <1>3, Zenon DEF TypeOK, ArmFails, Reaches
    <2>2. /\ leader' \in [Kids -> States]
          /\ anchor' \in [Kids -> States]
          /\ kin' \in [Kids -> States \ {"zombie"}]
      BY <1>3, KilledState DEF TypeOK, ArmFails, KillGroup
    <2>3. subs' \in [Pids -> Kids \cup {Free, Orphan}]
      BY <1>3 DEF TypeOK, ArmFails
    <2>4. QED
      BY <1>3, <2>1, <2>2, <2>3 DEF TypeOK, ArmFails, outcome
  <1>4. CASE Exited(k)
    BY <1>4, FinalizeTypes DEF TypeOK, Exited
  <1>5. CASE WaitFails(k)
    BY <1>5 DEF TypeOK, WaitFails, group, observer
  <1>6. CASE Terminate(k)
    <2>1. CASE final[k] # "none"
      BY <1>6, <2>1, FinalizeTypes DEF TypeOK, Terminate
    <2>2. CASE final[k] = "none"
      <3>1. stray' \in BOOLEAN
        BY <1>6, <2>2, Zenon DEF TypeOK, Terminate, Reaches
      <3>2. QED
        BY <1>6, <2>2, <3>1 DEF TypeOK, Terminate, group, outcome, observer
    <2>3. QED
      BY <2>1, <2>2
  <1>7. CASE GraceEnds(k)
    <2>1. Finalize(k, "terminate") /\ UNCHANGED <<pid, foreign, cleaned, verdict, fatal, poll>>
      BY <1>7 DEF GraceEnds
    <2>2. spoiled' \in [Kids -> BOOLEAN]
      BY <1>7 DEF GraceEnds, TypeOK
    <2>3. QED
      BY <2>1, <2>2, FinalizeTypes DEF TypeOK
  <1>8. CASE ReapLeader(k)
    <2>1. leader' \in [Kids -> States] /\ failed' \in [Kids -> BOOLEAN]
      <3>1. leader \in [Kids -> States] /\ failed \in [Kids -> BOOLEAN]
        BY DEF TypeOK
      <3>2. "gone" \in States
        BY DEF States
      <3>3. \/ leader' = [leader EXCEPT ![k] = "gone"] /\ failed' = failed
            \/ leader' = leader /\ failed' = [failed EXCEPT ![k] = TRUE]
        BY <1>8 DEF ReapLeader
      <3>4. QED
        BY <3>1, <3>2, <3>3, Zenon
    <2>2. /\ pc' \in [Kids -> {"over", "arming", "watch", "grace", "settled"} \cup Finalizing]
          /\ \A j \in Kids : pc'[j] = "settled" => pc[j] = "settled"
      BY <1>8 DEF TypeOK, ReapLeader, Finalizing
    <2>3. QED
      BY <1>8, <2>1, <2>2 DEF TypeOK, ReapLeader, observer
  <1>9. CASE ReapAnchor(k)
    <2>1. anchor' \in [Kids -> States] /\ failed' \in [Kids -> BOOLEAN]
      <3>1. anchor \in [Kids -> States] /\ failed \in [Kids -> BOOLEAN]
        BY DEF TypeOK
      <3>2. "gone" \in States
        BY DEF States
      <3>3. \/ anchor' = [anchor EXCEPT ![k] = "gone"] /\ failed' = failed
            \/ anchor' = anchor /\ failed' = [failed EXCEPT ![k] = TRUE]
        BY <1>9 DEF ReapAnchor
      <3>4. QED
        BY <3>1, <3>2, <3>3, Zenon
    <2>2. /\ pc' \in [Kids -> {"over", "arming", "watch", "grace", "settled"} \cup Finalizing]
          /\ \A j \in Kids : pc'[j] = "settled" => pc[j] = "settled"
      BY <1>9 DEF TypeOK, ReapAnchor, Finalizing
    <2>3. QED
      BY <1>9, <2>1, <2>2 DEF TypeOK, ReapAnchor, observer
  <1>10. CASE Probe(k)
    <2>1. (~failed[k]) \in BOOLEAN
      OBVIOUS
    <2>2. QED
      BY <1>10, <2>1, ConcludeTypes DEF Probe
  <1>11. CASE OutputDeadline(k)
    <2>1. Finalize(k, "cleanup") /\ UNCHANGED <<pid, foreign, cleaned, fatal, poll>>
      BY <1>11 DEF OutputDeadline
    <2>2. /\ spoiled' \in [Kids -> BOOLEAN]
          /\ verdict' \in [Kids -> {"none", "ok", "error"}]
          /\ \A j \in Kids : j # k => verdict'[j] = verdict[j]
      BY <1>11 DEF OutputDeadline, TypeOK
    <2>3. QED
      BY <2>1, <2>2, FinalizeTypes DEF TypeOK
  <1>12. CASE Return(k)
    BY <1>12, ReleaseTypes DEF Return
  <1>13. CASE DropFuture(k)
    BY <1>13, ReleaseTypes DEF DropFuture
  <1>14. CASE DropAtShutdown(k)
    <2>1. FinalSignal(k) /\ Unsubscribe(k) /\ UNCHANGED <<pid, foreign, fatal, poll>>
      BY <1>14 DEF DropAtShutdown
    <2>2. /\ pc' \in [Kids -> {"over", "arming", "watch", "grace", "settled"} \cup Finalizing]
          /\ via' \in [Kids -> {"none", "natural", "terminate", "cleanup", "detached"}]
          /\ failed' \in [Kids -> BOOLEAN]
          /\ spoiled' \in [Kids -> BOOLEAN]
          /\ cleaned' \in [Kids -> BOOLEAN]
          /\ verdict' \in [Kids -> {"none", "ok", "error"}]
          /\ \A j \in Kids : pc'[j] = "settled" => verdict'[j] # "none"
      BY <1>14 DEF DropAtShutdown, Over, Forget, TypeOK
    <2>3. QED
      BY <2>1, <2>2, FinalSignalTypes, UnsubscribeTypes DEF TypeOK
  <1>15. CASE ReapOrphan(k)
    BY <1>15 DEF TypeOK, ReapOrphan, outcome, observer, States
  <1>16. QED
    BY <1>1, <1>2, <1>3, <1>4, <1>5, <1>6, <1>7, <1>8, <1>9, <1>10, <1>11, <1>12, <1>13,
       <1>14, <1>15 DEF Owner

\* Every step of the service and of the system keeps the types.
LEMMA OtherTypes ==
  ASSUME TypeOK,
         \/ \E k \in Kids : System(k)
         \/ \E p \in Pids : Poll(p) \/ TakePid(p) \/ ReleasePid(p)
         \/ Send \/ ObserverFails
  PROVE  TypeOK'
  <1>1. ASSUME NEW k \in Kids, LeaderEnds(k) PROVE TypeOK'
    BY <1>1 DEF TypeOK, LeaderEnds, outcome, observer, States
  <1>2. ASSUME NEW k \in Kids, AnchorEnds(k) PROVE TypeOK'
    BY <1>2 DEF TypeOK, AnchorEnds, outcome, observer, States
  <1>3. ASSUME NEW k \in Kids, Forks(k) PROVE TypeOK'
    BY <1>3 DEF TypeOK, Forks, outcome, observer, States
  <1>4. ASSUME NEW k \in Kids, KinEnds(k) PROVE TypeOK'
    BY <1>4 DEF TypeOK, KinEnds, outcome, observer, States
  <1>5. ASSUME NEW p \in Pids, Poll(p) PROVE TypeOK'
    <2>1. ExitState(p) \in {"waiting", "exited", "failed"}
      BY DEF ExitState
    <2>2. poll' \in [pid : Pids \cup {NoPid}, state : {"waiting", "exited", "failed"}]
      BY <1>5, <2>1 DEF Poll
    <2>3. QED
      BY <1>5, <2>2 DEF TypeOK, Poll, group, outcome
  <1>6. ASSUME NEW p \in Pids, TakePid(p) PROVE TypeOK'
    BY <1>6 DEF TypeOK, TakePid, group, outcome, observer
  <1>7. ASSUME NEW p \in Pids, ReleasePid(p) PROVE TypeOK'
    BY <1>7 DEF TypeOK, ReleasePid, group, outcome, observer
  <1>8. CASE Send
    <2>1. seen' \in [Kids -> {"waiting", "exited", "failed"}]
      BY <1>8 DEF TypeOK, Send
    <2>2. subs' \in [Pids -> Kids \cup {Free, Orphan}]
      BY <1>8 DEF TypeOK, Send
    <2>3. poll' \in [pid : Pids \cup {NoPid}, state : {"waiting", "exited", "failed"}]
      BY <1>8 DEF Send
    <2>4. QED
      BY <1>8, <2>1, <2>2, <2>3 DEF TypeOK, Send, group, outcome
  <1>9. CASE ObserverFails
    BY <1>9 DEF TypeOK, ObserverFails, group, outcome
  <1>10. QED
    BY <1>1, <1>2, <1>3, <1>4, <1>5, <1>6, <1>7, <1>8, <1>9 DEF System

\* Boundary's variables keep their types, and a lifecycle that has ended has a verdict,
\* whatever children there are.
THEOREM TypeCorrect == Spec => []TypeOK
  <1>1. Init => TypeOK
    <2>1. SUFFICES ASSUME Init PROVE TypeOK
      OBVIOUS
    <2>2. poll \in [pid : Pids \cup {NoPid}, state : {"waiting", "exited", "failed"}]
      BY <2>1 DEF Init
    <2>3. /\ pid \in [Kids -> Pids \cup {NoPid}]
          /\ leader \in [Kids -> States]
          /\ anchor \in [Kids -> States]
          /\ kin \in [Kids -> States \ {"zombie"}]
          /\ foreign \subseteq Pids
      BY <2>1 DEF Init, States
    <2>4. /\ pc \in [Kids -> {"over", "arming", "watch", "grace", "settled"} \cup Finalizing]
          /\ via \in [Kids -> {"none", "natural", "terminate", "cleanup", "detached"}]
          /\ final \in [Kids -> {"none", "sent", "refused"}]
          /\ verdict \in [Kids -> {"none", "ok", "error"}]
          /\ seen \in [Kids -> {"waiting", "exited", "failed"}]
          /\ subs \in [Pids -> Kids \cup {Free, Orphan}]
      BY <2>1 DEF Init
    <2>5. /\ failed \in [Kids -> BOOLEAN]
          /\ spoiled \in [Kids -> BOOLEAN]
          /\ cleaned \in [Kids -> BOOLEAN]
      BY <2>1 DEF Init
    <2>6. fatal \in BOOLEAN /\ stray \in BOOLEAN
      BY <2>1 DEF Init
    <2>7. \A k \in Kids : pc[k] = "settled" => verdict[k] # "none"
      BY <2>1 DEF Init
    <2>8. QED
      BY <2>2, <2>3, <2>4, <2>5, <2>6, <2>7 DEF TypeOK
  <1>2. TypeOK /\ [Next]_vars => TypeOK'
    <2>1. CASE UNCHANGED vars
      BY <2>1 DEF TypeOK, vars, group, outcome, observer
    <2>2. QED
      BY <2>1, OwnerTypes, OtherTypes DEF Next
  <1>3. QED
    BY <1>1, <1>2, PTL DEF Spec

-----------------------------------------------------------------------------
(***************************************************************************)
(* Signals.                                                                *)
(***************************************************************************)

\* Until the final signal has been sent the leader is not reaped, so that the number is
\* the child's own; and a child is not finalized before that signal.
Pinned ==
  \A k \in Kids :
    /\ pc[k] # "over" /\ final[k] = "none" => leader[k] # "gone" /\ pc[k] \notin Finalizing
    /\ pc[k] = "arming" => final[k] = "none"

SignalInv == TypeOK /\ Pinned /\ NoStraySignal

\* A kill makes no process appear or disappear, and leaves a zombie what it is.
LEMMA KillsKeepMembers ==
  ASSUME TypeOK, NEW k \in Kids, KillGroup(k) \/ KillHandles(k) \/ UNCHANGED group
  PROVE  \A j \in Kids :
           /\ leader'[j] = "gone" <=> leader[j] = "gone"
           /\ anchor'[j] = "gone" <=> anchor[j] = "gone"
           /\ kin'[j] = "gone" <=> kin[j] = "gone"
           /\ leader'[j] = "zombie" <=> leader[j] = "zombie"
  BY DEF TypeOK, KillGroup, KillHandles, group, Killed

\* The final signal is one of these kills.
LEMMA FinalSignalKills ==
  ASSUME NEW k \in Kids, FinalSignal(k)
  PROVE  KillGroup(k) \/ KillHandles(k) \/ UNCHANGED group
  BY DEF FinalSignal

\* A signal to a group whose leader is not reaped reaches no other.
LEMMA PinnedSignal ==
  ASSUME NEW k \in Kids, leader[k] # "gone", Reaches(k), NoStraySignal
  PROVE  NoStraySignal'
  <1>1. Present(k)
    BY DEF Present
  <1>2. QED
    BY <1>1, Zenon DEF Reaches, NoStraySignal

\* The final signal is sent to the child's own group, if it is sent at all.
LEMMA FinalSignalOwn ==
  ASSUME NEW k \in Kids, FinalSignal(k), NoStraySignal, final[k] = "none" => leader[k] # "gone"
  PROVE  NoStraySignal'
  <1>1. CASE final[k] # "none"
    BY <1>1 DEF FinalSignal, NoStraySignal
  <1>2. CASE final[k] = "none"
    BY <1>2, PinnedSignal DEF FinalSignal
  <1>3. QED
    BY <1>1, <1>2

\* After the final signal a child may be finalized (finalize_group_and_reap).
LEMMA FinalizePinned ==
  ASSUME SignalInv, NEW k \in Kids, NEW who, Finalize(k, who), pc[k] # "over"
  PROVE  Pinned' /\ NoStraySignal'
  <1>1. FinalSignal(k)
    BY DEF Finalize
  <1>2. NoStraySignal'
    BY <1>1, FinalSignalOwn DEF SignalInv, Pinned
  <1>3. final'[k] # "none" /\ \A j \in Kids \ {k} : final'[j] = final[j]
    BY <1>1 DEF FinalSignal, SignalInv, TypeOK
  <1>4. pc'[k] = "leader" /\ \A j \in Kids \ {k} : pc'[j] = pc[j]
    BY DEF Finalize, SignalInv, TypeOK
  <1>5. \A j \in Kids : leader'[j] = "gone" <=> leader[j] = "gone"
    BY <1>1, FinalSignalKills, KillsKeepMembers DEF SignalInv
  <1>6. QED
    BY <1>2, <1>3, <1>4, <1>5 DEF SignalInv, Pinned

\* So may one whose value is dropped.
LEMMA ReleasePinned ==
  ASSUME SignalInv, NEW k \in Kids, Release(k), pc[k] # "over"
  PROVE  Pinned' /\ NoStraySignal'
  <1>1. CASE cleaned[k]
    BY <1>1 DEF SignalInv, TypeOK, Pinned, NoStraySignal, Release, Over, group
  <1>2. CASE ~cleaned[k]
    BY <1>2, FinalizePinned DEF Release
  <1>3. QED
    BY <1>1, <1>2

LEMMA SignalInvStep ==
  ASSUME SignalInv, [Next]_vars
  PROVE  Pinned' /\ NoStraySignal'
  <1> USE DEF SignalInv
  <1>1. CASE UNCHANGED vars
    BY <1>1 DEF Pinned, NoStraySignal, vars, group
  <1>2. ASSUME NEW k \in Kids, NEW p \in Pids, Spawn(k, p) PROVE Pinned' /\ NoStraySignal'
    BY <1>2 DEF TypeOK, Pinned, NoStraySignal, Spawn, Finalizing
  <1>3. ASSUME NEW k \in Kids, Arm(k) PROVE Pinned' /\ NoStraySignal'
    BY <1>3 DEF TypeOK, Pinned, NoStraySignal, Arm, Finalizing, group
  <1>4. ASSUME NEW k \in Kids, ArmFails(k) PROVE Pinned' /\ NoStraySignal'
    <2>1. NoStraySignal'
      BY <1>4, PinnedSignal DEF ArmFails, Pinned
    <2>2. \A j \in Kids : leader'[j] = "gone" <=> leader[j] = "gone"
      BY <1>4, KillsKeepMembers DEF ArmFails
    <2>3. QED
      BY <1>4, <2>1, <2>2 DEF TypeOK, Pinned, ArmFails
  <1>5. ASSUME NEW k \in Kids, Exited(k) PROVE Pinned' /\ NoStraySignal'
    BY <1>5, FinalizePinned DEF Exited
  <1>6. ASSUME NEW k \in Kids, WaitFails(k) PROVE Pinned' /\ NoStraySignal'
    BY <1>6 DEF TypeOK, Pinned, NoStraySignal, WaitFails, Finalizing, group
  <1>7. ASSUME NEW k \in Kids, Terminate(k) PROVE Pinned' /\ NoStraySignal'
    <2>1. pc[k] # "over"
      BY <1>7 DEF Terminate, Interruptible, Finalizing
    <2>2. CASE final[k] # "none"
      BY <1>7, <2>1, <2>2, FinalizePinned DEF Terminate
    <2>3. CASE final[k] = "none"
      <3>1. NoStraySignal'
        BY <1>7, <2>1, <2>3, PinnedSignal DEF Terminate, Pinned
      <3>2. QED
        BY <1>7, <2>1, <2>3, <3>1 DEF TypeOK, Pinned, Terminate, Finalizing, group
    <2>4. QED
      BY <2>2, <2>3
  <1>8. ASSUME NEW k \in Kids, GraceEnds(k) PROVE Pinned' /\ NoStraySignal'
    BY <1>8, FinalizePinned DEF GraceEnds
  <1>9. ASSUME NEW k \in Kids, ReapLeader(k) PROVE Pinned' /\ NoStraySignal'
    BY <1>9 DEF TypeOK, Pinned, NoStraySignal, ReapLeader, Finalizing
  <1>10. ASSUME NEW k \in Kids, ReapAnchor(k) PROVE Pinned' /\ NoStraySignal'
    BY <1>10 DEF TypeOK, Pinned, NoStraySignal, ReapAnchor, Finalizing
  <1>11. ASSUME NEW k \in Kids, Probe(k) PROVE Pinned' /\ NoStraySignal'
    BY <1>11 DEF TypeOK, Pinned, NoStraySignal, Probe, Conclude, Over, Finalizing, group
  <1>12. ASSUME NEW k \in Kids, OutputDeadline(k) PROVE Pinned' /\ NoStraySignal'
    BY <1>12, FinalizePinned DEF OutputDeadline, Finalizing
  <1>13. ASSUME NEW k \in Kids, Return(k) PROVE Pinned' /\ NoStraySignal'
    BY <1>13, ReleasePinned DEF Return
  <1>14. ASSUME NEW k \in Kids, DropFuture(k) PROVE Pinned' /\ NoStraySignal'
    BY <1>14, ReleasePinned DEF DropFuture, Running, Finalizing
  <1>15. ASSUME NEW k \in Kids, DropAtShutdown(k) PROVE Pinned' /\ NoStraySignal'
    <2>1. FinalSignal(k) /\ Over(k) /\ pc[k] # "over"
      BY <1>15 DEF DropAtShutdown, Running, Finalizing
    <2>2. NoStraySignal'
      BY <2>1, FinalSignalOwn DEF Pinned
    <2>3. \A j \in Kids : leader'[j] = "gone" <=> leader[j] = "gone"
      BY <2>1, FinalSignalKills, KillsKeepMembers
    <2>4. \A j \in Kids \ {k} : final'[j] = final[j]
      BY <2>1 DEF FinalSignal, TypeOK
    <2>5. QED
      BY <2>1, <2>2, <2>3, <2>4 DEF TypeOK, Pinned, Over
  <1>16. ASSUME NEW k \in Kids, ReapOrphan(k) PROVE Pinned' /\ NoStraySignal'
    BY <1>16 DEF TypeOK, Pinned, NoStraySignal, ReapOrphan
  <1>17. ASSUME NEW k \in Kids, System(k) PROVE Pinned' /\ NoStraySignal'
    BY <1>17 DEF TypeOK, Pinned, NoStraySignal, System, LeaderEnds, AnchorEnds, Forks, KinEnds
  <1>18. ASSUME NEW p \in Pids, Poll(p) \/ TakePid(p) \/ ReleasePid(p)
         PROVE  Pinned' /\ NoStraySignal'
    BY <1>18 DEF Pinned, NoStraySignal, Poll, TakePid, ReleasePid, group
  <1>19. CASE Send \/ ObserverFails
    BY <1>19 DEF Pinned, NoStraySignal, Send, ObserverFails, group
  <1>20. QED
    BY <1>1, <1>2, <1>3, <1>4, <1>5, <1>6, <1>7, <1>8, <1>9, <1>10, <1>11, <1>12, <1>13,
       <1>14, <1>15, <1>16, <1>17, <1>18, <1>19 DEF Next, Owner

\* No signal reaches a group that is not the sender's (terminate_group,
\* issue_final_group_signal and Drop), for any children and numbers and however the
\* system reuses a number.
THEOREM SignalsCorrect == Spec => []NoStraySignal
  <1>1. Init => Pinned /\ NoStraySignal
    BY DEF Init, Pinned, NoStraySignal
  <1>2. TypeOK /\ Pinned /\ NoStraySignal /\ [Next]_vars => Pinned' /\ NoStraySignal'
    BY SignalInvStep DEF SignalInv
  <1>3. QED
    BY <1>1, <1>2, TypeCorrect, PTL DEF Spec

-----------------------------------------------------------------------------
(***************************************************************************)
(* What Ok means.                                                          *)
(***************************************************************************)

\* A child that is being spawned, that nobody has or that its owner has dropped has no
\* verdict.
Released ==
  \A k \in Kids :
    /\ pc[k] \in {"over", "arming"} \/ via[k] = "detached" => verdict[k] = "none"
    /\ via[k] = "detached" => pc[k] \in Finalizing

OkInv == TypeOK /\ Released /\ OkMeansGone

\* No process joins a group by a kill.
LEMMA KillsAddNothing ==
  ASSUME TypeOK, NEW k \in Kids, FinalSignal(k) \/ KillGroup(k)
  PROVE  \A j \in Kids : Present(j)' <=> Present(j)
  BY FinalSignalKills, KillsKeepMembers DEF Present

\* A finalization that its owner waits for keeps what is known of the verdicts.
LEMMA FinalizeOk ==
  ASSUME OkInv, NEW k \in Kids, NEW who \in {"natural", "terminate", "cleanup"},
         Finalize(k, who), UNCHANGED verdict \/ verdict' = [verdict EXCEPT ![k] = "none"]
  PROVE  Released' /\ OkMeansGone'
  <1>1. \A j \in Kids : Present(j)' <=> Present(j)
    BY KillsAddNothing DEF Finalize, OkInv
  <1>2. \A j \in Kids : verdict'[j] = verdict[j] \/ verdict'[j] = "none"
    BY DEF OkInv, TypeOK
  <1>3. OkMeansGone'
    BY <1>1, <1>2 DEF OkInv, OkMeansGone
  <1>4. Released'
    BY <1>2 DEF OkInv, Released, Finalize, TypeOK, Finalizing
  <1>5. QED
    BY <1>3, <1>4

\* So does the end of a child's value, which forgets its verdict.
LEMMA ReleaseOk ==
  ASSUME OkInv, NEW k \in Kids, Release(k)
  PROVE  Released' /\ OkMeansGone'
  <1>1. verdict' = [verdict EXCEPT ![k] = "none"]
    BY DEF Release, Forget
  <1>2. \A j \in Kids : verdict'[j] = verdict[j] \/ verdict'[j] = "none"
    BY <1>1 DEF OkInv, TypeOK
  <1>3. \A j \in Kids : Present(j)' <=> Present(j)
    <2>1. CASE cleaned[k]
      BY <2>1 DEF Release, group, Present
    <2>2. CASE ~cleaned[k]
      BY <2>2, KillsAddNothing DEF Release, Finalize, OkInv
    <2>3. QED
      BY <2>1, <2>2
  <1>4. OkMeansGone'
    BY <1>2, <1>3 DEF OkInv, OkMeansGone
  <1>5. Released'
    <2>1. CASE cleaned[k]
      BY <1>1, <2>1 DEF Release, Over, OkInv, Released, TypeOK
    <2>2. CASE ~cleaned[k]
      BY <1>1, <2>2 DEF Release, Finalize, OkInv, Released, TypeOK, Finalizing
    <2>3. QED
      BY <2>1, <2>2
  <1>6. QED
    BY <1>4, <1>5

LEMMA OkInvStep ==
  ASSUME OkInv, [Next]_vars
  PROVE  Released' /\ OkMeansGone'
  <1> USE DEF OkInv
  <1>1. CASE UNCHANGED vars
    BY <1>1 DEF Released, OkMeansGone, Present, vars, group, outcome
  <1>2. ASSUME NEW k \in Kids, NEW p \in Pids, Spawn(k, p) PROVE Released' /\ OkMeansGone'
    BY <1>2 DEF TypeOK, Released, OkMeansGone, Present, Spawn, Finalizing
  <1>3. ASSUME NEW k \in Kids, Arm(k) PROVE Released' /\ OkMeansGone'
    BY <1>3 DEF TypeOK, Released, OkMeansGone, Present, Arm, Finalizing, group, outcome
  <1>4. ASSUME NEW k \in Kids, ArmFails(k) PROVE Released' /\ OkMeansGone'
    <2>1. \A j \in Kids : Present(j)' <=> Present(j)
      BY <1>4, KillsAddNothing DEF ArmFails
    <2>2. verdict[k] = "none"
      BY <1>4 DEF ArmFails, Released, OkMeansGone
    <2>3. QED
      BY <1>4, <2>1, <2>2 DEF TypeOK, Released, OkMeansGone, ArmFails, outcome, Finalizing
  <1>5. ASSUME NEW k \in Kids, Exited(k) PROVE Released' /\ OkMeansGone'
    BY <1>5, FinalizeOk DEF Exited
  <1>6. ASSUME NEW k \in Kids, WaitFails(k) PROVE Released' /\ OkMeansGone'
    BY <1>6 DEF TypeOK, Released, OkMeansGone, Present, WaitFails, Finalizing, group
  <1>7. ASSUME NEW k \in Kids, Terminate(k) PROVE Released' /\ OkMeansGone'
    <2>1. CASE final[k] # "none"
      BY <1>7, <2>1, FinalizeOk DEF Terminate
    <2>2. CASE final[k] = "none"
      <3>1. via[k] # "detached"
        BY <1>7 DEF Terminate, Interruptible, Released, Finalizing
      <3>2. QED
        BY <1>7, <2>2, <3>1
        DEF TypeOK, Released, OkMeansGone, Present, Terminate, Finalizing, group, outcome
    <2>3. QED
      BY <2>1, <2>2
  <1>8. ASSUME NEW k \in Kids, GraceEnds(k) PROVE Released' /\ OkMeansGone'
    BY <1>8, FinalizeOk DEF GraceEnds
  <1>9. ASSUME NEW k \in Kids, ReapLeader(k) \/ ReapAnchor(k)
        PROVE  Released' /\ OkMeansGone'
    <2>1. \A j \in Kids : Present(j)' => Present(j)
      BY <1>9 DEF TypeOK, ReapLeader, ReapAnchor, Present
    <2>2. QED
      BY <1>9, <2>1 DEF TypeOK, Released, OkMeansGone, ReapLeader, ReapAnchor, Finalizing
  <1>10. ASSUME NEW k \in Kids, Probe(k) PROVE Released' /\ OkMeansGone'
    <2>1. \A j \in Kids : Present(j)' <=> Present(j)
      BY <1>10 DEF Probe, group, Present
    <2>2. CASE via[k] = "detached"
      BY <1>10, <2>1, <2>2 DEF TypeOK, Released, OkMeansGone, Probe, Conclude, Over
    <2>3. CASE via[k] # "detached"
      <3>1. verdict'[k] = "ok" => ~Held(pid[k])
        BY <1>10, <2>3 DEF TypeOK, Probe, Conclude
      <3>2. verdict'[k] = "ok" => ~Present(k)
        BY <3>1 DEF Held
      <3>3. /\ \A j \in Kids \ {k} : verdict'[j] = verdict[j] /\ pc'[j] = pc[j]
            /\ pc'[k] = "settled"
            /\ UNCHANGED via
        BY <1>10, <2>3 DEF TypeOK, Probe, Conclude
      <3>4. QED
        BY <2>1, <2>3, <3>2, <3>3 DEF Released, OkMeansGone
    <2>4. QED
      BY <2>2, <2>3
  <1>11. ASSUME NEW k \in Kids, OutputDeadline(k) PROVE Released' /\ OkMeansGone'
    BY <1>11, FinalizeOk DEF OutputDeadline
  <1>12. ASSUME NEW k \in Kids, Return(k) \/ DropFuture(k) PROVE Released' /\ OkMeansGone'
    BY <1>12, ReleaseOk DEF Return, DropFuture
  <1>13. ASSUME NEW k \in Kids, DropAtShutdown(k) PROVE Released' /\ OkMeansGone'
    <2>1. \A j \in Kids : Present(j)' <=> Present(j)
      BY <1>13, KillsAddNothing DEF DropAtShutdown
    <2>2. verdict' = [verdict EXCEPT ![k] = "none"] /\ Over(k)
      BY <1>13 DEF DropAtShutdown, Forget
    <2>3. QED
      BY <2>1, <2>2 DEF TypeOK, Released, OkMeansGone, Over
  <1>14. ASSUME NEW k \in Kids, ReapOrphan(k) \/ System(k) PROVE Released' /\ OkMeansGone'
    <2>1. \A j \in Kids : Present(j)' => Present(j)
      BY <1>14
      DEF TypeOK, ReapOrphan, System, LeaderEnds, AnchorEnds, Forks, KinEnds, Present
    <2>2. UNCHANGED <<pc, via, verdict>>
      BY <1>14 DEF ReapOrphan, System, LeaderEnds, AnchorEnds, Forks, KinEnds, outcome
    <2>3. QED
      BY <2>1, <2>2 DEF Released, OkMeansGone
  <1>15. ASSUME NEW p \in Pids, Poll(p) \/ TakePid(p) \/ ReleasePid(p)
         PROVE  Released' /\ OkMeansGone'
    BY <1>15 DEF Released, OkMeansGone, Present, Poll, TakePid, ReleasePid, group, outcome
  <1>16. CASE Send \/ ObserverFails
    BY <1>16 DEF Released, OkMeansGone, Present, Send, ObserverFails, group, outcome
  <1>17. QED
    BY <1>1, <1>2, <1>3, <1>4, <1>5, <1>6, <1>7, <1>8, <1>9, <1>10, <1>11, <1>12, <1>13,
       <1>14, <1>15, <1>16 DEF Next, Owner

\* A lifecycle that ends with Ok has left nothing of its group behind
\* (finalize_owned_group), for any children and numbers.
THEOREM OkCorrect == Spec => []OkMeansGone
  <1>1. Init => Released /\ OkMeansGone
    BY DEF Init, Released, OkMeansGone
  <1>2. TypeOK /\ Released /\ OkMeansGone /\ [Next]_vars => Released' /\ OkMeansGone'
    BY OkInvStep DEF OkInv
  <1>3. QED
    BY <1>1, <1>2, TypeCorrect, PTL DEF Spec

-----------------------------------------------------------------------------
(***************************************************************************)
(* Exit observations.                                                      *)
(***************************************************************************)

\* Two groups never share a number.
Exclusive ==
  \A j, k \in Kids : j # k /\ pid[j] = pid[k] => ~(Present(j) /\ Present(k))

\* A child that has a sender registered has it under its own number, is not reaped and
\* still waits.
Subscribed ==
  \A p \in Pids, k \in Kids :
    subs[p] = k => pid[k] = p /\ leader[k] # "gone" /\ pc[k] \in {"watch", "grace", "settled"}

\* What the service has polled and not sent is still true of the child it will be sent to.
PollSound ==
  poll.pid \in Pids =>
    /\ subs[poll.pid] # Free
    /\ poll.state = "exited" =>
         \A k \in Kids : subs[poll.pid] = k => leader[k] = "zombie"

\* A child that does not wait has been told nothing.
Unseen ==
  \A k \in Kids : pc[k] \in {"over", "arming"} \cup Finalizing => seen[k] = "waiting"

\* A child that is being spawned has a number and a leader.
Armed == \A k \in Kids : pc[k] = "arming" => pid[k] \in Pids /\ leader[k] # "gone"

ObserverInv ==
  TypeOK /\ Exclusive /\ Armed /\ Subscribed /\ PollSound /\ Unseen /\ ObservedIsOwn

ObserverGoal ==
  Exclusive' /\ Armed' /\ Subscribed' /\ PollSound' /\ Unseen' /\ ObservedIsOwn'

\* A step that leaves numbers, subscriptions and observations alone, adds no process,
\* reaps no leader that has a sender and moves no waiting child out of its wait.
LEMMA QuietForObserver ==
  ASSUME ObserverInv, TypeOK',
         UNCHANGED <<pid, subs, poll, seen>>,
         \A j \in Kids : Present(j)' => Present(j),
         \A j \in Kids : leader[j] = "zombie" /\ leader'[j] # "zombie"
                          => pc[j] \notin {"watch", "grace", "settled"},
         \A j \in Kids : leader'[j] = "gone" /\ leader[j] # "gone"
                          => pc[j] \notin {"arming", "watch", "grace", "settled"},
         \A j \in Kids : pc'[j] = "arming" => pc[j] = "arming",
         \A j \in Kids : leader'[j] \in {"running", "dying"}
                          => leader[j] \in {"running", "dying"},
         \A j \in Kids : pc[j] \in {"watch", "grace", "settled"}
                          => pc'[j] \in {"watch", "grace", "settled"},
         \A j \in Kids : pc'[j] \in {"over", "arming"} \cup Finalizing
                          => seen[j] = "waiting"
  PROVE  ObserverGoal
  <1> USE DEF ObserverInv
  <1>1. Exclusive'
    BY DEF Exclusive
  <1>2. Subscribed'
    BY DEF Subscribed
  <1>3. PollSound'
    BY DEF PollSound, Subscribed
  <1>4. Unseen'
    BY DEF Unseen
  <1>5. ObservedIsOwn'
    BY DEF ObservedIsOwn
  <1>6. Armed'
    BY DEF Armed
  <1>7. QED
    BY <1>1, <1>2, <1>3, <1>4, <1>5, <1>6 DEF ObserverGoal

\* A step in which a child drops its receiver, kills what it kills and stops waiting.
LEMMA UnsubscribeForObserver ==
  ASSUME ObserverInv, TypeOK', NEW k \in Kids, Unsubscribe(k),
         FinalSignal(k) \/ UNCHANGED group,
         UNCHANGED <<pid, poll>>,
         pc'[k] # "arming",
         \A j \in Kids \ {k} : pc'[j] = pc[j]
  PROVE  ObserverGoal
  <1> USE DEF ObserverInv
  <1>1. \A j \in Kids : /\ leader'[j] = "gone" <=> leader[j] = "gone"
                        /\ anchor'[j] = "gone" <=> anchor[j] = "gone"
                        /\ kin'[j] = "gone" <=> kin[j] = "gone"
                        /\ leader'[j] = "zombie" <=> leader[j] = "zombie"
    BY FinalSignalKills, KillsKeepMembers
  <1>2. Exclusive'
    BY <1>1 DEF Exclusive, Present
  <1>3. /\ \A p \in Pids, j \in Kids : subs'[p] = j => subs[p] = j /\ j # k
        /\ \A p \in Pids : subs[p] # Free => subs'[p] # Free
    BY NamesAssumption DEF Unsubscribe
  <1>4. Subscribed'
    BY <1>1, <1>3 DEF Subscribed
  <1>5. PollSound'
    BY <1>1, <1>3 DEF PollSound
  <1>6. seen'[k] = "waiting" /\ \A j \in Kids \ {k} : seen'[j] = seen[j]
    BY DEF Unsubscribe, TypeOK
  <1>7. Unseen'
    BY <1>6 DEF Unseen
  <1>8. ObservedIsOwn'
    <2>1. \A j \in Kids : leader'[j] \in {"running", "dying"} => leader[j] \in {"running", "dying"}
      BY <1>1 DEF TypeOK, States
    <2>2. QED
      BY <1>6, <2>1 DEF ObservedIsOwn
  <1>9. Armed'
    BY <1>1 DEF Armed
  <1>10. QED
    BY <1>2, <1>4, <1>5, <1>7, <1>8, <1>9 DEF ObserverGoal

\* A finalization begins with the receiver dropped, and so does the end of a value.
LEMMA FinalizeForObserver ==
  ASSUME ObserverInv, TypeOK', NEW k \in Kids, UNCHANGED <<pid, poll>>,
         Release(k) \/ \E who \in {"natural", "terminate", "cleanup"} : Finalize(k, who)
  PROVE  ObserverGoal
  <1>1. Unsubscribe(k) /\ (FinalSignal(k) \/ UNCHANGED group)
    BY DEF Release, Finalize
  <1>2. pc'[k] # "arming" /\ \A j \in Kids \ {k} : pc'[j] = pc[j]
    BY DEF Release, Finalize, Over, ObserverInv, TypeOK
  <1>3. QED
    BY <1>1, <1>2, UnsubscribeForObserver

LEMMA ObserverInvStep ==
  ASSUME ObserverInv, TypeOK', [Next]_vars
  PROVE  ObserverGoal
  <1> USE DEF ObserverInv
  <1>1. CASE UNCHANGED vars
    BY <1>1
    DEF ObserverGoal, Exclusive, Armed, Subscribed, PollSound, Unseen, ObservedIsOwn, Present, vars,
        group, observer
  <1>2. ASSUME NEW k \in Kids, NEW p \in Pids, Spawn(k, p) PROVE ObserverGoal
    <2>1. /\ pid'[k] = p /\ leader'[k] = "running" /\ pc'[k] = "arming"
          /\ \A j \in Kids \ {k} : /\ pid'[j] = pid[j]
                                    /\ leader'[j] = leader[j]
                                    /\ anchor'[j] = anchor[j]
                                    /\ kin'[j] = kin[j]
                                    /\ pc'[j] = pc[j]
          /\ pc[k] = "over"
          /\ UNCHANGED <<seen, subs, poll>>
      BY <1>2 DEF TypeOK, Spawn, observer
    <2>2. \A j \in Kids : pid[j] = p => ~Present(j)
      BY <1>2 DEF Spawn, Held
    <2>3. Exclusive'
      BY <2>1, <2>2 DEF Exclusive, Present
    <2>4. \A q \in Pids : subs[q] # k
      BY <2>1 DEF Subscribed
    <2>5. Subscribed'
      BY <2>1, <2>4 DEF Subscribed
    <2>6. PollSound'
      BY <2>1, <2>4 DEF PollSound
    <2>7. seen[k] = "waiting"
      BY <2>1 DEF Unseen
    <2>8. Unseen' /\ ObservedIsOwn'
      BY <2>1, <2>7 DEF Unseen, ObservedIsOwn
    <2>9. Armed'
      BY <2>1 DEF Armed
    <2>10. QED
      BY <2>3, <2>5, <2>6, <2>8, <2>9 DEF ObserverGoal
  <1>3. ASSUME NEW k \in Kids, Arm(k) PROVE ObserverGoal
    <2>1. /\ pc[k] = "arming" /\ pc'[k] = "watch"
          /\ \A j \in Kids \ {k} : pc'[j] = pc[j]
          /\ UNCHANGED <<pid, leader, anchor, kin, seen, poll>>
      BY <1>3 DEF TypeOK, Arm, group
    <2>2. subs[pid[k]] = Free /\ subs' = [subs EXCEPT ![pid[k]] = k]
      BY <1>3 DEF Arm, MayRegister
    <2>3. leader[k] # "gone" /\ pid[k] \in Pids
      BY <2>1 DEF Armed
    <2>4. /\ subs'[pid[k]] = k
          /\ \A q \in Pids : q # pid[k] => subs'[q] = subs[q]
      BY <2>2, <2>3 DEF TypeOK
    <2>5. Subscribed'
      BY <2>1, <2>3, <2>4 DEF Subscribed
    <2>6. PollSound'
      BY <2>1, <2>2, <2>3, <2>4 DEF PollSound
    <2>7. Exclusive' /\ Armed' /\ Unseen' /\ ObservedIsOwn'
      BY <2>1 DEF Exclusive, Armed, Present, Unseen, ObservedIsOwn, Finalizing
    <2>8. QED
      BY <2>5, <2>6, <2>7 DEF ObserverGoal
  <1>4. ASSUME NEW k \in Kids, ArmFails(k) PROVE ObserverGoal
    <2>1. /\ pc[k] = "arming" /\ pc'[k] = "over"
          /\ \A j \in Kids \ {k} : pc'[j] = pc[j]
          /\ UNCHANGED <<pid, seen, poll>>
      BY <1>4 DEF TypeOK, ArmFails
    <2>2. \A j \in Kids : /\ leader'[j] = "gone" <=> leader[j] = "gone"
                          /\ anchor'[j] = "gone" <=> anchor[j] = "gone"
                          /\ kin'[j] = "gone" <=> kin[j] = "gone"
                          /\ leader'[j] = "zombie" <=> leader[j] = "zombie"
      BY <1>4, KillsKeepMembers DEF ArmFails
    <2>3. /\ \A q \in Pids, j \in Kids : subs'[q] = j => subs[q] = j /\ j # k
          /\ \A q \in Pids : subs[q] # Free => subs'[q] # Free
      <3>1. \A q \in Pids : subs[q] # k
        BY <2>1 DEF Subscribed
      <3>2. CASE UNCHANGED subs
        BY <3>1, <3>2
      <3>3. CASE subs' = [subs EXCEPT ![pid[k]] = Orphan]
        BY <3>1, <3>3, NamesAssumption DEF TypeOK
      <3>4. QED
        BY <1>4, <3>2, <3>3 DEF ArmFails
    <2>4. Exclusive' /\ Armed'
      BY <2>1, <2>2 DEF Exclusive, Armed, Present
    <2>5. Subscribed' /\ PollSound'
      BY <2>1, <2>2, <2>3 DEF Subscribed, PollSound
    <2>6. Unseen'
      BY <2>1 DEF Unseen
    <2>7. \A j \in Kids : leader'[j] \in {"running", "dying"} => leader[j] \in {"running", "dying"}
      BY <2>2 DEF TypeOK, States
    <2>8. ObservedIsOwn'
      BY <2>1, <2>7 DEF ObservedIsOwn
    <2>9. QED
      BY <2>4, <2>5, <2>6, <2>8 DEF ObserverGoal
  <1>5. ASSUME NEW k \in Kids, Exited(k) \/ GraceEnds(k) \/ OutputDeadline(k) PROVE ObserverGoal
    BY <1>5, FinalizeForObserver DEF Exited, GraceEnds, OutputDeadline
  <1>6. ASSUME NEW k \in Kids, Return(k) \/ DropFuture(k) PROVE ObserverGoal
    BY <1>6, FinalizeForObserver DEF Return, DropFuture
  <1>7. ASSUME NEW k \in Kids, DropAtShutdown(k) PROVE ObserverGoal
    <2>1. pc'[k] # "arming" /\ \A j \in Kids \ {k} : pc'[j] = pc[j]
      BY <1>7 DEF DropAtShutdown, Over, TypeOK
    <2>2. QED
      BY <1>7, <2>1, UnsubscribeForObserver DEF DropAtShutdown
  <1>8. ASSUME NEW k \in Kids, WaitFails(k) PROVE ObserverGoal
    <2>1. /\ pc[k] = "watch" /\ pc'[k] = "settled"
          /\ \A j \in Kids \ {k} : pc'[j] = pc[j]
          /\ UNCHANGED <<pid, leader, anchor, kin, subs, seen, poll>>
      BY <1>8 DEF TypeOK, WaitFails, group, observer
    <2>2. QED
      BY <2>1, QuietForObserver DEF Present, Unseen, Finalizing
  <1>9. ASSUME NEW k \in Kids, Terminate(k) PROVE ObserverGoal
    <2>1. CASE final[k] # "none"
      BY <1>9, <2>1, FinalizeForObserver DEF Terminate
    <2>2. CASE final[k] = "none" /\ pc[k] \notin Finalizing
      <3>1. /\ pc[k] \in {"watch", "settled"} /\ pc'[k] = "grace"
            /\ \A j \in Kids \ {k} : pc'[j] = pc[j]
            /\ UNCHANGED <<pid, leader, anchor, kin, subs, seen, poll>>
        BY <1>9, <2>2 DEF TypeOK, Terminate, Interruptible, group, observer
      <3>2. QED
        BY <3>1, QuietForObserver DEF Present, Unseen, Finalizing
    <2>3. CASE final[k] = "none" /\ pc[k] \in Finalizing
      <3>1. /\ pc[k] \in Finalizing /\ pc'[k] = "grace"
            /\ \A j \in Kids \ {k} : pc'[j] = pc[j]
            /\ UNCHANGED <<pid, leader, anchor, kin, subs, seen, poll>>
        BY <1>9, <2>3 DEF TypeOK, Terminate, group, observer
      <3>2. QED
        BY <3>1, QuietForObserver DEF Present, Unseen, Finalizing
    <2>4. QED
      BY <2>1, <2>2, <2>3
  <1>10. ASSUME NEW k \in Kids, ReapLeader(k) PROVE ObserverGoal
    <2>1. /\ pc[k] = "leader" /\ pc'[k] = "anchor"
          /\ \A j \in Kids \ {k} : pc'[j] = pc[j] /\ leader'[j] = leader[j]
          /\ leader'[k] \in {leader[k], "gone"}
          /\ UNCHANGED <<pid, anchor, kin, subs, seen, poll>>
      BY <1>10 DEF TypeOK, ReapLeader, observer
    <2>2. QED
      BY <2>1, QuietForObserver DEF Present, Unseen, Finalizing
  <1>11. ASSUME NEW k \in Kids, ReapAnchor(k) PROVE ObserverGoal
    <2>1. /\ pc[k] = "anchor" /\ pc'[k] = "probe"
          /\ \A j \in Kids \ {k} : pc'[j] = pc[j] /\ anchor'[j] = anchor[j]
          /\ anchor'[k] \in {anchor[k], "gone"}
          /\ UNCHANGED <<pid, leader, kin, subs, seen, poll>>
      BY <1>11 DEF TypeOK, ReapAnchor, observer
    <2>2. QED
      BY <2>1, QuietForObserver DEF Present, Unseen, Finalizing
  <1>12. ASSUME NEW k \in Kids, Probe(k) PROVE ObserverGoal
    <2>1. /\ pc[k] = "probe" /\ pc'[k] \in {"settled", "over"}
          /\ \A j \in Kids \ {k} : pc'[j] = pc[j]
          /\ UNCHANGED <<pid, leader, anchor, kin, subs, seen, poll>>
      BY <1>12 DEF TypeOK, Probe, Conclude, Over, group, observer
    <2>2. QED
      BY <2>1, QuietForObserver DEF Present, Unseen, Finalizing
  <1>13. ASSUME NEW k \in Kids, ReapOrphan(k) PROVE ObserverGoal
    <2>1. /\ pc[k] = "over"
          /\ \A j \in Kids \ {k} : leader'[j] = leader[j] /\ anchor'[j] = anchor[j]
          /\ leader'[k] \in {leader[k], "gone"} /\ anchor'[k] \in {anchor[k], "gone"}
          /\ UNCHANGED <<pid, kin, pc, subs, seen, poll>>
      BY <1>13 DEF TypeOK, ReapOrphan, observer
    <2>2. QED
      BY <2>1, QuietForObserver DEF Present, Unseen
  <1>14. ASSUME NEW k \in Kids, System(k) PROVE ObserverGoal
    <2>1. UNCHANGED <<pid, pc, subs, seen, poll>>
      BY <1>14 DEF System, LeaderEnds, AnchorEnds, Forks, KinEnds, observer
    <2>2. \A j \in Kids : Present(j)' => Present(j)
      BY <1>14 DEF TypeOK, System, LeaderEnds, AnchorEnds, Forks, KinEnds, Present
    <2>3. \A j \in Kids : leader'[j] = leader[j] \/ (leader[j] # "gone" /\ leader'[j] = "zombie")
      BY <1>14 DEF TypeOK, System, LeaderEnds, AnchorEnds, Forks, KinEnds
    <2>4. QED
      BY <2>1, <2>2, <2>3, QuietForObserver DEF Unseen
  <1>15. ASSUME NEW p \in Pids, Poll(p) PROVE ObserverGoal
    <2>1. /\ UNCHANGED <<pid, leader, anchor, kin, pc, subs, seen>>
          /\ subs[p] # Free
          /\ poll'.pid = p /\ poll'.state = ExitState(p)
      BY <1>15 DEF Poll, group
    <2>2. ASSUME NEW k \in Kids, subs[p] = k, ExitState(p) = "exited" PROVE leader[k] = "zombie"
      <3>1. PICK j \in Kids : pid[j] = p /\ leader[j] = "zombie"
        BY <2>2 DEF ExitState
      <3>2. pid[k] = p /\ leader[k] # "gone"
        BY <2>2 DEF Subscribed
      <3>3. j = k
        BY <3>1, <3>2 DEF Exclusive, Present
      <3>4. QED
        BY <3>1, <3>3
    <2>3. PollSound'
      BY <2>1, <2>2 DEF PollSound
    <2>4. Exclusive' /\ Armed' /\ Subscribed' /\ Unseen' /\ ObservedIsOwn'
      BY <2>1 DEF Exclusive, Armed, Present, Subscribed, Unseen, ObservedIsOwn
    <2>5. QED
      BY <2>3, <2>4 DEF ObserverGoal
  <1>16. ASSUME NEW p \in Pids, TakePid(p) \/ ReleasePid(p) PROVE ObserverGoal
    BY <1>16
    DEF ObserverGoal, Exclusive, Armed, Subscribed, PollSound, Unseen, ObservedIsOwn, Present,
        TakePid, ReleasePid, group, observer
  <1>17. CASE Send
    <2>1. /\ UNCHANGED <<pid, leader, anchor, kin, pc>>
          /\ poll.pid \in Pids
          /\ poll'.pid = NoPid
          /\ subs' = [subs EXCEPT ![poll.pid] = Free]
      BY <1>17 DEF Send, group
    <2>2. Exclusive' /\ Armed'
      BY <2>1 DEF Exclusive, Armed, Present
    <2>3. Subscribed'
      BY <2>1, NamesAssumption DEF Subscribed, TypeOK
    <2>4. PollSound'
      BY <2>1, NamesAssumption DEF PollSound
    <2>5. \A j \in Kids : seen'[j] = seen[j] \/ (subs[poll.pid] = j /\ seen'[j] = poll.state)
      BY <1>17 DEF Send, TypeOK
    <2>6. Unseen'
      BY <2>1, <2>5 DEF Unseen, Subscribed, Finalizing
    <2>7. ObservedIsOwn'
      BY <2>1, <2>5 DEF ObservedIsOwn, PollSound
    <2>8. QED
      BY <2>2, <2>3, <2>4, <2>6, <2>7 DEF ObserverGoal
  <1>18. CASE ObserverFails
    <2>1. /\ UNCHANGED <<pid, leader, anchor, kin, pc, poll>>
          /\ poll.pid = NoPid
          /\ subs' = [p \in Pids |-> Free]
      BY <1>18 DEF ObserverFails, group
    <2>2. Exclusive' /\ Armed'
      BY <2>1 DEF Exclusive, Armed, Present
    <2>3. Subscribed' /\ PollSound'
      BY <2>1, NamesAssumption DEF Subscribed, PollSound
    <2>4. \A j \in Kids : \/ seen'[j] = seen[j]
                          \/ seen'[j] = "failed" /\ \E p \in Pids : subs[p] = j
      BY <1>18 DEF ObserverFails
    <2>5. Unseen'
      BY <2>1, <2>4 DEF Unseen, Subscribed, Finalizing
    <2>6. ObservedIsOwn'
      BY <2>1, <2>4 DEF ObservedIsOwn
    <2>7. QED
      BY <2>2, <2>3, <2>5, <2>6 DEF ObserverGoal
  <1>19. QED
    BY <1>1, <1>2, <1>3, <1>4, <1>5, <1>6, <1>7, <1>8, <1>9, <1>10, <1>11, <1>12, <1>13,
       <1>14, <1>15, <1>16, <1>17, <1>18 DEF Next, Owner

\* A child is told of no exit but its own leader's (insert_exit_subscriber and
\* send_exit_observation), for any children and numbers and however numbers are reused.
THEOREM ObservationsCorrect == Spec => []ObservedIsOwn
  <1>1. Init => Exclusive /\ Armed /\ Subscribed /\ PollSound /\ Unseen /\ ObservedIsOwn
    BY NamesAssumption
    DEF Init, Exclusive, Armed, Subscribed, PollSound, Unseen, ObservedIsOwn, Present
  <1>2. /\ TypeOK /\ TypeOK' /\ [Next]_vars
        /\ Exclusive /\ Armed /\ Subscribed /\ PollSound /\ Unseen /\ ObservedIsOwn
        => Exclusive' /\ Armed' /\ Subscribed' /\ PollSound' /\ Unseen' /\ ObservedIsOwn'
    BY ObserverInvStep DEF ObserverInv, ObserverGoal
  <1>3. QED
    BY <1>1, <1>2, TypeCorrect, PTL DEF Spec

\* A reused group number carries no signal and no exit from one child to another, for
\* any children and any numbers (terminate_group, insert_exit_subscriber).
THEOREM CrossingCorrect == Spec => []NothingCrossesOver
  <1>1. NoStraySignal /\ ObservedIsOwn => NothingCrossesOver
    BY DEF NothingCrossesOver
  <1>2. QED
    BY <1>1, SignalsCorrect, ObservationsCorrect, PTL
=============================================================================

------------------------------- MODULE Window -------------------------------
(***************************************************************************)
(* The cutover window of dev-tools/aup-transition/cutover/coordinator.py   *)
(* (class CutoverWindow) on the simulated world it is built against        *)
(* (fault_drill/world.py through cutover/backends.py).                     *)
(*                                                                         *)
(* Eight phases are entered one after the other.  Entering one writes an   *)
(* observation, then an intent, issues the keyed effects of the phase,     *)
(* writes a receipt, a checkpoint and a transition.  The process may die   *)
(* between any two of these; a new process reads the journal and resumes:  *)
(* an intent with no checkpoint is reconciled by reading the effects back. *)
(* Services, network and hosts come and go, the lease expires, the         *)
(* authorization is revoked, the source set changes, at any time.  A host  *)
(* may repeat its activation, and a rollback may be asked for, in any      *)
(* phase and in any mode.                                                  *)
(*                                                                         *)
(* Abstractions.  Time is only the expiry of the lease.  The journal is    *)
(* what recovery and resume read of it.  A retry inside _issue is the      *)
(* interleaving of the world with the attempt that decides.  Writer epochs *)
(* are relative: 0 is the legacy writer's, 1 the one the lease names.      *)
(* Lanes, break-glass requests, the barrier document, the activation       *)
(* ledger and the record of an applied rollback decide nothing here and    *)
(* are left out.                                                           *)
(***************************************************************************)
EXTENDS Naturals, Sequences, FiniteSets

CONSTANTS Hosts,       \* the hosts that acknowledge the new writer
          HostOrder,   \* the order in which HOSTS addresses them
          None,        \* no host in a key; no epoch acknowledged by a host
          LadderStart, \* where the readiness ladder stands at first
          MaxFaults    \* bound on faults, crashes and repeated activations in one behaviour

ASSUME HostsAssumption ==
    /\ IsFiniteSet(Hosts) /\ Hosts # {} /\ None \notin Hosts /\ None \notin {0, 1}
    /\ HostOrder \in Seq(Hosts) /\ \A h \in Hosts : \E i \in DOMAIN HostOrder : HostOrder[i] = h
ASSUME BoundsAssumption == LadderStart \in 0..8 /\ MaxFaults \in Nat

VARIABLES
    up, network, auth, sourceChanged, alive, knownGood,          \* the environment
    fence, lease, writerEpoch, ackedEpoch, readOnly, applied,         \* the authority
    ladder,                                                      \* the readiness ladder
    phase, mode, reason, aborted, observed, intent, receipts,    \* the journal
    pc, via, todo, unknown, rejected, view,                      \* the process
    faults

environment == <<up, network, auth, sourceChanged, alive, knownGood>>
authority == <<fence, lease, writerEpoch, ackedEpoch, readOnly, applied>>
journal == <<phase, mode, reason, aborted, observed, intent, receipts>>
process == <<pc, via, todo, unknown, rejected, view>>
vars == <<environment, authority, ladder, journal, process, faults>>

-----------------------------------------------------------------------------
(* The two vocabularies. *)

Phases == 1..8
INIT == 0
QUIESCING == 1
FENCED == 2
FINAL_SYNC == 3
VALIDATED == 4
WRITE_COMMITTED == 5
HOSTS_ACTIVATING == 6
OBSERVING == 7
COMPLETE == 8

Services == {"muneral", "kc2", "scrutator"}

\* NEEDS: the services without which the effects of a phase are refused.
Needs(p) ==
    CASE p = FINAL_SYNC -> {"scrutator"}
      [] p = VALIDATED -> {"kc2"}
      [] p = OBSERVING -> {}
      [] OTHER -> {"muneral"}

FencePhases == {FINAL_SYNC, VALIDATED, WRITE_COMMITTED}

\* AUTHORISING_LADDER_STATE, as an index into LADDER (0 is FILES_AUTHORITATIVE).
AuthorisingLadderState(p) ==
    CASE p = QUIESCING -> 2
      [] p = FENCED -> 3
      [] p = FINAL_SYNC -> 5
      [] p = VALIDATED -> 6
      [] p = COMPLETE -> 8
      [] OTHER -> 7

\* _effect_keys: one key per phase, one per host when the hosts are activated.
EffectKeys(p) ==
    IF p = HOSTS_ACTIVATING THEN [i \in DOMAIN HostOrder |-> <<p, HostOrder[i]>>]
                            ELSE <<(<<p, None>>)>>
KeysOf(p) == IF p = HOSTS_ACTIVATING THEN {p} \X Hosts ELSE {<<p, None>>}
Keys == UNION {KeysOf(p) : p \in Phases}

\* The reasons _pause_cleared can clear, and the ones that need a decision.
Clearable == {"SERVICE_UNAVAILABLE", "UNKNOWN_EFFECT_UNRECONCILED", "DRAIN_UNKNOWN",
              "HOST_UNREACHABLE", "HOST_LOST_IN_OBSERVATION"}
Decisions == {"AUTH_REVOKED", "LEASE_EXPIRED", "LEASE_INVALID", "WRITER_EPOCH_MISMATCH",
              "KNOWN_GOOD_CORRUPT", "REVALIDATION_REQUIRED", "GATE_NOT_SATISFIED"}
NoReason == "none"
Reasons == Clearable \cup Decisions \cup {NoReason}

Init ==
    /\ up = Services /\ network = TRUE /\ auth = TRUE /\ sourceChanged = FALSE
    /\ alive = Hosts /\ knownGood = TRUE
    /\ fence = FALSE /\ lease = "none" /\ writerEpoch = 0 /\ readOnly = FALSE
    /\ ackedEpoch = [h \in Hosts |-> None]
    /\ applied = [k \in Keys |-> 0]
    /\ ladder = LadderStart
    /\ phase = INIT /\ mode = "running" /\ reason = NoReason /\ aborted = FALSE
    /\ observed = {} /\ intent = 0 /\ receipts = {}
    /\ pc = "down" /\ via = "step" /\ todo = <<>> /\ unknown = FALSE /\ rejected = NoReason
    /\ view = LadderStart
    /\ faults = 0

-----------------------------------------------------------------------------
(* Durable helpers. *)

\* _pause: a pause while paused keeps the reason of the first; any other mode is left.
Pause(r) ==
    /\ mode' = "PAUSED_SAFE"
    /\ reason' = IF mode = "PAUSED_SAFE" THEN reason ELSE r

\* Mutant: a host that could not be reached is a cause that never clears.
PauseClearedForgetsHosts ==
    \/ reason = "SERVICE_UNAVAILABLE" /\ Needs(phase + 1) \subseteq up
    \/ reason \in Clearable \ {"SERVICE_UNAVAILABLE", "HOST_UNREACHABLE"} /\ network /\ alive = Hosts

\* _pause_cleared, read against the reason that was recorded.
PauseCleared ==
    \/ reason = "SERVICE_UNAVAILABLE" /\ Needs(phase + 1) \subseteq up
    \/ reason \in Clearable \ {"SERVICE_UNAVAILABLE"} /\ network /\ alive = Hosts

\* Mutant: the ladder is not asked.
GuardWithoutLadder(p) ==
    IF p = QUIESCING /\ alive # Hosts THEN "DRAIN_UNKNOWN"
    ELSE IF p \in {VALIDATED, WRITE_COMMITTED} /\ sourceChanged THEN "REVALIDATION_REQUIRED"
    ELSE IF p \in FencePhases /\ lease = "expired" THEN "LEASE_EXPIRED"
    ELSE IF p \in FencePhases /\ lease # "valid" THEN "LEASE_INVALID"
    ELSE IF p \in {OBSERVING, COMPLETE} /\ alive # Hosts THEN "HOST_LOST_IN_OBSERVATION"
    ELSE NoReason

\* _guard: what keeps a phase from being entered, the first reason that applies.
Guard(p) ==
    IF view < AuthorisingLadderState(p) THEN "GATE_NOT_SATISFIED"
    ELSE IF p = QUIESCING /\ alive # Hosts THEN "DRAIN_UNKNOWN"
    ELSE IF p \in {VALIDATED, WRITE_COMMITTED} /\ sourceChanged THEN "REVALIDATION_REQUIRED"
    ELSE IF p \in FencePhases /\ lease = "expired" THEN "LEASE_EXPIRED"
    ELSE IF p \in FencePhases /\ lease # "valid" THEN "LEASE_INVALID"
    ELSE IF p \in {OBSERVING, COMPLETE} /\ alive # Hosts THEN "HOST_LOST_IN_OBSERVATION"
    ELSE NoReason

(***************************************************************************)
(* apply_effect and the function of the phase behind it: the reason it is  *)
(* rejected for, or NoReason when the server applies it.                   *)
(***************************************************************************)
Rejection(k) ==
    IF ~auth THEN "AUTH_REVOKED"
    ELSE IF ~(Needs(k[1]) \subseteq up) THEN "SERVICE_UNAVAILABLE"
    ELSE IF k[1] = WRITE_COMMITTED /\ lease = "expired" THEN "LEASE_EXPIRED"
    ELSE IF k[1] = WRITE_COMMITTED /\ lease # "valid" THEN "LEASE_INVALID"
    ELSE IF k[1] = WRITE_COMMITTED /\ writerEpoch # 0 THEN "WRITER_EPOCH_MISMATCH"
    ELSE IF k[1] = HOSTS_ACTIVATING /\ k[2] \notin alive THEN "HOST_UNREACHABLE"
    ELSE NoReason

\* _effect_fn: what the server does when it applies the effect k.
Apply(k) ==
    /\ applied' = [applied EXCEPT ![k] = @ + 1]
    /\ fence' = CASE k[1] = FENCED -> TRUE [] k[1] = COMPLETE -> FALSE [] OTHER -> fence
    /\ lease' = CASE k[1] = FENCED -> "valid"
                  [] k[1] = COMPLETE /\ lease # "none" -> "released"
                  [] OTHER -> lease
    /\ writerEpoch' = IF k[1] = WRITE_COMMITTED THEN 1 ELSE writerEpoch
    /\ ackedEpoch' = IF k[1] = HOSTS_ACTIVATING THEN [ackedEpoch EXCEPT ![k[2]] = 1] ELSE ackedEpoch
    /\ readOnly' = (readOnly \/ k[1] = COMPLETE)

\* An effect that is issued reaches the server or is rejected by it.
IssueTo(k) ==
    IF Rejection(k) = NoReason THEN Apply(k) ELSE UNCHANGED authority

\* The answer of an applied effect is lost with the network: "unknown".
AnswerLost(k) == Rejection(k) = NoReason /\ ~network

-----------------------------------------------------------------------------
(* The process: start, step, resume, abort, rollback, and its death. *)

\* _recover: the state is the recorded one; the ladder is read once.
Start ==
    /\ pc = "down"
    /\ pc' = "started" /\ view' = ladder
    /\ UNCHANGED <<environment, authority, ladder, journal, via, todo, unknown, rejected, faults>>

\* step, up to the observation it makes durable or finds in the journal.
Step ==
    /\ pc = "idle" /\ mode = "running" /\ phase < COMPLETE
    /\ IF knownGood
       THEN /\ observed' = observed \cup {phase + 1}
            /\ pc' = "guard"
            /\ UNCHANGED <<mode, reason>>
       ELSE /\ Pause("KNOWN_GOOD_CORRUPT")
            /\ UNCHANGED <<observed, pc>>
    /\ UNCHANGED <<environment, authority, ladder, phase, aborted, intent, receipts, via, todo, unknown,
                   rejected, view, faults>>

\* step: the guard, then the intent.
WriteIntent ==
    /\ pc = "guard"
    /\ LET g == Guard(phase + 1) IN
       IF g = NoReason
       THEN /\ intent' = phase + 1
            /\ pc' = "issue" /\ via' = "step" /\ todo' = EffectKeys(phase + 1)
            /\ unknown' = FALSE /\ rejected' = NoReason
            /\ UNCHANGED <<mode, reason>>
       ELSE /\ Pause(g) /\ pc' = "idle"
            /\ UNCHANGED <<intent, via, todo, unknown, rejected>>
    /\ UNCHANGED <<environment, authority, ladder, phase, aborted, observed, receipts, view, faults>>

\* step: _issue for the next key; every key is issued whatever the others answered.
Issue ==
    /\ pc = "issue" /\ todo # <<>>
    /\ LET k == Head(todo) IN
       /\ IssueTo(k)
       /\ unknown' = (unknown \/ AnswerLost(k))
       /\ rejected' = IF rejected = NoReason THEN Rejection(k) ELSE rejected
    /\ todo' = Tail(todo)
    /\ UNCHANGED <<environment, ladder, journal, pc, via, view, faults>>

\* Mutant: a rejected effect does not stop the phase.
JudgeIgnoresRejection ==
    /\ pc = "issue" /\ todo = <<>>
    /\ IF unknown THEN Pause("UNKNOWN_EFFECT_UNRECONCILED") /\ pc' = "idle"
       ELSE pc' = "receipt" /\ UNCHANGED <<mode, reason>>
    /\ UNCHANGED <<environment, authority, ladder, phase, aborted, observed, intent, receipts, via, todo,
                   unknown, rejected, view, faults>>

\* step: an unknown answer pauses before a rejection does.
Judge ==
    /\ pc = "issue" /\ todo = <<>>
    /\ IF unknown THEN Pause("UNKNOWN_EFFECT_UNRECONCILED") /\ pc' = "idle"
       ELSE IF rejected # NoReason THEN Pause(rejected) /\ pc' = "idle"
       ELSE pc' = "receipt" /\ UNCHANGED <<mode, reason>>
    /\ UNCHANGED <<environment, authority, ladder, phase, aborted, observed, intent, receipts, via, todo,
                   unknown, rejected, view, faults>>

\* _phase_receipt: a receipt of the phase that is on record is reused.
WriteReceipt ==
    /\ pc = "receipt"
    /\ receipts' = receipts \cup {phase + 1}
    /\ pc' = "checkpoint"
    /\ UNCHANGED <<environment, authority, ladder, phase, aborted, mode, reason, observed, intent, via, todo,
                   unknown, rejected, view, faults>>

\* _checkpoint, its first record: the intent is no longer dangling.
WriteCheckpoint ==
    /\ pc = "checkpoint"
    /\ intent' = 0 /\ pc' = "transition"
    /\ UNCHANGED <<environment, authority, ladder, phase, aborted, mode, reason, observed, receipts, via, todo,
                   unknown, rejected, view, faults>>

\* _checkpoint, its second record: the state advances.
WriteTransition ==
    /\ pc = "transition"
    /\ phase' = phase + 1 /\ mode' = "running" /\ reason' = NoReason
    /\ pc' = IF via = "step" THEN "idle" ELSE "clear"
    /\ UNCHANGED <<environment, authority, ladder, aborted, observed, intent, receipts, via, todo, unknown,
                   rejected, view, faults>>

\* resume: nothing in a terminal state, a pause when the authorization is gone.
Resume ==
    /\ pc = "started" \/ (pc = "idle" /\ mode = "PAUSED_SAFE")
    /\ IF mode = "ABORTED" \/ (phase = COMPLETE /\ mode = "running")
       THEN pc' = "idle" /\ UNCHANGED <<mode, reason, via, todo>>
       ELSE IF ~auth
       THEN Pause("AUTH_REVOKED") /\ pc' = "idle" /\ UNCHANGED <<via, todo>>
       ELSE /\ pc' = IF intent # 0 THEN "reconcile" ELSE "clear"
            /\ via' = "resume"
            /\ todo' = IF intent # 0 THEN EffectKeys(intent) ELSE <<>>
            /\ UNCHANGED <<mode, reason>>
    /\ UNCHANGED <<environment, authority, ladder, phase, aborted, observed, intent, receipts, unknown,
                   rejected, view, faults>>

\* _reconcile: read the next key back; unreadable pauses, absent is issued.
Readback ==
    /\ pc = "reconcile" /\ todo # <<>>
    /\ IF ~network THEN Pause("UNKNOWN_EFFECT_UNRECONCILED") /\ pc' = "clear" /\ UNCHANGED todo
       ELSE IF applied[Head(todo)] > 0
       THEN todo' = Tail(todo) /\ UNCHANGED <<mode, reason, pc>>
       ELSE pc' = "reissue" /\ UNCHANGED <<mode, reason, todo>>
    /\ UNCHANGED <<environment, authority, ladder, phase, aborted, observed, intent, receipts, via, unknown,
                   rejected, view, faults>>

\* _reconcile: the first application of a key that was not applied.
Reissue ==
    /\ pc = "reissue"
    /\ LET k == Head(todo) IN
       /\ IssueTo(k)
       /\ IF AnswerLost(k) THEN Pause("UNKNOWN_EFFECT_UNRECONCILED") /\ pc' = "clear" /\ UNCHANGED todo
          ELSE IF Rejection(k) # NoReason THEN Pause(Rejection(k)) /\ pc' = "clear" /\ UNCHANGED todo
          ELSE pc' = "reconcile" /\ todo' = Tail(todo) /\ UNCHANGED <<mode, reason>>
    /\ UNCHANGED <<environment, ladder, phase, aborted, observed, intent, receipts, via, unknown, rejected,
                   view, faults>>

\* _reconcile, its end: every key is read back once more before the receipt.
Reconciled ==
    /\ pc = "reconcile" /\ todo = <<>>
    /\ pc' = IF network THEN "receipt" ELSE "clear"
    /\ UNCHANGED <<environment, authority, ladder, journal, via, todo, unknown, rejected, view, faults>>

\* resume, its end: forward recovery when the recorded cause is gone.
ForwardRecovery ==
    /\ pc = "clear"
    /\ pc' = "idle"
    /\ IF mode = "PAUSED_SAFE" /\ PauseCleared
       THEN mode' = "running" /\ reason' = NoReason
       ELSE UNCHANGED <<mode, reason>>
    /\ UNCHANGED <<environment, authority, ladder, phase, aborted, observed, intent, receipts, via, todo,
                   unknown, rejected, view, faults>>

\* abort: refused once WRITE_COMMITTED is recorded; the fence goes first ...
Abort ==
    /\ pc = "idle" /\ mode # "ABORTED" /\ phase < WRITE_COMMITTED
    /\ fence' = FALSE /\ pc' = "release"
    /\ UNCHANGED <<environment, lease, writerEpoch, ackedEpoch, readOnly, applied, ladder, journal, via,
                   todo, unknown, rejected, view, faults>>

\* Mutant: the abort lowers the fence and keeps the lease.
AbortLeaseKept ==
    /\ pc = "release"
    /\ pc' = "abort"
    /\ UNCHANGED <<environment, authority, ladder, journal, via, todo, unknown, rejected, view, faults>>

\* ... then the lease ...
AbortLease ==
    /\ pc = "release"
    /\ lease' = IF lease = "none" THEN "none" ELSE "released"
    /\ pc' = "abort"
    /\ UNCHANGED <<environment, fence, writerEpoch, ackedEpoch, readOnly, applied, ladder, journal, via,
                   todo, unknown, rejected, view, faults>>

\* ... and the transition is recorded last.
AbortRecord ==
    /\ pc = "abort"
    /\ mode' = "ABORTED" /\ aborted' = TRUE /\ pc' = "idle"
    /\ UNCHANGED <<environment, authority, ladder, phase, reason, observed, intent, receipts, via,
                   todo, unknown, rejected, view, faults>>

(***************************************************************************)
(* rollback_to_known_good: refused, with a pause in whatever mode, when    *)
(* the generation does not verify.  One that verifies is the active one    *)
(* already; the record of that rollback is read by nothing.                *)
(***************************************************************************)
RollbackToKnownGood ==
    /\ pc \in {"started", "idle"}
    /\ IF knownGood THEN UNCHANGED <<mode, reason>> ELSE Pause("KNOWN_GOOD_CORRUPT")
    /\ UNCHANGED <<environment, authority, ladder, phase, aborted, observed, intent, receipts, process, faults>>

Fault == faults < MaxFaults /\ faults' = faults + 1

\* Mutant: an authority that takes a stale epoch (M04).
ReactivateHostStale(h, e) ==
    /\ Fault /\ pc \in {"started", "idle"} /\ h \in alive
    /\ ackedEpoch' = [ackedEpoch EXCEPT ![h] = e]
    /\ UNCHANGED <<environment, fence, lease, writerEpoch, readOnly, applied, ladder, journal, process>>

\* reactivate_host, host_ack: a host repeats its activation; a stale epoch is refused, a new one taken.
ReactivateHost(h, e) ==
    /\ Fault /\ pc \in {"started", "idle"} /\ h \in alive
    /\ ackedEpoch' = IF e < writerEpoch THEN ackedEpoch ELSE [ackedEpoch EXCEPT ![h] = e]
    /\ UNCHANGED <<environment, fence, lease, writerEpoch, readOnly, applied, ladder, journal, process>>

-----------------------------------------------------------------------------
(* The environment: scenarios.py injects and clears these one at a time. *)

\* The process dies; the world and the journal stay.
Crash ==
    /\ Fault /\ pc # "down"
    /\ pc' = "down" /\ todo' = <<>>
    /\ UNCHANGED <<environment, authority, ladder, journal, via, unknown, rejected, view>>

ServiceLost(s) == Fault /\ up' = up \ {s} /\ s \in up
                  /\ UNCHANGED <<network, auth, sourceChanged, alive, knownGood>>
NetworkLost == Fault /\ network /\ network' = FALSE
               /\ UNCHANGED <<up, auth, sourceChanged, alive, knownGood>>
HostLost(h) == Fault /\ h \in alive /\ alive' = alive \ {h}
               /\ UNCHANGED <<up, network, auth, sourceChanged, knownGood>>
Revoked == Fault /\ auth /\ auth' = FALSE
           /\ UNCHANGED <<up, network, sourceChanged, alive, knownGood>>
SourceSetChanged == Fault /\ ~sourceChanged /\ sourceChanged' = TRUE
                    /\ UNCHANGED <<up, network, auth, alive, knownGood>>
KnownGoodCorrupted == Fault /\ knownGood /\ knownGood' = FALSE
                      /\ UNCHANGED <<up, network, auth, sourceChanged, alive>>

EnvironmentFault ==
    /\ \/ \E s \in Services : ServiceLost(s)
       \/ NetworkLost
       \/ \E h \in Hosts : HostLost(h)
       \/ Revoked
       \/ SourceSetChanged
       \/ KnownGoodCorrupted
    /\ UNCHANGED <<authority, ladder, journal, process>>

LeaseExpires ==
    /\ Fault /\ lease = "valid" /\ lease' = "expired"
    /\ UNCHANGED <<environment, fence, writerEpoch, ackedEpoch, readOnly, applied, ladder, journal, process>>

\* What can be cleared is cleared: services, the network and hosts return.
Heal ==
    /\ up # Services \/ ~network \/ alive # Hosts
    /\ up' = Services /\ network' = TRUE /\ alive' = Hosts
    /\ UNCHANGED <<auth, sourceChanged, knownGood, authority, ladder, journal, process, faults>>

\* The ladder advances in another process (module Ladder).
LadderAdvances ==
    /\ ladder < 8 /\ ladder' = ladder + 1
    /\ UNCHANGED <<environment, authority, journal, process, faults>>

StepActions == Step \/ WriteIntent \/ Issue \/ Judge
RecordActions == WriteReceipt \/ WriteCheckpoint \/ WriteTransition
ResumeActions == Resume \/ Readback \/ Reissue \/ Reconciled \/ ForwardRecovery
AbortActions == Abort \/ AbortLease \/ AbortRecord
OperatorActions == RollbackToKnownGood \/ \E h \in Hosts, e \in {0, 1} : ReactivateHost(h, e)
ProcessNext == Start \/ StepActions \/ RecordActions \/ ResumeActions \/ AbortActions \/ OperatorActions
WorldNext == Crash \/ EnvironmentFault \/ LeaseExpires \/ Heal \/ LadderAdvances

Next == ProcessNext \/ WorldNext

Spec == Init /\ [][Next]_vars

(***************************************************************************)
(* A live process goes on, a dead one is started again, and an outage      *)
(* ends.  Nobody has to abort, and nothing makes the ladder advance.       *)
(***************************************************************************)
GoesOn == Start \/ StepActions \/ RecordActions \/ ResumeActions \/ AbortLease \/ AbortRecord
FairSpec == Spec /\ WF_vars(GoesOn) /\ WF_vars(Heal)

-----------------------------------------------------------------------------
(* Properties. *)

\* Every variable has the type the code gives it.
TypeOK ==
    /\ up \in SUBSET Services /\ alive \in SUBSET Hosts /\ ackedEpoch \in [Hosts -> {None, 0, 1}]
    /\ network \in BOOLEAN /\ auth \in BOOLEAN /\ sourceChanged \in BOOLEAN /\ knownGood \in BOOLEAN
    /\ fence \in BOOLEAN /\ readOnly \in BOOLEAN /\ writerEpoch \in {0, 1}
    /\ lease \in {"none", "valid", "expired", "released"}
    /\ applied \in [Keys -> Nat]
    /\ ladder \in 0..8 /\ view \in 0..8
    /\ phase \in 0..8 /\ mode \in {"running", "PAUSED_SAFE", "ABORTED"} /\ reason \in Reasons
    /\ aborted \in BOOLEAN /\ observed \in SUBSET Phases /\ intent \in 0..8 /\ receipts \in SUBSET Phases
    /\ pc \in {"down", "started", "idle", "guard", "issue", "receipt", "checkpoint", "transition",
               "reconcile", "reissue", "clear", "release", "abort"}
    /\ via \in {"step", "resume"} /\ todo \in Seq(Keys) /\ unknown \in BOOLEAN /\ rejected \in Reasons
    /\ faults \in 0..MaxFaults

(***************************************************************************)
(* A phase that is recorded was earned: each of its effects was applied by *)
(* the server, its observation and its receipt are in the journal, and the *)
(* ladder has reached the state that authorises it.  Whatever crashed, was *)
(* lost or was reconciled on the way (step, _reconcile, _recover).         *)
(***************************************************************************)
PhasesEarned ==
    \A p \in 1..phase :
        /\ \A k \in KeysOf(p) : applied[k] > 0
        /\ p \in receipts /\ p \in observed
        /\ ladder >= AuthorisingLadderState(p)

(***************************************************************************)
(* The writer epoch is swapped at most once, by the one effect that may    *)
(* swap it, after VALIDATED is recorded (cas_commit, epoch_mismatch).  A   *)
(* host is activated by the window only under the new epoch, and from then *)
(* on it acknowledges that epoch: no repeated activation, of the old or of *)
(* the new epoch, takes it back (host_ack, stale_epoch).                   *)
(***************************************************************************)
OneCommit ==
    /\ applied[<<WRITE_COMMITTED, None>>] = writerEpoch
    /\ writerEpoch = 1 => phase >= VALIDATED
    /\ \A h \in Hosts : applied[<<HOSTS_ACTIVATING, h>>] > 0 =>
          writerEpoch = 1 /\ phase >= WRITE_COMMITTED /\ ackedEpoch[h] = 1

(***************************************************************************)
(* A completed cutover is a whole one: the epoch is the new one, every     *)
(* host acknowledges it, the legacy contour is read-only and the fence is  *)
(* down.                                                                   *)
(***************************************************************************)
CompleteIsWhole ==
    phase = COMPLETE => writerEpoch = 1 /\ ackedEpoch = [h \in Hosts |-> 1] /\ readOnly /\ ~fence

(***************************************************************************)
(* The cutover happens once and as a whole, whatever was lost, repeated or *)
(* interrupted on the way, and however often a host repeats its activation *)
(* (cas_commit, host_ack, reactivate_host, _effect_fn).                    *)
(***************************************************************************)
CutoverIsWhole == OneCommit /\ CompleteIsWhole

(***************************************************************************)
(* No effect of a phase reaches the server before the ladder authorises    *)
(* the phase, although the ladder is read once, at the start of a process, *)
(* and a dangling intent is reissued by a later one (rule G06).            *)
(***************************************************************************)
EffectsAuthorised ==
    \A k \in Keys : applied[k] > 0 => ladder >= AuthorisingLadderState(k[1])

(***************************************************************************)
(* A recorded phase is never left backwards and never skipped.  A window   *)
(* is aborted before WRITE_COMMITTED is recorded; only a rollback that is  *)
(* refused takes it out of ABORTED again (_pause keeps no terminal state), *)
(* and once an abort is recorded the writer epoch is never swapped, even   *)
(* if the window is resumed from there and a dangling intent reconciled    *)
(* (abort, _pause, resume, _reconcile, cas_commit).                        *)
(***************************************************************************)
NeverBackwards ==
    [][/\ phase' \in {phase, phase + 1}
       /\ mode' = "ABORTED" => phase' < WRITE_COMMITTED
       /\ mode = "ABORTED" => phase' = phase /\ (mode' # mode => mode' = "PAUSED_SAFE" /\ ~knownGood)
       /\ aborted => aborted' /\ writerEpoch' = writerEpoch]_vars

(***************************************************************************)
(* Every window comes to rest: it completes, it is aborted, or it waits    *)
(* in PAUSED_SAFE for a decision: the recorded reason asks for one, or the *)
(* authorization is gone, whatever reason was recorded before.  No outage  *)
(* that ends leaves it paused for ever (resume, _pause_cleared).           *)
(***************************************************************************)
ComesToRest ==
    <>[](phase = COMPLETE \/ mode = "ABORTED" \/ (mode = "PAUSED_SAFE" /\ (reason \in Decisions \/ ~auth)))

(***************************************************************************)
(* Rule O03 of the drill's oracle: every effect key is applied at most     *)
(* once server-side.                                                       *)
(***************************************************************************)
EffectOnce == \A k \in Keys : applied[k] <= 1

(***************************************************************************)
(* Rule O16: a source set that changed before the commit is revalidated,   *)
(* never committed.                                                        *)
(***************************************************************************)
CommitRevalidated == [][writerEpoch' # writerEpoch => ~sourceChanged]_vars
=============================================================================

---------------------------- MODULE WindowProofs ----------------------------
(***************************************************************************)
(* Proofs about Window, for any hosts in any order and any number of       *)
(* faults.                                                                 *)
(***************************************************************************)
EXTENDS Window, TLAPS

-----------------------------------------------------------------------------
(***************************************************************************)
(* Where the process stands, and what the journal, the server and the      *)
(* ladder then agree on.                                                   *)
(***************************************************************************)

Issuing == {"issue", "reconcile", "reissue"}
Entering == Issuing \cup {"receipt", "checkpoint"}

\* The key k is still to be issued or read back.
Awaited(k) == \E i \in 1..Len(todo) : todo[i] = k

\* The keys this process has to get through are those of the phase it enters.
TodoInv ==
    /\ pc \in Issuing => todo \in Seq(KeysOf(phase + 1))
    /\ pc = "reissue" => todo # <<>>

\* A dangling intent is that of the next phase, which was observed and is authorised.
IntentInv ==
    /\ view <= ladder
    /\ pc = "guard" => phase < COMPLETE /\ phase + 1 \in observed
    /\ intent # 0 => intent = phase + 1 /\ intent \in observed /\ ladder >= AuthorisingLadderState(intent)
    /\ pc \in Entering => intent = phase + 1
    /\ pc = "transition" => /\ phase < COMPLETE /\ intent = 0 /\ phase + 1 \in observed
                            /\ ladder >= AuthorisingLadderState(phase + 1)

\* A process that is about to record a phase knows of each effect that it was applied.
DoneInv ==
    /\ pc \in {"reconcile", "reissue"} \/ (pc = "issue" /\ ~unknown /\ rejected = NoReason)
         => \A k \in KeysOf(phase + 1) : applied[k] > 0 \/ Awaited(k)
    /\ pc \in {"receipt", "checkpoint", "transition"} => \A k \in KeysOf(phase + 1) : applied[k] > 0
    /\ pc \in {"checkpoint", "transition"} => phase + 1 \in receipts

\* What the server did is the work of the recorded phases and of the next one.
AuthorityInv ==
    /\ \A k \in Keys : applied[k] > 0 => k[1] <= phase + 1
    /\ applied[<<WRITE_COMMITTED, None>>] = writerEpoch
    /\ \A h \in Hosts : applied[<<HOSTS_ACTIVATING, h>>] > 0 => ackedEpoch[h] = 1
    /\ applied[<<COMPLETE, None>>] > 0 => readOnly /\ ~fence

\* An abort begins before the commit is recorded, and nothing is under way after it.
AbortInv ==
    /\ pc \in {"release", "abort"} => phase < WRITE_COMMITTED
    /\ mode = "ABORTED" => pc \in {"down", "started", "idle"} /\ phase < WRITE_COMMITTED

\* Out of ABORTED leads only a corrupt known-good generation, with which no phase is begun; and
\* the lease that a dangling commit would need was released by the abort.
AbortedInv ==
    /\ pc = "abort" => lease # "valid"
    /\ mode = "ABORTED" => aborted
    /\ aborted => /\ mode = "ABORTED" \/ ~knownGood
                  /\ pc \notin {"guard", "issue"}
                  /\ intent = WRITE_COMMITTED => lease # "valid"


-----------------------------------------------------------------------------
(***************************************************************************)
(* Keys.                                                                   *)
(***************************************************************************)

\* The keys of a phase are keys and name it (_effect_keys).
LEMMA KeyFacts ==
  ASSUME NEW p \in Phases
  PROVE  /\ KeysOf(p) \subseteq Keys
         /\ \A k \in KeysOf(p) : k[1] = p
         /\ p # HOSTS_ACTIVATING => KeysOf(p) = {<<p, None>>}
         /\ p = HOSTS_ACTIVATING => KeysOf(p) = {p} \X Hosts
  BY DEF KeysOf, Keys

\* Every key is a key of the phase it names.
LEMMA KeyPhase ==
  ASSUME NEW k \in Keys
  PROVE  k[1] \in Phases /\ k \in KeysOf(k[1])
  <1>1. PICK p \in Phases : k \in KeysOf(p)
    BY DEF Keys
  <1>2. QED
    BY <1>1, KeyFacts

\* The keys that other definitions name.
LEMMA NamedKeys ==
  /\ <<WRITE_COMMITTED, None>> \in Keys /\ <<COMPLETE, None>> \in Keys
  /\ \A h \in Hosts : <<HOSTS_ACTIVATING, h>> \in Keys
  <1>1. WRITE_COMMITTED \in Phases /\ COMPLETE \in Phases /\ HOSTS_ACTIVATING \in Phases
    BY DEF Phases, WRITE_COMMITTED, COMPLETE, HOSTS_ACTIVATING
  <1>2. <<WRITE_COMMITTED, None>> \in KeysOf(WRITE_COMMITTED) /\ <<COMPLETE, None>> \in KeysOf(COMPLETE)
    BY DEF KeysOf, WRITE_COMMITTED, COMPLETE, HOSTS_ACTIVATING
  <1>3. \A h \in Hosts : <<HOSTS_ACTIVATING, h>> \in KeysOf(HOSTS_ACTIVATING)
    BY DEF KeysOf
  <1>4. QED
    BY <1>1, <1>2, <1>3, KeyFacts

\* What a process sets out to do for a phase is every key of it (_effect_keys).
LEMMA EffectKeysFacts ==
  ASSUME NEW p \in Phases
  PROVE  /\ EffectKeys(p) \in Seq(KeysOf(p))
         /\ \A k \in KeysOf(p) : \E i \in 1..Len(EffectKeys(p)) : EffectKeys(p)[i] = k
  <1>1. CASE p = HOSTS_ACTIVATING
    <2>1. EffectKeys(p) = [i \in 1..Len(HostOrder) |-> <<p, HostOrder[i]>>]
      BY <1>1, HostsAssumption DEF EffectKeys
    <2>2. \A i \in 1..Len(HostOrder) : HostOrder[i] \in Hosts
      BY HostsAssumption
    <2>3. Len(HostOrder) \in Nat
      BY HostsAssumption
    <2>4. EffectKeys(p) \in Seq(KeysOf(p)) /\ Len(EffectKeys(p)) = Len(HostOrder)
      BY <1>1, <2>1, <2>2, <2>3 DEF KeysOf
    <2>5. ASSUME NEW k \in KeysOf(p) PROVE \E i \in 1..Len(EffectKeys(p)) : EffectKeys(p)[i] = k
      <3>1. PICK h \in Hosts : k = <<p, h>>
        BY <1>1 DEF KeysOf
      <3>2. PICK i \in 1..Len(HostOrder) : HostOrder[i] = h
        BY HostsAssumption
      <3>3. QED
        BY <2>1, <2>4, <3>1, <3>2
    <2>6. QED
      BY <2>4, <2>5
  <1>2. CASE p # HOSTS_ACTIVATING
    BY <1>2 DEF EffectKeys, KeysOf
  <1>3. QED
    BY <1>1, <1>2

-----------------------------------------------------------------------------
(***************************************************************************)
(* Types.                                                                  *)
(***************************************************************************)

EnvironmentTypes ==
    /\ up \in SUBSET Services /\ alive \in SUBSET Hosts
    /\ network \in BOOLEAN /\ auth \in BOOLEAN /\ sourceChanged \in BOOLEAN /\ knownGood \in BOOLEAN
    /\ faults \in 0..MaxFaults
    /\ ladder \in 0..8
AuthorityTypes ==
    /\ ackedEpoch \in [Hosts -> {None, 0, 1}] /\ fence \in BOOLEAN /\ readOnly \in BOOLEAN /\ writerEpoch \in {0, 1}
    /\ lease \in {"none", "valid", "expired", "released"}
    /\ applied \in [Keys -> Nat]
JournalTypes ==
    /\ phase \in 0..8 /\ mode \in {"running", "PAUSED_SAFE", "ABORTED"} /\ reason \in Reasons
    /\ aborted \in BOOLEAN /\ observed \in SUBSET Phases /\ intent \in 0..8 /\ receipts \in SUBSET Phases
ProcessTypes ==
    /\ pc \in {"down", "started", "idle", "guard", "issue", "receipt", "checkpoint", "transition",
               "reconcile", "reissue", "clear", "release", "abort"}
    /\ via \in {"step", "resume"} /\ todo \in Seq(Keys) /\ unknown \in BOOLEAN /\ rejected \in Reasons
    /\ view \in 0..8

\* The types of the four groups of variables are the types.
LEMMA TypeParts == TypeOK <=> EnvironmentTypes /\ AuthorityTypes /\ JournalTypes /\ ProcessTypes
  BY DEF TypeOK, EnvironmentTypes, AuthorityTypes, JournalTypes, ProcessTypes

\* What apply_effect, the guard and the pause answer is a recorded reason.
LEMMA ReasonTypes ==
  ASSUME TypeOK
  PROVE  /\ \A k \in Keys : Rejection(k) \in Reasons
         /\ \A p \in Phases : Guard(p) \in Reasons
         /\ \A r \in Reasons : Pause(r) => mode' \in {"running", "PAUSED_SAFE", "ABORTED"} /\ reason' \in Reasons
  <1>1. ASSUME NEW k \in Keys PROVE Rejection(k) \in Reasons
    BY DEF Rejection, Reasons, Decisions, Clearable, NoReason
  <1>2. ASSUME NEW p \in Phases PROVE Guard(p) \in Reasons
    BY DEF Guard, Reasons, Decisions, Clearable, NoReason
  <1>3. ASSUME NEW r \in Reasons, Pause(r)
        PROVE  mode' \in {"running", "PAUSED_SAFE", "ABORTED"} /\ reason' \in Reasons
    BY <1>3 DEF Pause, TypeOK
  <1>4. QED
    BY <1>1, <1>2, <1>3

\* An issued effect leaves the server's state well-typed (apply_effect).
LEMMA IssueTypes ==
  ASSUME TypeOK, NEW k \in Keys, IssueTo(k)
  PROVE  AuthorityTypes'
  <1>1. CASE Apply(k)
    <2>1. applied' \in [Keys -> Nat]
      BY <1>1 DEF Apply, TypeOK
    <2>2. k[1] = HOSTS_ACTIVATING => k[2] \in Hosts
      BY KeyPhase, KeyFacts
    <2>3. ackedEpoch' \in [Hosts -> {None, 0, 1}]
      BY <1>1, <2>2 DEF Apply, TypeOK
    <2>4. lease' \in {"none", "valid", "expired", "released"}
      BY <1>1 DEF Apply, TypeOK
    <2>5. fence' \in BOOLEAN
      BY <1>1 DEF Apply, TypeOK
    <2>6. readOnly' \in BOOLEAN /\ writerEpoch' \in {0, 1}
      BY <1>1 DEF Apply, TypeOK
    <2>7. QED
      BY <2>1, <2>3, <2>4, <2>5, <2>6 DEF AuthorityTypes
  <1>2. CASE UNCHANGED authority
    BY <1>2 DEF authority, AuthorityTypes, TypeOK
  <1>3. QED
    BY <1>1, <1>2 DEF IssueTo

\* A process that has keys to get through has a first one.
LEMMA TodoTypes ==
  ASSUME NEW S, NEW s \in Seq(S), s # <<>>
  PROVE  /\ Head(s) \in S /\ Tail(s) \in Seq(S)
         /\ \A k : (\E i \in 1..Len(s) : s[i] = k) => k = Head(s) \/ \E i \in 1..Len(Tail(s)) : Tail(s)[i] = k
  <1>1. Head(s) \in S /\ Tail(s) \in Seq(S) /\ Len(s) \in Nat /\ Len(s) > 0
    OBVIOUS
  <1>2. Head(s) = s[1] /\ Len(Tail(s)) = Len(s) - 1 /\ \A i \in 1..Len(Tail(s)) : Tail(s)[i] = s[i + 1]
    OBVIOUS
  <1>3. ASSUME NEW k, NEW i \in 1..Len(s), s[i] = k, i # 1
        PROVE  \E j \in 1..Len(Tail(s)) : Tail(s)[j] = k
    <2>1. i - 1 \in 1..Len(Tail(s)) /\ (i - 1) + 1 = i
      BY <1>1, <1>2, <1>3
    <2>2. QED
      BY <1>2, <1>3, <2>1
  <1>4. QED
    BY <1>1, <1>2, <1>3

\* The steps of entering a phase keep the types (step, _issue).
LEMMA StepTypes == TypeOK /\ TodoInv /\ IntentInv /\ StepActions => TypeOK'
  <1> SUFFICES ASSUME TypeOK, TodoInv, IntentInv, StepActions PROVE TypeOK'
    OBVIOUS
  <1> USE DEF EnvironmentTypes, environment
  <1>0. EnvironmentTypes /\ AuthorityTypes /\ JournalTypes /\ ProcessTypes
    BY TypeParts
  <1>1. CASE Step
    <2>1. EnvironmentTypes' /\ AuthorityTypes' /\ ProcessTypes'
      BY <1>0, <1>1 DEF Step, authority, AuthorityTypes, ProcessTypes
    <2>2. "KNOWN_GOOD_CORRUPT" \in Reasons
      BY DEF Reasons, Decisions
    <2>3. mode' \in {"running", "PAUSED_SAFE", "ABORTED"} /\ reason' \in Reasons
      BY <1>0, <1>1, <2>2, ReasonTypes DEF Step, JournalTypes
    <2>4. observed' \in SUBSET Phases
      <3>1. phase + 1 \in Phases
        BY <1>0, <1>1 DEF Step, JournalTypes, Phases, COMPLETE
      <3>2. QED
        BY <1>0, <1>1, <3>1 DEF Step, JournalTypes
    <2>5. JournalTypes'
      BY <1>0, <1>1, <2>3, <2>4 DEF Step, JournalTypes
    <2>6. QED
      BY <2>1, <2>5, TypeParts, PTL
  <1>2. CASE WriteIntent
    <2>1. EnvironmentTypes' /\ AuthorityTypes'
      BY <1>0, <1>2 DEF WriteIntent, authority, AuthorityTypes
    <2>2. phase + 1 \in Phases /\ EffectKeys(phase + 1) \in Seq(Keys)
      <3>1. phase + 1 \in Phases
        BY <1>0, <1>2 DEF WriteIntent, IntentInv, JournalTypes, Phases, COMPLETE
      <3>2. QED
        BY <3>1, EffectKeysFacts, KeyFacts
    <2>3. mode' \in {"running", "PAUSED_SAFE", "ABORTED"} /\ reason' \in Reasons
      BY <1>0, <1>2, <2>2, ReasonTypes DEF WriteIntent, JournalTypes
    <2>4. JournalTypes'
      BY <1>0, <1>2, <2>2, <2>3 DEF WriteIntent, JournalTypes, Phases
    <2>5. ProcessTypes'
      BY <1>0, <1>2, <2>2 DEF WriteIntent, ProcessTypes, Reasons
    <2>6. QED
      BY <2>1, <2>4, <2>5, TypeParts, PTL
  <1>3. CASE Issue
    <2>1. Head(todo) \in Keys /\ Tail(todo) \in Seq(Keys)
      BY <1>0, <1>3, TodoTypes DEF Issue, ProcessTypes
    <2>2. EnvironmentTypes' /\ JournalTypes'
      BY <1>0, <1>3 DEF Issue, journal, JournalTypes
    <2>3. AuthorityTypes'
      BY <1>3, <2>1, IssueTypes DEF Issue
    <2>4. unknown' \in BOOLEAN
      BY <1>3 DEF Issue
    <2>5. rejected' \in Reasons
      BY <1>0, <1>3, <2>1, ReasonTypes DEF Issue, ProcessTypes
    <2>6. ProcessTypes'
      BY <1>0, <1>3, <2>1, <2>4, <2>5 DEF Issue, ProcessTypes
    <2>7. QED
      BY <2>2, <2>3, <2>6, TypeParts, PTL
  <1>4. CASE Judge
    <2>1. EnvironmentTypes' /\ AuthorityTypes' /\ ProcessTypes'
      BY <1>0, <1>4 DEF Judge, authority, AuthorityTypes, ProcessTypes
    <2>2. "UNKNOWN_EFFECT_UNRECONCILED" \in Reasons
      BY DEF Reasons, Clearable
    <2>3. mode' \in {"running", "PAUSED_SAFE", "ABORTED"} /\ reason' \in Reasons
      BY <1>0, <1>4, <2>2, ReasonTypes DEF Judge, JournalTypes, ProcessTypes
    <2>4. JournalTypes'
      BY <1>0, <1>4, <2>3 DEF Judge, JournalTypes
    <2>5. QED
      BY <2>1, <2>4, TypeParts, PTL
  <1>5. QED
    BY <1>1, <1>2, <1>3, <1>4 DEF StepActions

\* The records of a phase keep the types (_phase_receipt, _checkpoint).
LEMMA RecordTypes == TypeOK /\ IntentInv /\ RecordActions => TypeOK'
  <1> SUFFICES ASSUME TypeOK, IntentInv, RecordActions PROVE TypeOK'
    OBVIOUS
  <1>0. EnvironmentTypes /\ AuthorityTypes /\ JournalTypes /\ ProcessTypes
    BY TypeParts
  <1>1. EnvironmentTypes' /\ AuthorityTypes' /\ ProcessTypes'
    BY <1>0 DEF RecordActions, WriteReceipt, WriteCheckpoint, WriteTransition, environment, authority,
                EnvironmentTypes, AuthorityTypes, ProcessTypes
  <1>2. pc \in {"receipt", "transition"} => phase + 1 \in Phases /\ phase + 1 \in 0..8
    BY <1>0 DEF IntentInv, Entering, JournalTypes, Phases, COMPLETE
  <1>3. JournalTypes'
    BY <1>0, <1>2 DEF RecordActions, WriteReceipt, WriteCheckpoint, WriteTransition, JournalTypes, Reasons
  <1>4. QED
    BY <1>1, <1>3, TypeParts, PTL

\* The steps of a resume keep the types (resume, _reconcile).
LEMMA ResumeTypes == TypeOK /\ TodoInv /\ ResumeActions => TypeOK'
  <1> SUFFICES ASSUME TypeOK, TodoInv, ResumeActions PROVE TypeOK'
    OBVIOUS
  <1>0. EnvironmentTypes /\ AuthorityTypes /\ JournalTypes /\ ProcessTypes
    BY TypeParts
  <1>1. EnvironmentTypes'
    BY <1>0 DEF ResumeActions, Resume, Readback, Reissue, Reconciled, ForwardRecovery, environment, EnvironmentTypes
  <1>2. {"UNKNOWN_EFFECT_UNRECONCILED", "AUTH_REVOKED", NoReason} \subseteq Reasons
    BY DEF Reasons, Clearable, Decisions
  <1>3. CASE Resume
    <2>1. intent # 0 => EffectKeys(intent) \in Seq(Keys)
      <3>1. intent # 0 => intent \in Phases
        BY <1>0 DEF JournalTypes, Phases
      <3>2. QED
        BY <3>1, EffectKeysFacts, KeyFacts
    <2>2. mode' \in {"running", "PAUSED_SAFE", "ABORTED"} /\ reason' \in Reasons
      BY <1>0, <1>2, <1>3, ReasonTypes DEF Resume, JournalTypes
    <2>3. AuthorityTypes' /\ JournalTypes'
      BY <1>0, <1>3, <2>2 DEF Resume, authority, AuthorityTypes, JournalTypes
    <2>4. ProcessTypes'
      <3>1. todo' \in Seq(Keys)
        <4>1. todo' = todo \/ todo' = <<>> \/ (intent # 0 /\ todo' = EffectKeys(intent))
          BY <1>3, Zenon DEF Resume
        <4>2. <<>> \in Seq(Keys)
          OBVIOUS
        <4>3. QED
          BY <1>0, <2>1, <4>1, <4>2, Zenon DEF ProcessTypes
      <3>2. pc' \in {"idle", "reconcile", "clear"} /\ via' \in {"step", "resume"}
        BY <1>0, <1>3, Zenon DEF Resume, ProcessTypes
      <3>3. QED
        BY <1>0, <1>3, <3>1, <3>2 DEF Resume, ProcessTypes
    <2>5. QED
      BY <1>1, <2>3, <2>4, TypeParts, PTL
  <1>4. CASE Readback
    <2>1. Tail(todo) \in Seq(Keys)
      BY <1>0, <1>4, TodoTypes DEF Readback, ProcessTypes
    <2>2. mode' \in {"running", "PAUSED_SAFE", "ABORTED"} /\ reason' \in Reasons
      BY <1>0, <1>2, <1>4, ReasonTypes DEF Readback, JournalTypes
    <2>3. AuthorityTypes' /\ JournalTypes'
      BY <1>0, <1>4, <2>2 DEF Readback, authority, AuthorityTypes, JournalTypes
    <2>4. ProcessTypes'
      BY <1>0, <1>4, <2>1 DEF Readback, ProcessTypes
    <2>5. QED
      BY <1>1, <2>3, <2>4, TypeParts, PTL
  <1>5. CASE Reissue
    <2>1. Head(todo) \in Keys /\ Tail(todo) \in Seq(Keys)
      BY <1>0, <1>5, TodoTypes DEF Reissue, ProcessTypes, TodoInv
    <2>2. AuthorityTypes'
      BY <1>5, <2>1, IssueTypes DEF Reissue
    <2>3. mode' \in {"running", "PAUSED_SAFE", "ABORTED"} /\ reason' \in Reasons
      BY <1>0, <1>2, <1>5, <2>1, ReasonTypes DEF Reissue, JournalTypes
    <2>4. JournalTypes'
      BY <1>0, <1>5, <2>3 DEF Reissue, JournalTypes
    <2>5. ProcessTypes'
      BY <1>0, <1>5, <2>1 DEF Reissue, ProcessTypes
    <2>6. QED
      BY <1>1, <2>2, <2>4, <2>5, TypeParts, PTL
  <1>6. CASE Reconciled \/ ForwardRecovery
    <2>1. AuthorityTypes' /\ JournalTypes' /\ ProcessTypes'
      BY <1>0, <1>2, <1>6 DEF Reconciled, ForwardRecovery, authority, journal, AuthorityTypes, JournalTypes, ProcessTypes
    <2>2. QED
      BY <1>1, <2>1, TypeParts, PTL
  <1>7. QED
    BY <1>3, <1>4, <1>5, <1>6 DEF ResumeActions

\* Starting and aborting keep the types.
LEMMA AbortTypes == TypeOK /\ (Start \/ AbortActions) => TypeOK'
  <1> SUFFICES ASSUME TypeOK, Start \/ AbortActions PROVE TypeOK'
    OBVIOUS
  <1>0. EnvironmentTypes /\ AuthorityTypes /\ JournalTypes /\ ProcessTypes
    BY TypeParts
  <1> USE DEF Start, AbortActions, Abort, AbortLease, AbortRecord, environment, authority, journal,
              process
  <1>1. EnvironmentTypes' /\ ProcessTypes'
    BY <1>0 DEF EnvironmentTypes, ProcessTypes
  <1>2. AuthorityTypes'
    BY <1>0 DEF AuthorityTypes
  <1>3. JournalTypes'
    BY <1>0 DEF JournalTypes
  <1>4. QED
    BY <1>1, <1>2, <1>3, TypeParts, PTL

\* A rollback and a repeated activation keep the types (rollback_to_known_good, reactivate_host).
LEMMA OperatorTypes == TypeOK /\ OperatorActions => TypeOK'
  <1> SUFFICES ASSUME TypeOK, OperatorActions PROVE TypeOK'
    OBVIOUS
  <1>0. EnvironmentTypes /\ AuthorityTypes /\ JournalTypes /\ ProcessTypes
    BY TypeParts
  <1>1. CASE RollbackToKnownGood
    <2>1. "KNOWN_GOOD_CORRUPT" \in Reasons
      BY DEF Reasons, Decisions
    <2>2. mode' \in {"running", "PAUSED_SAFE", "ABORTED"} /\ reason' \in Reasons
      BY <1>0, <1>1, <2>1, ReasonTypes DEF RollbackToKnownGood, JournalTypes
    <2>3. EnvironmentTypes' /\ AuthorityTypes' /\ ProcessTypes'
      BY <1>0, <1>1 DEF RollbackToKnownGood, environment, authority, process, EnvironmentTypes, AuthorityTypes,
                        ProcessTypes
    <2>4. JournalTypes'
      BY <1>0, <1>1, <2>2 DEF RollbackToKnownGood, JournalTypes
    <2>5. QED
      BY <2>3, <2>4, TypeParts, PTL
  <1>2. ASSUME NEW h \in Hosts, NEW e \in {0, 1}, ReactivateHost(h, e) PROVE TypeOK'
    <2>1. faults' \in 0..MaxFaults
      BY <1>0, <1>2, BoundsAssumption DEF EnvironmentTypes, ReactivateHost, Fault
    <2>2. ackedEpoch' \in [Hosts -> {None, 0, 1}]
      BY <1>0, <1>2 DEF AuthorityTypes, ReactivateHost
    <2>3. EnvironmentTypes' /\ JournalTypes' /\ ProcessTypes'
      BY <1>0, <1>2, <2>1 DEF ReactivateHost, environment, journal, process, EnvironmentTypes, JournalTypes,
                              ProcessTypes
    <2>4. AuthorityTypes'
      BY <1>0, <1>2, <2>2 DEF ReactivateHost, AuthorityTypes
    <2>5. QED
      BY <2>3, <2>4, TypeParts, PTL
  <1>3. QED
    BY <1>1, <1>2 DEF OperatorActions

\* The environment keeps the types.
LEMMA WorldTypes == TypeOK /\ WorldNext => TypeOK'
  <1> SUFFICES ASSUME TypeOK, WorldNext PROVE TypeOK'
    OBVIOUS
  <1>0. EnvironmentTypes /\ AuthorityTypes /\ JournalTypes /\ ProcessTypes
    BY TypeParts
  <1>1. EnvironmentTypes'
    <2> USE DEF WorldNext, Crash, EnvironmentFault, ServiceLost, NetworkLost, HostLost, Revoked, SourceSetChanged,
                KnownGoodCorrupted, LeaseExpires, Heal, LadderAdvances, environment
    <2>1. faults' \in 0..MaxFaults
      BY <1>0, BoundsAssumption DEF EnvironmentTypes, Fault
    <2>2. ladder' \in 0..8
      BY <1>0 DEF EnvironmentTypes
    <2>3. up' \in SUBSET Services /\ alive' \in SUBSET Hosts
      BY <1>0 DEF EnvironmentTypes
    <2>4. network' \in BOOLEAN /\ auth' \in BOOLEAN /\ sourceChanged' \in BOOLEAN /\ knownGood' \in BOOLEAN
      BY <1>0, Zenon DEF EnvironmentTypes
    <2>5. QED
      BY <2>1, <2>2, <2>3, <2>4 DEF EnvironmentTypes
  <1>2. AuthorityTypes' /\ JournalTypes'
    BY <1>0 DEF WorldNext, Crash, EnvironmentFault, LeaseExpires, Heal, LadderAdvances, authority, journal,
                AuthorityTypes, JournalTypes
  <1>3. ProcessTypes'
    <2>1. CASE Crash
      <3>1. todo' \in Seq(Keys)
        BY <2>1 DEF Crash
      <3>2. QED
        BY <1>0, <2>1, <3>1 DEF Crash, ProcessTypes
    <2>2. CASE UNCHANGED process
      BY <1>0, <2>2 DEF process, ProcessTypes
    <2>3. QED
      BY <2>1, <2>2 DEF WorldNext, EnvironmentFault, LeaseExpires, Heal, LadderAdvances
  <1>4. QED
    BY <1>1, <1>2, <1>3, TypeParts, PTL

-----------------------------------------------------------------------------
(***************************************************************************)
(* Effects.                                                                *)
(***************************************************************************)

\* The state of the ladder that authorises a phase is one of it.
LEMMA LadderTypes == \A p : AuthorisingLadderState(p) \in Nat
  <1>1. 2 \in Nat /\ 3 \in Nat /\ 5 \in Nat /\ 6 \in Nat /\ 7 \in Nat /\ 8 \in Nat
    OBVIOUS
  <1>2. QED
    BY <1>1, Zenon DEF AuthorisingLadderState

\* A phase that the guard lets through is authorised by the ladder the process has read (_guard).
LEMMA GuardAsksLadder ==
  ASSUME NEW p, Guard(p) = NoReason
  PROVE  ~(view < AuthorisingLadderState(p))
  BY DEF Guard, NoReason

\* The commit is refused when its epoch is the writer's already (cas_commit).
LEMMA CommitComparesEpoch ==
  ASSUME NEW k, k[1] = WRITE_COMMITTED, Rejection(k) = NoReason
  PROVE  writerEpoch = 0
  BY DEF Rejection, NoReason

\* What an applied effect does to the fence, stated without CASE (_effect_fn).
LEMMA ApplyFence ==
  ASSUME NEW k, Apply(k)
  PROVE  /\ k[1] = COMPLETE => fence' = FALSE
         /\ k[1] # FENCED /\ k[1] # COMPLETE => fence' = fence
  <1>1. FENCED # COMPLETE
    BY DEF FENCED, COMPLETE
  <1>2. QED
    BY <1>1, Zenon DEF Apply

\* An effect of the phase that is being entered keeps what is known of the server, and leaves
\* what was applied applied (_issue, apply_effect).
LEMMA IssueInv ==
  ASSUME TypeOK, IntentInv, AuthorityInv, EffectsAuthorised, PhasesEarned,
         intent = phase + 1, NEW k \in KeysOf(phase + 1), IssueTo(k),
         phase' = phase, ladder' = ladder, receipts' = receipts, observed' = observed
  PROVE  /\ AuthorityInv' /\ EffectsAuthorised' /\ PhasesEarned'
         /\ \A j \in Keys : applied[j] > 0 => applied'[j] > 0
         /\ Rejection(k) = NoReason => applied'[k] > 0
  <1>1. phase \in 0..8 /\ phase + 1 \in Phases /\ ladder >= AuthorisingLadderState(phase + 1)
    BY DEF TypeOK, IntentInv, Phases
  <1>2. k \in Keys /\ k[1] = phase + 1
    BY <1>1, KeyFacts
  <1>3. applied \in [Keys -> Nat] /\ applied' \in [Keys -> Nat]
    BY <1>2, IssueTypes DEF TypeOK, AuthorityTypes
  <1>4. CASE UNCHANGED authority /\ Rejection(k) # NoReason
    BY <1>4 DEF authority, AuthorityInv, EffectsAuthorised, PhasesEarned
  <1>5. CASE Apply(k) /\ Rejection(k) = NoReason
    <2>1. applied' = [applied EXCEPT ![k] = @ + 1]
      BY <1>5 DEF Apply
    <2>2. applied'[k] > 0 /\ \A j \in Keys : j # k => applied'[j] = applied[j]
      BY <1>2, <1>3, <2>1
    <2>3. \A j \in Keys : applied[j] > 0 => applied'[j] > 0
      BY <1>3, <2>2
    <2>4. EffectsAuthorised'
      BY <1>1, <1>2, <2>2 DEF EffectsAuthorised
    <2>5. PhasesEarned'
      <3>1. ASSUME NEW p \in 1..phase, NEW j \in KeysOf(p) PROVE applied'[j] > 0
        BY <1>1, <2>3, <3>1, KeyFacts DEF PhasesEarned, Phases
      <3>2. QED
        BY <3>1 DEF PhasesEarned
    <2>6. AuthorityInv'
      <3>1. (\A j \in Keys : applied[j] > 0 => j[1] <= phase + 1)'
        BY <1>1, <1>2, <2>2 DEF AuthorityInv
      <3>2. (applied[<<WRITE_COMMITTED, None>>] = writerEpoch)'
        <4>1. CASE k[1] = WRITE_COMMITTED
          <5>1. k = <<WRITE_COMMITTED, None>>
            BY <1>1, <1>2, <4>1, KeyFacts DEF WRITE_COMMITTED, HOSTS_ACTIVATING
          <5>2. writerEpoch = 0 /\ writerEpoch' = 1
            BY <1>5, <4>1, CommitComparesEpoch DEF Apply
          <5>3. QED
            BY <1>2, <1>3, <2>1, <5>1, <5>2 DEF AuthorityInv
        <4>2. CASE k[1] # WRITE_COMMITTED
          <5>1. k # <<WRITE_COMMITTED, None>> /\ writerEpoch' = writerEpoch
            BY <1>5, <4>2 DEF Apply
          <5>2. QED
            BY <2>2, <5>1, NamedKeys DEF AuthorityInv
        <4>3. QED
          BY <4>1, <4>2
      <3>3. (\A h \in Hosts : applied[<<HOSTS_ACTIVATING, h>>] > 0 => ackedEpoch[h] = 1)'
        <4>1. CASE k[1] = HOSTS_ACTIVATING
          <5>1. PICK g \in Hosts : k = <<HOSTS_ACTIVATING, g>>
            BY <1>1, <1>2, <4>1, KeyFacts
          <5>2. ackedEpoch'[g] = 1 /\ \A h \in Hosts : h # g => ackedEpoch'[h] = ackedEpoch[h]
            BY <1>5, <4>1, <5>1 DEF Apply, TypeOK
          <5>3. \A h \in Hosts : h # g => <<HOSTS_ACTIVATING, h>> # k
            BY <5>1
          <5>4. QED
            BY <2>2, <5>1, <5>2, <5>3, NamedKeys DEF AuthorityInv
        <4>2. CASE k[1] # HOSTS_ACTIVATING
          <5>1. ackedEpoch' = ackedEpoch /\ \A h \in Hosts : <<HOSTS_ACTIVATING, h>> # k
            BY <1>5, <4>2 DEF Apply
          <5>2. QED
            BY <2>2, <5>1, NamedKeys DEF AuthorityInv
        <4>3. QED
          BY <4>1, <4>2
      <3>4. (applied[<<COMPLETE, None>>] > 0 => readOnly /\ ~fence)'
        <4>1. CASE k[1] = COMPLETE
          BY <1>5, <4>1, ApplyFence DEF Apply
        <4>2. CASE k[1] # COMPLETE
          <5>1. k # <<COMPLETE, None>> /\ (readOnly => readOnly')
            <6>1. k # <<COMPLETE, None>>
              BY <4>2
            <6>2. readOnly => readOnly'
              BY <1>5, Zenon DEF Apply
            <6>3. QED
              BY <6>1, <6>2
          <5>2. applied'[<<COMPLETE, None>>] = applied[<<COMPLETE, None>>]
            BY <2>2, <5>1, NamedKeys
          <5>3. applied[<<COMPLETE, None>>] > 0 => COMPLETE <= phase + 1
            BY NamedKeys DEF AuthorityInv
          <5>4. applied[<<COMPLETE, None>>] > 0 => k[1] # FENCED
            BY <1>1, <1>2, <5>3 DEF COMPLETE, FENCED
          <5>5. applied[<<COMPLETE, None>>] > 0 => fence' = fence
            BY <1>5, <4>2, <5>4, ApplyFence
          <5>6. QED
            BY <5>1, <5>2, <5>5 DEF AuthorityInv
        <4>3. QED
          BY <4>1, <4>2
      <3>5. QED
        BY <3>1, <3>2, <3>3, <3>4 DEF AuthorityInv
    <2>7. QED
      BY <2>2, <2>3, <2>4, <2>5, <2>6
  <1>6. QED
    BY <1>4, <1>5 DEF IssueTo

-----------------------------------------------------------------------------
(***************************************************************************)
(* The invariant.                                                          *)
(***************************************************************************)

Facts == TodoInv /\ IntentInv /\ DoneInv /\ AuthorityInv /\ AbortInv /\ EffectsAuthorised /\ PhasesEarned

\* Phases are recorded and authorised one after the other, so that all of them stay earned
\* when neither the server nor the journal loses anything and the phase stays.
LEMMA QuietFacts ==
  ASSUME TypeOK, AuthorityInv, EffectsAuthorised, PhasesEarned,
         applied' = applied, writerEpoch' = writerEpoch, ackedEpoch' = ackedEpoch, readOnly' = readOnly,
         fence' = fence \/ fence' = FALSE, phase' = phase, receipts \subseteq receipts', observed \subseteq observed',
         ladder' \in 0..8, ladder' >= ladder
  PROVE  AuthorityInv' /\ EffectsAuthorised' /\ PhasesEarned'
  <1>1. AuthorityInv'
    BY DEF AuthorityInv
  <1>2. EffectsAuthorised'
    BY LadderTypes DEF EffectsAuthorised, TypeOK
  <1>3. PhasesEarned'
    BY LadderTypes DEF PhasesEarned, TypeOK
  <1>4. QED
    BY <1>1, <1>2, <1>3

\* Entering a phase (step, _issue).
LEMMA StepFacts == TypeOK /\ Facts /\ StepActions => Facts'
  <1> SUFFICES ASSUME TypeOK, Facts, StepActions PROVE Facts'
    OBVIOUS
  <1> USE DEF Facts
  <1>1. CASE Step
    <2>1. AuthorityInv' /\ EffectsAuthorised' /\ PhasesEarned'
      BY <1>1, QuietFacts DEF Step, authority, TypeOK
    <2>2. TodoInv' /\ DoneInv' /\ AbortInv'
      BY <1>1 DEF Step, Pause, TodoInv, DoneInv, AbortInv, Issuing
    <2>3. IntentInv'
      BY <1>1 DEF Step, IntentInv, Entering, Issuing, TypeOK
    <2>4. QED
      BY <2>1, <2>2, <2>3
  <1>2. CASE WriteIntent
    <2>1. AuthorityInv' /\ EffectsAuthorised' /\ PhasesEarned'
      BY <1>2, QuietFacts DEF WriteIntent, authority, TypeOK
    <2>2. phase + 1 \in Phases /\ phase + 1 \in observed
      BY <1>2 DEF WriteIntent, IntentInv, TypeOK, Phases, COMPLETE
    <2>3. CASE Guard(phase + 1) = NoReason
      <3>0. pc' = "issue" /\ intent' = phase + 1 /\ todo' = EffectKeys(phase + 1) /\ phase' = phase
        BY <1>2, <2>3 DEF WriteIntent
      <3>1. ladder >= AuthorisingLadderState(phase + 1)
        BY <2>2, <2>3, GuardAsksLadder, LadderTypes DEF IntentInv, TypeOK
      <3>2. TodoInv'
        BY <2>2, <3>0, EffectKeysFacts DEF TodoInv
      <3>3. IntentInv'
        BY <1>2, <2>2, <3>0, <3>1 DEF WriteIntent, IntentInv, Entering, Issuing
      <3>4. DoneInv'
        BY <2>2, <3>0, EffectKeysFacts DEF DoneInv, Awaited
      <3>5. AbortInv'
        BY <1>2, <2>3, <3>0 DEF WriteIntent, AbortInv
      <3>6. QED
        BY <2>1, <3>2, <3>3, <3>4, <3>5
    <2>4. CASE Guard(phase + 1) # NoReason
      <3>0. pc' = "idle" /\ UNCHANGED <<phase, intent, observed, view, ladder, receipts>>
        BY <1>2, <2>4 DEF WriteIntent
      <3>1. mode' = "ABORTED" => mode = "ABORTED"
        BY <1>2, <2>4 DEF WriteIntent, Pause
      <3>2. TodoInv' /\ IntentInv' /\ DoneInv' /\ AbortInv'
        BY <1>2, <3>0, <3>1 DEF WriteIntent, TodoInv, IntentInv, DoneInv, AbortInv, Issuing, Entering
      <3>3. QED
        BY <2>1, <3>2
    <2>5. QED
      BY <2>3, <2>4
  <1>3. CASE Issue
    <2>0. pc = "issue" /\ pc' = "issue" /\ UNCHANGED <<phase, intent, observed, view, ladder, receipts, mode>>
      BY <1>3 DEF Issue, journal
    <2>1. intent = phase + 1 /\ phase + 1 \in Phases
      BY <2>0 DEF IntentInv, TypeOK, Phases, Entering, Issuing
    <2>2. /\ Head(todo) \in KeysOf(phase + 1) /\ todo' \in Seq(KeysOf(phase + 1))
          /\ \A k : Awaited(k) => k = Head(todo) \/ Awaited(k)'
      BY <1>3, <2>0, TodoTypes DEF Issue, TodoInv, Issuing, Awaited
    <2>3. /\ AuthorityInv' /\ EffectsAuthorised' /\ PhasesEarned'
          /\ \A j \in Keys : applied[j] > 0 => applied'[j] > 0
          /\ Rejection(Head(todo)) = NoReason => applied'[Head(todo)] > 0
      BY <1>3, <2>0, <2>1, <2>2, IssueInv DEF Issue
    <2>4. TodoInv' /\ IntentInv' /\ AbortInv'
      BY <2>0, <2>2 DEF TodoInv, IntentInv, AbortInv, Issuing, Entering
    <2>5. DoneInv'
      <3>1. SUFFICES ASSUME ~unknown', rejected' = NoReason, NEW k \in KeysOf(phase + 1)
                     PROVE  applied'[k] > 0 \/ Awaited(k)'
        BY <2>0 DEF DoneInv
      <3>2. ~unknown /\ rejected = NoReason /\ Rejection(Head(todo)) = NoReason
        BY <1>3, <3>1 DEF Issue
      <3>3. applied[k] > 0 \/ Awaited(k)
        BY <2>0, <3>1, <3>2 DEF DoneInv
      <3>4. k \in Keys
        BY <2>1, <3>1, KeyFacts
      <3>5. QED
        BY <2>2, <2>3, <3>2, <3>3, <3>4
    <2>6. QED
      BY <2>3, <2>4, <2>5
  <1>4. CASE Judge
    <2>0. pc = "issue" /\ todo = <<>> /\ UNCHANGED <<phase, intent, observed, view, ladder, receipts, todo, applied>>
      BY <1>4 DEF Judge, authority
    <2>1. AuthorityInv' /\ EffectsAuthorised' /\ PhasesEarned'
      BY <1>4, QuietFacts DEF Judge, authority, TypeOK
    <2>2. pc' \in {"idle", "receipt"} /\ (mode' = "ABORTED" => mode = "ABORTED")
      BY <1>4 DEF Judge, Pause
    <2>3. TodoInv' /\ AbortInv'
      BY <2>0, <2>2 DEF TodoInv, AbortInv, Issuing
    <2>4. IntentInv'
      BY <2>0, <2>2 DEF IntentInv, Entering, Issuing
    <2>5. pc' = "receipt" => ~unknown /\ rejected = NoReason
      BY <1>4 DEF Judge
    <2>6. \A k : ~Awaited(k)
      BY <2>0 DEF Awaited
    <2>7. DoneInv'
      BY <2>0, <2>2, <2>5, <2>6 DEF DoneInv
    <2>8. QED
      BY <2>1, <2>3, <2>4, <2>7
  <1>5. QED
    BY <1>1, <1>2, <1>3, <1>4 DEF StepActions

\* Recording a phase (_phase_receipt, _checkpoint).
LEMMA RecordFacts == TypeOK /\ Facts /\ RecordActions => Facts'
  <1> SUFFICES ASSUME TypeOK, Facts, RecordActions PROVE Facts'
    OBVIOUS
  <1> USE DEF Facts
  <1>1. CASE WriteReceipt \/ WriteCheckpoint
    <2>1. AuthorityInv' /\ EffectsAuthorised' /\ PhasesEarned'
      <3>1. /\ UNCHANGED <<phase, ladder, observed>> /\ UNCHANGED authority
            /\ receipts \subseteq receipts'
        BY <1>1 DEF WriteReceipt, WriteCheckpoint
      <3>2. QED
        BY <3>1, QuietFacts DEF authority, TypeOK
    <2>2. TodoInv' /\ AbortInv' /\ DoneInv'
      BY <1>1 DEF WriteReceipt, WriteCheckpoint, authority, TodoInv, AbortInv, DoneInv, Issuing
    <2>3. IntentInv'
      BY <1>1 DEF WriteReceipt, WriteCheckpoint, IntentInv, Entering, Issuing, TypeOK, COMPLETE
    <2>4. QED
      BY <2>1, <2>2, <2>3
  <1>2. CASE WriteTransition
    <2>0. /\ pc = "transition" /\ phase' = phase + 1 /\ pc' \in {"idle", "clear"} /\ mode' = "running"
          /\ UNCHANGED <<intent, observed, receipts, ladder, view>> /\ UNCHANGED authority
      BY <1>2 DEF WriteTransition
    <2>1. /\ phase < 8 /\ intent = 0 /\ phase + 1 \in observed /\ phase + 1 \in receipts
          /\ ladder >= AuthorisingLadderState(phase + 1)
          /\ \A k \in KeysOf(phase + 1) : applied[k] > 0
      BY <2>0 DEF IntentInv, DoneInv, COMPLETE
    <2>2. TodoInv' /\ AbortInv' /\ DoneInv'
      BY <2>0 DEF TodoInv, AbortInv, DoneInv, Issuing
    <2>3. IntentInv'
      BY <2>0, <2>1 DEF IntentInv, Entering, Issuing
    <2>4. AuthorityInv' /\ EffectsAuthorised'
      <3>1. \A k \in Keys : k[1] <= phase + 1 => k[1] <= phase' + 1
        <4>1. \A k \in Keys : k[1] \in 1..8
          BY KeyPhase DEF Phases
        <4>2. phase \in 0..8
          BY DEF TypeOK
        <4>3. QED
          BY <2>0, <4>1, <4>2
      <3>2. QED
        BY <2>0, <3>1 DEF AuthorityInv, EffectsAuthorised, authority
    <2>5. PhasesEarned'
      <3>1. 1..phase' = 1..phase \cup {phase + 1}
        BY <2>0 DEF TypeOK
      <3>2. QED
        BY <2>0, <2>1, <3>1 DEF PhasesEarned, authority
    <2>6. QED
      BY <2>2, <2>3, <2>4, <2>5
  <1>3. QED
    BY <1>1, <1>2 DEF RecordActions

\* A resume, with the reconciliation of a dangling intent (resume, _reconcile).
LEMMA ResumeFacts == TypeOK /\ Facts /\ ResumeActions => Facts'
  <1> SUFFICES ASSUME TypeOK, Facts, ResumeActions PROVE Facts'
    OBVIOUS
  <1> USE DEF Facts
  <1>1. CASE Resume
    <2>0. UNCHANGED <<phase, intent, observed, receipts, ladder, view>> /\ UNCHANGED authority
      BY <1>1 DEF Resume
    <2>1. AuthorityInv' /\ EffectsAuthorised' /\ PhasesEarned'
      BY <2>0, QuietFacts DEF authority, TypeOK
    <2>2. \/ pc' \in {"idle", "clear"} /\ (mode' = "ABORTED" => mode = "ABORTED" /\ pc' = "idle")
          \/ pc' = "reconcile" /\ intent # 0 /\ todo' = EffectKeys(intent) /\ mode # "ABORTED" /\ mode' = mode
      BY <1>1 DEF Resume, Pause
    <2>3. CASE pc' = "reconcile"
      <3>1. /\ intent \in Phases /\ intent = phase + 1 /\ intent # 0
            /\ todo' = EffectKeys(phase + 1) /\ mode' # "ABORTED"
        BY <2>2, <2>3 DEF IntentInv, TypeOK, Phases
      <3>2. TodoInv' /\ DoneInv'
        BY <2>0, <2>3, <3>1, EffectKeysFacts DEF TodoInv, DoneInv, Awaited
      <3>3. IntentInv' /\ AbortInv'
        BY <2>0, <2>3, <3>1 DEF IntentInv, AbortInv, Entering, Issuing
      <3>4. QED
        BY <2>1, <3>2, <3>3
    <2>4. CASE pc' # "reconcile"
      <3>1. TodoInv' /\ DoneInv' /\ IntentInv' /\ AbortInv'
        BY <2>0, <2>2, <2>4 DEF TodoInv, DoneInv, IntentInv, AbortInv, Entering, Issuing
      <3>2. QED
        BY <2>1, <3>1
    <2>5. QED
      BY <2>3, <2>4
  <1>2. CASE Readback
    <2>0. pc = "reconcile" /\ todo # <<>> /\ UNCHANGED <<phase, intent, observed, receipts, ladder, view>> /\ UNCHANGED authority
      BY <1>2 DEF Readback
    <2>1. AuthorityInv' /\ EffectsAuthorised' /\ PhasesEarned'
      BY <2>0, QuietFacts DEF authority, TypeOK
    <2>2. /\ intent = phase + 1 /\ todo \in Seq(KeysOf(phase + 1)) /\ mode # "ABORTED"
          /\ \A k \in KeysOf(phase + 1) : applied[k] > 0 \/ Awaited(k)
      BY <2>0 DEF IntentInv, TodoInv, DoneInv, AbortInv, Entering, Issuing
    <2>3. \/ pc' = "clear"
          \/ pc' = "reconcile" /\ applied[Head(todo)] > 0 /\ todo' = Tail(todo)
          \/ pc' = "reissue" /\ todo' = todo
      BY <1>2 DEF Readback
    <2>4. mode' # "ABORTED"
      BY <1>2, <2>2 DEF Readback, Pause
    <2>5. IntentInv' /\ AbortInv'
      BY <2>0, <2>2, <2>3, <2>4 DEF IntentInv, AbortInv, Entering, Issuing
    <2>6. TodoInv'
      BY <2>0, <2>2, <2>3, TodoTypes DEF TodoInv, Issuing
    <2>7. \A k : Awaited(k) => k = Head(todo) \/ (\E i \in 1..Len(Tail(todo)) : Tail(todo)[i] = k)
      BY <2>0, <2>2, TodoTypes DEF Awaited
    <2>8. DoneInv'
      <3>1. CASE pc' = "clear"
        BY <3>1 DEF DoneInv
      <3>2. CASE pc' = "reissue" /\ todo' = todo
        BY <2>0, <2>2, <3>2 DEF DoneInv, Awaited, authority
      <3>3. CASE pc' = "reconcile" /\ applied[Head(todo)] > 0 /\ todo' = Tail(todo)
        BY <2>0, <2>2, <2>7, <3>3 DEF DoneInv, Awaited, authority
      <3>4. QED
        BY <2>3, <3>1, <3>2, <3>3
    <2>9. QED
      BY <2>1, <2>5, <2>6, <2>8
  <1>3. CASE Reissue
    <2>0. pc = "reissue" /\ UNCHANGED <<phase, intent, observed, receipts, ladder, view>>
      BY <1>3 DEF Reissue
    <2>1. /\ intent = phase + 1 /\ todo \in Seq(KeysOf(phase + 1)) /\ todo # <<>> /\ mode # "ABORTED"
          /\ \A k \in KeysOf(phase + 1) : applied[k] > 0 \/ Awaited(k)
      BY <2>0 DEF IntentInv, TodoInv, DoneInv, AbortInv, Entering, Issuing
    <2>2. /\ Head(todo) \in KeysOf(phase + 1) /\ Tail(todo) \in Seq(KeysOf(phase + 1))
          /\ \A k : Awaited(k) => k = Head(todo) \/ (\E i \in 1..Len(Tail(todo)) : Tail(todo)[i] = k)
      BY <2>1, TodoTypes DEF Awaited
    <2>3. /\ AuthorityInv' /\ EffectsAuthorised' /\ PhasesEarned'
          /\ \A j \in Keys : applied[j] > 0 => applied'[j] > 0
          /\ Rejection(Head(todo)) = NoReason => applied'[Head(todo)] > 0
      BY <1>3, <2>0, <2>1, <2>2, IssueInv DEF Reissue
    <2>4. \/ pc' = "clear"
          \/ pc' = "reconcile" /\ Rejection(Head(todo)) = NoReason /\ todo' = Tail(todo)
      BY <1>3 DEF Reissue
    <2>5. mode' # "ABORTED"
      BY <1>3, <2>1 DEF Reissue, Pause
    <2>6. IntentInv' /\ AbortInv' /\ TodoInv'
      BY <2>0, <2>1, <2>2, <2>4, <2>5 DEF IntentInv, AbortInv, TodoInv, Entering, Issuing
    <2>7. DoneInv'
      <3>1. KeysOf(phase + 1) \subseteq Keys
        BY <2>1, KeyFacts DEF TypeOK, Phases
      <3>2. CASE pc' = "clear"
        BY <3>2 DEF DoneInv
      <3>3. CASE pc' = "reconcile" /\ Rejection(Head(todo)) = NoReason /\ todo' = Tail(todo)
        BY <2>0, <2>1, <2>2, <2>3, <3>1, <3>3 DEF DoneInv, Awaited
      <3>4. QED
        BY <2>4, <3>2, <3>3
    <2>8. QED
      BY <2>3, <2>6, <2>7
  <1>4. CASE Reconciled
    <2>0. /\ pc = "reconcile" /\ todo = <<>> /\ pc' \in {"receipt", "clear"}
          /\ UNCHANGED <<phase, mode, intent, observed, receipts, ladder, view>> /\ UNCHANGED authority
      BY <1>4 DEF Reconciled, journal
    <2>1. AuthorityInv' /\ EffectsAuthorised' /\ PhasesEarned'
      BY <2>0, QuietFacts DEF authority, TypeOK
    <2>2. TodoInv' /\ IntentInv' /\ AbortInv'
      BY <2>0 DEF TodoInv, IntentInv, AbortInv, Entering, Issuing
    <2>3. \A k : ~Awaited(k)
      BY <2>0 DEF Awaited
    <2>4. DoneInv'
      BY <2>0, <2>3 DEF DoneInv, authority
    <2>5. QED
      BY <2>1, <2>2, <2>4
  <1>5. CASE ForwardRecovery
    <2>0. /\ pc = "clear" /\ pc' = "idle"
          /\ UNCHANGED <<phase, intent, observed, receipts, ladder, view>> /\ UNCHANGED authority
      BY <1>5 DEF ForwardRecovery
    <2>1. AuthorityInv' /\ EffectsAuthorised' /\ PhasesEarned'
      BY <2>0, QuietFacts DEF authority, TypeOK
    <2>2. mode' # "ABORTED"
      BY <1>5, <2>0 DEF ForwardRecovery, AbortInv
    <2>3. TodoInv' /\ IntentInv' /\ AbortInv' /\ DoneInv'
      BY <2>0, <2>2 DEF TodoInv, IntentInv, AbortInv, DoneInv, Entering, Issuing
    <2>4. QED
      BY <2>1, <2>3
  <1>6. QED
    BY <1>1, <1>2, <1>3, <1>4, <1>5 DEF ResumeActions

\* Starting and aborting (_recover, abort).
LEMMA AbortFacts == TypeOK /\ Facts /\ (Start \/ AbortActions) => Facts'
  <1> SUFFICES ASSUME TypeOK, Facts, Start \/ AbortActions PROVE Facts'
    OBVIOUS
  <1> USE DEF Facts
  <1>1. /\ UNCHANGED <<phase, intent, observed, receipts, ladder, applied, writerEpoch, ackedEpoch, readOnly, todo>>
        /\ fence' = fence \/ fence' = FALSE
        /\ view' \in {view, ladder}
        /\ pc' \in {"started", "idle", "release", "abort"}
    BY DEF Start, AbortActions, Abort, AbortLease, AbortRecord, authority, journal, process
  <1>2. AuthorityInv' /\ EffectsAuthorised' /\ PhasesEarned'
    <2>1. ladder' \in 0..8 /\ ladder' >= ladder /\ receipts \subseteq receipts' /\ observed \subseteq observed'
      BY <1>1 DEF TypeOK
    <2>2. QED
      BY <1>1, <2>1, QuietFacts
  <1>3. TodoInv' /\ DoneInv'
    BY <1>1 DEF TodoInv, DoneInv, Issuing
  <1>4. IntentInv'
    BY <1>1 DEF IntentInv, Entering, Issuing, TypeOK
  <1>5. AbortInv'
    BY <1>1 DEF Start, AbortActions, Abort, AbortLease, AbortRecord, Pause, journal, process, AbortInv
  <1>6. QED
    BY <1>2, <1>3, <1>4, <1>5

\* A host that the window activated was activated under the new epoch (_effect_fn).
LEMMA ActivatedUnderEpoch ==
  ASSUME TypeOK, AuthorityInv, PhasesEarned, NEW h \in Hosts, applied[<<HOSTS_ACTIVATING, h>>] > 0
  PROVE  writerEpoch = 1 /\ phase >= WRITE_COMMITTED
  <1>1. applied \in [Keys -> Nat] /\ phase \in 0..8 /\ writerEpoch \in {0, 1}
    BY DEF TypeOK
  <1>2. HOSTS_ACTIVATING <= phase + 1
    BY NamedKeys DEF AuthorityInv
  <1>3. phase >= WRITE_COMMITTED
    BY <1>1, <1>2 DEF HOSTS_ACTIVATING, WRITE_COMMITTED
  <1>4. <<WRITE_COMMITTED, None>> \in KeysOf(WRITE_COMMITTED) /\ WRITE_COMMITTED \in 1..phase
    BY <1>1, <1>3 DEF KeysOf, WRITE_COMMITTED, HOSTS_ACTIVATING
  <1>5. applied[<<WRITE_COMMITTED, None>>] > 0
    BY <1>4 DEF PhasesEarned
  <1>6. QED
    BY <1>1, <1>3, <1>5 DEF AuthorityInv

\* A rollback touches the mode alone, and a stale epoch is not acknowledged again by a host that
\* the window activated (rollback_to_known_good, reactivate_host).
LEMMA OperatorFacts == TypeOK /\ Facts /\ OperatorActions => Facts'
  <1> SUFFICES ASSUME TypeOK, Facts, OperatorActions PROVE Facts'
    OBVIOUS
  <1> USE DEF Facts
  <1>1. CASE RollbackToKnownGood
    <2>1. /\ UNCHANGED <<phase, intent, observed, receipts, ladder>> /\ UNCHANGED authority /\ UNCHANGED process
          /\ pc \in {"started", "idle"}
          /\ mode' = mode \/ mode' = "PAUSED_SAFE"
      BY <1>1 DEF RollbackToKnownGood, Pause
    <2>2. AuthorityInv' /\ EffectsAuthorised' /\ PhasesEarned'
      BY <2>1, QuietFacts DEF authority, TypeOK
    <2>3. TodoInv' /\ DoneInv' /\ IntentInv'
      BY <2>1 DEF TodoInv, DoneInv, IntentInv, Issuing, Entering, process
    <2>4. AbortInv'
      BY <2>1 DEF AbortInv, process
    <2>5. QED
      BY <2>2, <2>3, <2>4
  <1>2. ASSUME NEW h \in Hosts, NEW e \in {0, 1}, ReactivateHost(h, e) PROVE Facts'
    <2>1. /\ UNCHANGED <<phase, mode, intent, observed, receipts, ladder, fence, writerEpoch, readOnly, applied>>
          /\ UNCHANGED process /\ pc \in {"started", "idle"}
      BY <1>2 DEF ReactivateHost, journal
    <2>2. ASSUME NEW g \in Hosts, applied'[<<HOSTS_ACTIVATING, g>>] > 0 PROVE ackedEpoch'[g] = 1
      <3>1. ackedEpoch[g] = 1 /\ writerEpoch = 1
        BY <2>1, <2>2, ActivatedUnderEpoch DEF AuthorityInv
      <3>2. ackedEpoch' = IF e < writerEpoch THEN ackedEpoch ELSE [ackedEpoch EXCEPT ![h] = e]
        BY <1>2 DEF ReactivateHost
      <3>3. CASE e = 0
        BY <3>1, <3>2, <3>3
      <3>4. CASE e = 1
        BY <3>1, <3>2, <3>4 DEF TypeOK
      <3>5. QED
        BY <3>3, <3>4
    <2>3. AuthorityInv'
      BY <2>1, <2>2 DEF AuthorityInv
    <2>4. EffectsAuthorised' /\ PhasesEarned'
      BY <2>1 DEF EffectsAuthorised, PhasesEarned
    <2>5. TodoInv' /\ DoneInv' /\ IntentInv' /\ AbortInv'
      BY <2>1 DEF TodoInv, DoneInv, IntentInv, AbortInv, Issuing, Entering, process
    <2>6. QED
      BY <2>3, <2>4, <2>5
  <1>3. QED
    BY <1>1, <1>2 DEF OperatorActions

\* The environment and the death of the process.
LEMMA WorldFacts == TypeOK /\ Facts /\ WorldNext => Facts'
  <1> SUFFICES ASSUME TypeOK, Facts, WorldNext PROVE Facts'
    OBVIOUS
  <1> USE DEF Facts
  <1>0. TypeOK'
    BY WorldTypes
  <1>1. /\ UNCHANGED <<phase, intent, observed, receipts, mode, view>>
        /\ UNCHANGED <<fence, applied, writerEpoch, ackedEpoch, readOnly>>
        /\ ladder' = ladder \/ ladder' = ladder + 1
    BY DEF WorldNext, Crash, EnvironmentFault, LeaseExpires, Heal, LadderAdvances, authority, journal, process
  <1>2. pc' = "down" \/ UNCHANGED process
    BY DEF WorldNext, Crash, EnvironmentFault, LeaseExpires, Heal, LadderAdvances, process
  <1>3. ladder' \in 0..8 /\ ladder \in 0..8 /\ ladder' >= ladder
    BY <1>0, <1>1 DEF TypeOK
  <1>4. AuthorityInv' /\ EffectsAuthorised' /\ PhasesEarned'
    BY <1>1, <1>3, QuietFacts
  <1>5. IntentInv'
    <2>1. \A p : ladder >= AuthorisingLadderState(p) => ladder' >= AuthorisingLadderState(p)
      BY <1>3, LadderTypes
    <2>2. view \in 0..8
      BY DEF TypeOK
    <2>3. QED
      BY <1>1, <1>2, <1>3, <2>1, <2>2 DEF IntentInv, Entering, Issuing, process
  <1>6. TodoInv' /\ DoneInv' /\ AbortInv'
    BY <1>1, <1>2 DEF TodoInv, DoneInv, AbortInv, Awaited, Issuing, process
  <1>7. QED
    BY <1>4, <1>5, <1>6

\* A window that was never opened has recorded nothing and done nothing.
LEMMA IInvInit == Init => TypeOK /\ Facts
  <1> SUFFICES ASSUME Init PROVE TypeOK /\ Facts
    OBVIOUS
  <1>1. <<>> \in Seq(Keys) /\ LadderStart \in 0..8 /\ MaxFaults \in Nat
    BY BoundsAssumption
  <1>2. TypeOK
    <2>1. EnvironmentTypes
      <3>1. faults \in 0..MaxFaults /\ ladder \in 0..8
        BY <1>1 DEF Init
      <3>2. QED
        BY <3>1, Zenon DEF Init, EnvironmentTypes
    <2>2. AuthorityTypes
      BY DEF Init, AuthorityTypes
    <2>3. JournalTypes
      <3>1. 0 \in 0..8 /\ {} \in SUBSET Phases
        OBVIOUS
      <3>2. QED
        BY <3>1, Zenon DEF Init, JournalTypes, Reasons, INIT
    <2>4. ProcessTypes
      BY <1>1 DEF Init, ProcessTypes, Reasons
    <2>5. QED
      BY <2>1, <2>2, <2>3, <2>4, TypeParts
  <1>3. TodoInv /\ IntentInv /\ DoneInv /\ AbortInv
    BY <1>1 DEF Init, TodoInv, IntentInv, DoneInv, AbortInv, Issuing, Entering, INIT
  <1>4. AuthorityInv /\ EffectsAuthorised /\ PhasesEarned
    BY NamedKeys DEF Init, AuthorityInv, EffectsAuthorised, PhasesEarned, INIT
  <1>5. QED
    BY <1>2, <1>3, <1>4 DEF Facts

\* Every step of the process and of the world keeps the invariant.
LEMMA IInvStep == TypeOK /\ Facts /\ [Next]_vars => TypeOK' /\ Facts'
  <1> SUFFICES ASSUME TypeOK, Facts, [Next]_vars PROVE TypeOK' /\ Facts'
    OBVIOUS
  <1>1. CASE ProcessNext
    BY <1>1, StepTypes, RecordTypes, ResumeTypes, AbortTypes, StepFacts, RecordFacts, ResumeFacts, AbortFacts, OperatorTypes,
            OperatorFacts
       DEF ProcessNext, Facts
  <1>2. CASE WorldNext
    BY <1>2, WorldTypes, WorldFacts
  <1>3. CASE UNCHANGED vars
    BY <1>3 DEF vars, environment, authority, journal, process, TypeOK, Facts, TodoInv, IntentInv, DoneInv, AuthorityInv,
                AbortInv, EffectsAuthorised, PhasesEarned, Awaited
  <1>4. QED
    BY <1>1, <1>2, <1>3 DEF Next

\* TypeOK and Facts hold in every reachable state.
LEMMA Invariance == Spec => [](TypeOK /\ Facts)
  BY IInvInit, IInvStep, PTL DEF Spec

\* A lease that is valid after an effect was valid before it, or the effect is that of FENCED (_effect_fn).
LEMMA ApplyLease ==
  ASSUME NEW k, IssueTo(k), lease' = "valid", k[1] # FENCED
  PROVE  lease = "valid"
  <1>1. CASE UNCHANGED authority
    BY <1>1 DEF authority
  <1>2. CASE Apply(k)
    BY <1>2, Zenon DEF Apply
  <1>3. QED
    BY <1>1, <1>2 DEF IssueTo

\* No step begins a phase after an abort, and none gives a dangling commit its lease back.
LEMMA AbortedStep == TypeOK /\ Facts /\ AbortedInv /\ [Next]_vars => AbortedInv'
  <1> SUFFICES ASSUME TypeOK, Facts, AbortedInv, [Next]_vars PROVE AbortedInv'
    OBVIOUS
  <1> USE DEF Facts
  <1>1. CASE Step
    BY <1>1 DEF Step, Pause, environment, authority, AbortedInv
  <1>2. CASE WriteIntent \/ Issue \/ Judge
    <2>1. ~aborted /\ ~aborted' /\ mode # "ABORTED"
      BY <1>2 DEF WriteIntent, Issue, Judge, journal, AbortedInv, AbortInv
    <2>2. mode' # "ABORTED" /\ pc' # "abort"
      BY <1>2, <2>1 DEF WriteIntent, Issue, Judge, Pause, journal
    <2>3. QED
      BY <2>1, <2>2 DEF AbortedInv
  <1>3. CASE RecordActions
    <2>1. /\ UNCHANGED <<lease, knownGood, aborted>> /\ intent' \in {intent, 0} /\ mode' \in {mode, "running"}
          /\ pc' \notin {"abort", "guard", "issue"} /\ mode # "ABORTED"
      BY <1>3 DEF RecordActions, WriteReceipt, WriteCheckpoint, WriteTransition, environment, authority, AbortInv
    <2>2. QED
      BY <2>1 DEF AbortedInv, WRITE_COMMITTED
  <1>4. CASE Resume \/ Readback \/ Reconciled \/ ForwardRecovery
    <2>1. UNCHANGED <<lease, knownGood, aborted, intent>> /\ pc' \notin {"abort", "guard", "issue"}
      BY <1>4 DEF Resume, Readback, Reconciled, ForwardRecovery, environment, authority, journal
    <2>2. mode = "ABORTED" => mode' = "ABORTED"
      BY <1>4 DEF Resume, Readback, Reconciled, ForwardRecovery, journal, AbortInv
    <2>3. mode' = "ABORTED" => mode = "ABORTED"
      BY <1>4 DEF Resume, Readback, Reconciled, ForwardRecovery, Pause, journal
    <2>4. QED
      BY <2>1, <2>2, <2>3 DEF AbortedInv
  <1>5. CASE Reissue
    <2>1. UNCHANGED <<knownGood, aborted, intent>> /\ pc' \notin {"abort", "guard", "issue"} /\ pc = "reissue"
      BY <1>5 DEF Reissue, environment
    <2>2. mode # "ABORTED" /\ mode' # "ABORTED"
      BY <1>5 DEF Reissue, Pause, AbortInv
    <2>3. intent = phase + 1 /\ Head(todo) \in KeysOf(phase + 1) /\ phase + 1 \in Phases
      <3>1. intent = phase + 1 /\ phase + 1 \in Phases
        BY <2>1 DEF IntentInv, Entering, Issuing, TypeOK, Phases
      <3>2. todo \in Seq(KeysOf(phase + 1)) /\ todo # <<>>
        BY <2>1 DEF TodoInv, Issuing
      <3>3. QED
        BY <3>1, <3>2, TodoTypes
    <2>4. intent = WRITE_COMMITTED /\ lease' = "valid" => lease = "valid"
      <3>1. Head(todo)[1] = intent
        BY <2>3, KeyFacts
      <3>2. IssueTo(Head(todo))
        BY <1>5 DEF Reissue
      <3>3. QED
        BY <3>1, <3>2, ApplyLease DEF WRITE_COMMITTED, FENCED
    <2>5. QED
      BY <2>1, <2>2, <2>4 DEF AbortedInv
  <1>6. CASE Start \/ AbortActions
    <2>1. CASE Start \/ Abort
      BY <2>1 DEF Start, Abort, environment, authority, journal, AbortedInv
    <2>2. CASE AbortLease
      BY <2>2 DEF AbortLease, environment, journal, AbortedInv
    <2>3. CASE AbortRecord
      BY <2>3 DEF AbortRecord, environment, authority, AbortedInv
    <2>4. QED
      BY <1>6, <2>1, <2>2, <2>3 DEF AbortActions
  <1>7. CASE OperatorActions
    <2>1. CASE RollbackToKnownGood
      BY <2>1 DEF RollbackToKnownGood, Pause, environment, authority, process, AbortedInv
    <2>2. ASSUME NEW h \in Hosts, NEW e \in {0, 1}, ReactivateHost(h, e) PROVE AbortedInv'
      BY <2>2 DEF ReactivateHost, environment, journal, process, AbortedInv
    <2>3. QED
      BY <1>7, <2>1, <2>2 DEF OperatorActions
  <1>8. CASE WorldNext
    <2>1. UNCHANGED <<aborted, mode, intent>> /\ (pc' = pc \/ pc' = "down") /\ (lease' = lease \/ lease' = "expired")
      BY <1>8 DEF WorldNext, Crash, EnvironmentFault, LeaseExpires, Heal, LadderAdvances, authority, journal, process
    <2>2. ~knownGood => ~knownGood'
      BY <1>8, Zenon DEF WorldNext, Crash, EnvironmentFault, ServiceLost, NetworkLost, HostLost, Revoked,
                         SourceSetChanged, KnownGoodCorrupted, LeaseExpires, Heal, LadderAdvances, environment
    <2>3. QED
      BY <2>1, <2>2 DEF AbortedInv
  <1>9. CASE UNCHANGED vars
    BY <1>9 DEF vars, environment, authority, journal, process, AbortedInv
  <1>10. QED
    BY <1>1, <1>2, <1>3, <1>4, <1>5, <1>6, <1>7, <1>8, <1>9 DEF Next, ProcessNext, StepActions, ResumeActions

\* An abort is final for the writer epoch in every reachable state.
LEMMA AbortedInvariance == Spec => [](TypeOK /\ Facts /\ AbortedInv)
  <1>1. Init => AbortedInv
    BY DEF Init, AbortedInv
  <1>2. QED
    BY <1>1, IInvInit, IInvStep, AbortedStep, PTL DEF Spec

-----------------------------------------------------------------------------
(***************************************************************************)
(* Theorems.                                                               *)
(***************************************************************************)

\* Every variable keeps its type, whatever fails and however often the process dies.
THEOREM TypeCorrect == Spec => []TypeOK
  BY Invariance, PTL

\* A recorded phase has all its effects, its observation and its receipt, and was authorised,
\* for any hosts and any number of crashes, losses and reconciliations (step, _reconcile, _recover).
THEOREM EarnedCorrect == Spec => []PhasesEarned
  <1>1. Facts => PhasesEarned
    BY DEF Facts
  <1>2. QED
    BY <1>1, Invariance, PTL

\* No effect is applied before the ladder authorises its phase, although the ladder is read once
\* per process and an intent is reissued by a later one (_guard, _reconcile).
THEOREM AuthorisedCorrect == Spec => []EffectsAuthorised
  <1>1. Facts => EffectsAuthorised
    BY DEF Facts
  <1>2. QED
    BY <1>1, Invariance, PTL

\* The writer's epoch is swapped once, after the validation and before the window activates a host;
\* an activated host keeps acknowledging it whatever epoch it repeats its activation with; and a
\* completed cutover is a whole one (cas_commit, host_ack, reactivate_host, _effect_fn).
THEOREM WholeCorrect == Spec => []CutoverIsWhole
  <1>1. ASSUME TypeOK, Facts PROVE CutoverIsWhole
    <2> USE DEF Facts
    <2>1. applied \in [Keys -> Nat] /\ phase \in 0..8 /\ writerEpoch \in {0, 1} /\ ackedEpoch \in [Hosts -> {None, 0, 1}]
      BY <1>1 DEF TypeOK
    <2>2. \A p \in 1..phase : \A k \in KeysOf(p) : applied[k] > 0
      BY <1>1 DEF PhasesEarned
    <2>3. writerEpoch = 1 => phase >= VALIDATED
      <3>1. writerEpoch = 1 => applied[<<WRITE_COMMITTED, None>>] > 0
        BY <1>1 DEF AuthorityInv
      <3>2. writerEpoch = 1 => WRITE_COMMITTED <= phase + 1
        BY <1>1, <3>1, NamedKeys DEF AuthorityInv
      <3>3. QED
        BY <2>1, <3>2 DEF WRITE_COMMITTED, VALIDATED
    <2>4. phase >= WRITE_COMMITTED => writerEpoch = 1
      <3>1. <<WRITE_COMMITTED, None>> \in KeysOf(WRITE_COMMITTED)
        BY DEF KeysOf, WRITE_COMMITTED, HOSTS_ACTIVATING
      <3>2. phase >= WRITE_COMMITTED => applied[<<WRITE_COMMITTED, None>>] > 0
        BY <2>1, <2>2, <3>1 DEF WRITE_COMMITTED
      <3>3. QED
        BY <1>1, <2>1, <3>2 DEF AuthorityInv
    <2>5. \A h \in Hosts : applied[<<HOSTS_ACTIVATING, h>>] > 0 =>
             writerEpoch = 1 /\ phase >= WRITE_COMMITTED /\ ackedEpoch[h] = 1
      BY <1>1, ActivatedUnderEpoch DEF AuthorityInv
    <2>6. OneCommit
      BY <1>1, <2>3, <2>4, <2>5 DEF OneCommit, AuthorityInv
    <2>7. ASSUME phase = COMPLETE PROVE writerEpoch = 1 /\ ackedEpoch = [h \in Hosts |-> 1] /\ readOnly /\ ~fence
      <3>1. writerEpoch = 1
        BY <2>4, <2>7 DEF COMPLETE, WRITE_COMMITTED
      <3>2. \A h \in Hosts : <<HOSTS_ACTIVATING, h>> \in KeysOf(HOSTS_ACTIVATING)
        BY DEF KeysOf
      <3>3. ackedEpoch = [h \in Hosts |-> 1]
        <4>1. HOSTS_ACTIVATING \in 1..phase
          BY <2>7 DEF COMPLETE, HOSTS_ACTIVATING
        <4>2. \A h \in Hosts : applied[<<HOSTS_ACTIVATING, h>>] > 0
          BY <2>2, <3>2, <4>1
        <4>3. \A h \in Hosts : ackedEpoch[h] = 1
          BY <1>1, <4>2 DEF AuthorityInv
        <4>4. QED
          BY <2>1, <4>3
      <3>4. <<COMPLETE, None>> \in KeysOf(COMPLETE)
        BY DEF KeysOf, COMPLETE, HOSTS_ACTIVATING
      <3>5. applied[<<COMPLETE, None>>] > 0
        BY <2>2, <2>7, <3>4 DEF COMPLETE
      <3>6. QED
        BY <1>1, <3>1, <3>3, <3>5 DEF AuthorityInv
    <2>8. QED
      BY <2>6, <2>7 DEF CutoverIsWhole, CompleteIsWhole
  <1>2. QED
    BY <1>1, Invariance, PTL

\* A step that is not an applied commit leaves the writer epoch (cas_commit).
LEMMA EpochMoves ==
  ASSUME NEW k, IssueTo(k), writerEpoch' # writerEpoch
  PROVE  k[1] = WRITE_COMMITTED /\ lease = "valid"
  <1>1. Rejection(k) = NoReason /\ Apply(k)
    BY DEF IssueTo, authority
  <1>2. k[1] = WRITE_COMMITTED
    BY <1>1 DEF Apply
  <1>3. lease = "valid"
    BY <1>1, <1>2 DEF Rejection, NoReason
  <1>4. QED
    BY <1>2, <1>3

\* Phases are recorded one after the other; an abort comes before the commit, is left only by a
\* refused rollback, and no commit follows it, whoever is started again, rolls back, resumes or
\* reconciles (abort, _pause, resume, _reconcile, cas_commit).
THEOREM BackwardsCorrect == Spec => NeverBackwards
  <1>1. ASSUME TypeOK, Facts, AbortedInv, [Next]_vars
        PROVE  [/\ phase' \in {phase, phase + 1}
                /\ mode' = "ABORTED" => phase' < WRITE_COMMITTED
                /\ mode = "ABORTED" => phase' = phase /\ (mode' # mode => mode' = "PAUSED_SAFE" /\ ~knownGood)
                /\ aborted => aborted' /\ writerEpoch' = writerEpoch]_vars
    <2> USE DEF Facts
    <2>1. CASE StepActions
      <3>1. UNCHANGED <<phase, aborted>> /\ mode # "ABORTED" /\ mode' # "ABORTED"
        BY <1>1, <2>1 DEF StepActions, Step, WriteIntent, Issue, Judge, Pause, journal, AbortInv
      <3>2. aborted => writerEpoch' = writerEpoch
        BY <1>1, <2>1 DEF StepActions, Step, WriteIntent, Issue, Judge, authority, AbortedInv
      <3>3. QED
        BY <3>1, <3>2
    <2>2. CASE RecordActions
      BY <1>1, <2>2 DEF RecordActions, WriteReceipt, WriteCheckpoint, WriteTransition, authority, AbortInv
    <2>3. CASE Resume \/ Readback \/ Reconciled \/ ForwardRecovery
      BY <1>1, <2>3 DEF Resume, Readback, Reconciled, ForwardRecovery, Pause, authority, journal, AbortInv
    <2>4. CASE Reissue
      <3>1. UNCHANGED <<phase, aborted>> /\ mode # "ABORTED" /\ mode' # "ABORTED" /\ pc = "reissue"
        BY <1>1, <2>4 DEF Reissue, Pause, AbortInv
      <3>2. Head(todo)[1] = intent
        <4>1. intent = phase + 1 /\ phase + 1 \in Phases
          BY <1>1, <3>1 DEF IntentInv, Entering, Issuing, TypeOK, Phases
        <4>2. todo \in Seq(KeysOf(phase + 1)) /\ todo # <<>>
          BY <1>1, <3>1 DEF TodoInv, Issuing
        <4>3. Head(todo) \in KeysOf(phase + 1)
          BY <4>2, TodoTypes
        <4>4. QED
          BY <4>1, <4>3, KeyFacts
      <3>3. aborted => writerEpoch' = writerEpoch
        <4>1. IssueTo(Head(todo))
          BY <2>4 DEF Reissue
        <4>2. writerEpoch' # writerEpoch => intent = WRITE_COMMITTED /\ lease = "valid"
          BY <3>2, <4>1, EpochMoves
        <4>3. QED
          BY <1>1, <4>2 DEF AbortedInv
      <3>4. QED
        BY <3>1, <3>3
    <2>5. CASE Start \/ AbortActions
      BY <1>1, <2>5 DEF Start, AbortActions, Abort, AbortLease, AbortRecord, authority, journal, AbortInv
    <2>6. CASE OperatorActions
      <3>1. CASE RollbackToKnownGood
        BY <1>1, <3>1 DEF RollbackToKnownGood, Pause, authority, AbortInv
      <3>2. ASSUME NEW h \in Hosts, NEW e \in {0, 1}, ReactivateHost(h, e)
            PROVE  UNCHANGED <<phase, mode, aborted, writerEpoch>>
        BY <3>2 DEF ReactivateHost, journal
      <3>3. QED
        BY <1>1, <2>6, <3>1, <3>2 DEF OperatorActions, AbortInv
    <2>7. CASE WorldNext
      BY <1>1, <2>7 DEF WorldNext, Crash, EnvironmentFault, LeaseExpires, Heal, LadderAdvances, authority, journal, AbortInv
    <2>8. QED
      BY <1>1, <2>1, <2>2, <2>3, <2>4, <2>5, <2>6, <2>7 DEF Next, ProcessNext, ResumeActions
  <1>2. QED
    BY <1>1, AbortedInvariance, PTL DEF Spec, NeverBackwards
=============================================================================

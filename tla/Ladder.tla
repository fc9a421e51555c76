------------------------------- MODULE Ladder -------------------------------
(***************************************************************************)
(* The readiness ladder of dev-tools/aup-transition/cutover/coordinator.py *)
(* (class LadderStore and the commands on it), with its evidence gates     *)
(* (module Gates) and the data gate that mints one of the receipts they    *)
(* ask for (module DataGate).                                              *)
(*                                                                         *)
(* A transition writes its receipt, then the state file.  The process may  *)
(* die in between, receipts may arrive at any time, and a receipt that is  *)
(* found under the name of the transition is reused verbatim.              *)
(***************************************************************************)
EXTENDS DataGate

CONSTANTS Ample,        \* class -> documents that satisfy every gate that reads it
          Green,        \* sources without anything to object to
          MaxDocs,      \* class -> bound on the documents of it that are produced
          MaxChanges,   \* bound on the changes of the sources
          MaxRollbacks, \* bound on the rollbacks
          Focus         \* sets of classes (and "sources"): what one behaviour produces

\* What is there from the start is what the readers of it can read.
ASSUME LadderAssumption ==
    /\ DOMAIN Ample = Classes /\ \A c \in Classes : Ample[c] \in Seq(Contents(c))
    /\ IsSources(Green)
    /\ MaxChanges \in Nat /\ MaxRollbacks \in Nat

VARIABLES
    docs,       \* the evidence index: class -> sequence of documents
    producing,  \* the member of Focus that this behaviour produces (fixed)
    sources,    \* what the data gate collects besides
    changes,
    file,       \* state.json: a state and a history, or NoFile
    receipts,   \* transition receipts by the state they lead to
    backward,   \* rollback receipts on file: is there one from 1 to 0
    run,        \* the transition under way, or Idle
    artifact,   \* what the data gate minted last
    report      \* the committed --gates document: target -> verdict, or NoReport

evidence == <<docs, producing, sources, changes>>
store == <<file, receipts, backward>>
vars == <<evidence, store, run, artifact, report>>

States == 0..8
DarkLaunchTop == 1
NoFile == [state |-> 0, history |-> <<>>]
Idle == [kind |-> "idle", to |-> 0, gate |-> <<>>]
NoArtifact == [on |-> Green, schema |-> "none", refs |-> {}]
NoReport == [t \in 1..8 |-> "none"]

\* What a transition receipt carries: the documents that the gate is said to rest on.
Carried(to) == [c \in ReliedOn(to) |-> docs[c]]

\* History variable: every document that the gate of the transition read, the checklist of E5.1
\* that its receipt does not carry included.
EvidenceOf(to) == ReliedOn(to) \cup (IF to = 5 THEN {"DeltaChecklist"} ELSE {})
Evidence(to) == [c \in EvidenceOf(to) |-> docs[c]]

\* A class is produced in this behaviour, or its documents are there from the start.
Init ==
    /\ producing \in Focus
    /\ docs = [c \in Classes |-> IF c \in producing THEN <<>> ELSE Ample[c]]
    /\ sources = Green /\ changes = 0
    /\ file = NoFile /\ receipts = [t \in {} |-> <<>>] /\ backward = FALSE
    /\ run = Idle /\ artifact = NoArtifact /\ report = NoReport

-----------------------------------------------------------------------------
(* The producers, outside the coordinator. *)

Produce(c) ==
    /\ c \in (producing \cap Classes) \ {"CutoverReadinessAttestation"} /\ Len(docs[c]) < MaxDocs[c]
    /\ \E d \in Contents(c) : docs' = [docs EXCEPT ![c] = Append(@, d)]
    /\ UNCHANGED <<producing, sources, changes, store, run, artifact, report>>

\* Something that the data gate collects changes, for the better or the worse.
SourcesChange(field) ==
    /\ "sources" \in producing /\ changes < MaxChanges /\ changes' = changes + 1
    /\ \E s \in {[sources EXCEPT ![field] = v] : v \in SourceValues[field]} :
           s # sources /\ sources' = s
    /\ UNCHANGED <<docs, producing, store, run, artifact, report>>

-----------------------------------------------------------------------------
(* The commands. *)

\* initialise: the receipt of state 0, then the file; nothing when there is a file.
Initialise ==
    /\ run = Idle /\ file = NoFile
    /\ run' = [kind |-> "init", to |-> 0, gate |-> <<>>]
    /\ receipts' = IF 0 \in DOMAIN receipts THEN receipts
                   ELSE [t \in DOMAIN receipts \cup {0} |-> IF t = 0 THEN <<>> ELSE receipts[t]]
    /\ UNCHANGED <<evidence, file, backward, artifact, report>>

\* cmd_gates: every gate is evaluated and the evaluation kept; the ladder stays where it is.
GatesReport ==
    /\ run = Idle
    /\ report' = [t \in 1..8 |-> EvaluateGate(t, docs)]
    /\ UNCHANGED <<evidence, store, run, artifact>>

\* Mutant: the state is written without a receipt.
AdvanceWithoutReceipt ==
    /\ run = Idle /\ file # NoFile /\ file.state < 8
    /\ LET to == file.state + 1 IN
       /\ EvaluateGate(to, docs) = PASS
       /\ report = NoReport \/ report[to] = PASS
       /\ run' = [kind |-> "advance", to |-> to, gate |-> Evidence(to)]
    /\ UNCHANGED <<evidence, store, artifact, report>>

(***************************************************************************)
(* cmd_advance and advance, up to the receipt: the target is the next      *)
(* state, the gate passes now, a report that is named agrees, there is a   *)
(* file.  A receipt that is found under the name of the state is reused.   *)
(***************************************************************************)
Advance ==
    /\ run = Idle /\ file # NoFile /\ file.state < 8
    /\ LET to == file.state + 1 IN
       /\ EvaluateGate(to, docs) = PASS
       /\ report = NoReport \/ report[to] = PASS
       /\ receipts' = IF to \in DOMAIN receipts THEN receipts
                      ELSE [t \in DOMAIN receipts \cup {to} |-> IF t = to THEN Carried(to) ELSE receipts[t]]
       /\ run' = [kind |-> "advance", to |-> to, gate |-> Evidence(to)]
    /\ UNCHANGED <<evidence, file, backward, artifact, report>>

\* rollback, up to its receipt: one state back, within the dark launch.
Rollback ==
    /\ run = Idle /\ file # NoFile /\ file.state \in 1..DarkLaunchTop
    /\ Cardinality({i \in DOMAIN file.history : file.history[i].kind = "rollback"}) < MaxRollbacks
    /\ backward' = TRUE
    /\ run' = [kind |-> "rollback", to |-> file.state - 1, gate |-> <<>>]
    /\ UNCHANGED <<evidence, file, receipts, artifact, report>>

\* _write_state: the state and its entry in the history are replaced in one write.
WriteState ==
    /\ run # Idle
    /\ file' = [state |-> run.to,
                history |-> Append(file.history, [kind |-> run.kind, from |-> file.state, to |-> run.to,
                                                  gate |-> run.gate])]
    /\ run' = Idle
    /\ UNCHANGED <<evidence, receipts, backward, artifact, report>>

\* The process dies between the receipt and the state (LadderCrash, or any other death).
Crash ==
    /\ run # Idle /\ run' = Idle
    /\ UNCHANGED <<evidence, store, artifact, report>>

\* cmd_consume, a process of its own: the state file and the receipts are read as they are, a
\* transition may be under way.  An attestation becomes a document of its class, a block receipt
\* does not.
Consume ==
    /\ artifact' = RunGate(sources, docs, IF file = NoFile THEN 9 ELSE file.state, DOMAIN receipts)
    /\ IF artifact'.schema = "CutoverReadinessAttestation" /\ docs["CutoverReadinessAttestation"] = <<>>
       THEN docs' = [docs EXCEPT !["CutoverReadinessAttestation"] = <<TRUE>>]
       ELSE UNCHANGED docs
    /\ UNCHANGED <<producing, sources, changes, store, run, report>>

Next ==
    \/ \E c \in Classes : Produce(c)
    \/ \E f \in DOMAIN Green : SourcesChange(f)
    \/ Initialise \/ GatesReport \/ Advance \/ Rollback \/ WriteState \/ Crash \/ Consume

Spec == Init /\ [][Next]_vars

-----------------------------------------------------------------------------
(* Properties. *)

\* Every variable has the type the code gives it.
TypeOK ==
    /\ \A c \in Classes : docs[c] \in Seq(Contents(c))
    /\ producing \in Focus /\ IsSources(sources) /\ changes \in 0..MaxChanges
    /\ file.state \in States /\ Len(file.history) <= 9 + 2 * MaxRollbacks
    /\ DOMAIN receipts \subseteq States /\ backward \in BOOLEAN
    /\ run.kind \in {"idle", "init", "advance", "rollback"} /\ run.to \in States
    /\ artifact.schema \in {"none", "BlockReceipt", "CutoverReadinessAttestation"}
    /\ report \in [1..8 -> Verdicts \cup {"none"}]

(***************************************************************************)
(* The history is one unbroken walk: it starts with the creation, every    *)
(* entry leaves the state the one before it entered, by one state forward  *)
(* or from the dark launch back, its receipt is on file, and it ends in    *)
(* the recorded state; whatever died between a receipt and the state file  *)
(* (advance, rollback, _write_state).                                      *)
(***************************************************************************)
HistoryIsAWalk ==
    LET h == file.history IN
    /\ \A i \in DOMAIN h :
          /\ h[i].kind = "init" <=> i = 1
          /\ i > 1 => h[i].from = h[i - 1].to
          /\ h[i].kind = "advance" => h[i].to = h[i].from + 1 /\ h[i].to \in DOMAIN receipts
          /\ h[i].kind = "rollback" => h[i].from = DarkLaunchTop /\ h[i].to = 0 /\ backward
    /\ h # <<>> => file.state = h[Len(h)].to /\ 0 \in DOMAIN receipts

\* Reference: n consecutive documents of one digest end at position i.
EqualBlock(shadow, i, n) == \A j \in 0..(n - 1) : i - j \in DOMAIN shadow /\ shadow[i - j].digest = shadow[i].digest

\* Reference: n documents of a class hold, wherever they stand.
SomeHold(seq, n) == \E S \in SUBSET DOMAIN seq : Cardinality(S) >= n /\ \A i \in S : seq[i]

\* What the gate into a state asks of the documents g, stated without the code's aggregation.
Earned(to, g) ==
    /\ to = 1 =>
         LET shadow == g["ShadowProjection"]
             audit == g["DerivedMarkerAudit"][Len(g["DerivedMarkerAudit"])]
             blocks(n) == {k \in DOMAIN shadow : EqualBlock(shadow, k, n)}
         IN /\ blocks(StableRuns) # {} /\ audit.clean
            /\ \E n \in 1..Len(shadow) :
                  /\ blocks(n + 1) = {}
                  /\ \E k \in blocks(n) : shadow[k].digest = audit.digest
    /\ to = 2 =>
         /\ SomeHold(g["FenceObservation"], WindowHours)
         /\ g["FleetDrain"][Len(g["FleetDrain"])]
         /\ SomeHold(g["FreezeRollbackDrill"], 1)
    /\ to = 4 => g["ShadowProjection"][Len(g["ShadowProjection"])].whole
    /\ to \in {1, 4} => SomeHold(g["ProjectionParity"], ParityReceipts)
    /\ to = 5 => LET latest == g["DeltaChecklist"][Len(g["DeltaChecklist"])] IN
                 latest.shape # "other" /\ \A c \in DeltaConditions : latest.said[c] = PASS
    /\ to = 8 => SomeHold(g["CutoverBakeObservation"], BakeHours)
    /\ DOMAIN g = EvidenceOf(to) /\ \A c \in EvidenceOf(to) : g[c] # <<>>

(***************************************************************************)
(* The documents that were there when a transition was decided satisfy its *)
(* gate, requirement by requirement: StableRuns consecutive equal          *)
(* regenerations, an audit of a tree that no other tree outlasted and the  *)
(* parity receipts; a freeze, WindowHours clean observations, the fleet    *)
(* drained last and a freeze that was rolled back; a whole projection;     *)
(* every condition of the latest checklist; the drills; the epoch, the     *)
(* keys and the attestation; BakeHours observations.  The order in which   *)
(* evidence arrives and a process that dies between the evaluation and the *)
(* state file make no difference (evaluate_gate, _longest_stable_run,      *)
(* _delta_batch, advance).  Clean observations are counted and not asked   *)
(* to be consecutive: that is what _fence_observation_window does.         *)
(***************************************************************************)
TransitionsEarned ==
    \A i \in DOMAIN file.history :
        LET e == file.history[i] IN e.kind = "advance" => Earned(e.to, e.gate)

(***************************************************************************)
(* What the data gate says stands.  A ref of the authority verifier means  *)
(* that the ladder is at PRECUT_READY or beyond and stays there, although  *)
(* the receipt of a transition is written before its state and may outlive *)
(* it (A07).  A ref of the data verifier means that the evidence it was    *)
(* minted on had every raw status in the map of record, a store imported   *)
(* under that map that lost no row, an index that acknowledged and counted *)
(* (D06..D12).  Where nobody else mints attestations, none is on file      *)
(* before the ladder is at PRECUT_READY, and the transition into SWITCHING *)
(* has no receipt without one (E7.3).                                      *)
(***************************************************************************)
AttestationStands ==
    /\ "authority" \in artifact.refs => file.state \in 6..8
    /\ "data" \in artifact.refs =>
         LET s == artifact.on IN
         /\ s.raw # {} /\ s.raw \subseteq DOMAIN StatusMap[Record]
         /\ s.batch = Record /\ ~s.lost
         /\ s.acks = "acked" /\ s.conflicts = "counted"
    /\ "CutoverReadinessAttestation" \in producing =>
         /\ docs["CutoverReadinessAttestation"] # <<>> => file.state \in 6..8
         /\ 7 \in DOMAIN receipts => docs["CutoverReadinessAttestation"] # <<>>

(***************************************************************************)
(* advance: the transition receipt carries the exact documents that        *)
(* authorised the transition it belongs to, so it can be checked again.    *)
(***************************************************************************)
ReceiptRechecks ==
    \A i \in DOMAIN file.history :
        LET e == file.history[i] IN
        e.kind = "advance" => receipts[e.to] = [c \in ReliedOn(e.to) |-> e.gate[c]]
=============================================================================

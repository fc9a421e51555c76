------------------------------- MODULE Gates --------------------------------
(***************************************************************************)
(* The evidence gates of dev-tools/aup-transition/cutover/gates.py: one    *)
(* gate per transition of the readiness ladder, every requirement of it    *)
(* tri-valued, the gate a PASS only when every requirement is one.         *)
(*                                                                         *)
(* An evidence index is a function from receipt classes to the sequence of *)
(* the documents of the class, in the order of their capture.  Of a        *)
(* document only what a requirement reads is kept.                         *)
(***************************************************************************)
EXTENDS Naturals, Sequences, FiniteSets, SequencesExt

CONSTANTS StableRuns,      \* consecutive equal regenerations asked for (10)
          ParityReceipts,  \* qualifying parity receipts asked for (2)
          WindowHours,     \* clean hourly observations asked for (72)
          BakeHours,       \* hourly bake observations asked for (24)
          DeltaConditions, \* the conditions on the second import batch (eight)
          Digests          \* output digests a projection can have

ASSUME GatesAssumption ==
    /\ {StableRuns, WindowHours, BakeHours} \subseteq Nat \ {0}
    /\ ParityReceipts \in Nat \ {0, 1}
    /\ IsFiniteSet(DeltaConditions) /\ DeltaConditions # {}

PASS == "PASS"
BLOCK == "BLOCK"
NOT_MEASURED == "NOT_MEASURED"
Verdicts == {PASS, BLOCK, NOT_MEASURED}

\* Receipt classes by what is read of a document of the class.
PresenceClasses == {"FreezeActivation", "FenceProof", "CutoverRollbackDrill", "DatabaseRestoreDrill",
                    "WriterEpoch", "KeyInventory", "CutoverReadinessAttestation", "CutoverBakeObservation"}
YesNoClasses == {"ProjectionParity", "FenceObservation", "FleetDrain", "FreezeRollbackDrill"}
Classes == PresenceClasses \cup YesNoClasses \cup {"ShadowProjection", "DerivedMarkerAudit", "DeltaChecklist"}

\* A checklist is a map, a list of labelled items, or a shape nobody knows.
Checklists ==
    [shape : {"dict", "list"}, said : [DeltaConditions -> {PASS, "FAIL", NOT_MEASURED, "NOT_REPORTED"}]]
    \cup {[shape |-> "other", said |-> [c \in DeltaConditions |-> "NOT_REPORTED"]]}

Contents(c) ==
    CASE c \in PresenceClasses -> {TRUE}
      [] c \in YesNoClasses -> BOOLEAN
      [] c = "ShadowProjection" -> [digest : Digests, whole : BOOLEAN]
      [] c = "DerivedMarkerAudit" -> [digest : Digests, clean : BOOLEAN]
      [] c = "DeltaChecklist" -> Checklists

-----------------------------------------------------------------------------
(* The requirements. *)

\* Mutant: a digest that comes back continues its earlier run.
ShadowRunsJoined(docs) ==
    LET found == {d.digest : d \in Range(docs)} IN
    SetToSeq({[digest |-> g, length |-> Cardinality({i \in DOMAIN docs : docs[i].digest = g})] : g \in found})

\* _shadow_runs: the documents reduced to consecutive runs of one digest.
ShadowRuns(docs) ==
    LET extend(runs, d) ==
            IF runs # <<>> /\ Last(runs).digest = d.digest
            THEN Front(runs) \o <<[digest |-> d.digest, length |-> Last(runs).length + 1]>>
            ELSE Append(runs, [digest |-> d.digest, length |-> 1])
    IN FoldLeft(extend, <<>>, docs)

\* _longest_stable_run: the first of the longest runs, of all time.
LongestStableRun(runs) ==
    LET longest == {i \in DOMAIN runs : \A j \in DOMAIN runs :
                        runs[j].length < runs[i].length \/ (runs[j].length = runs[i].length /\ j >= i)}
    IN runs[CHOOSE i \in longest : TRUE]

ShadowStable(idx) ==
    LET docs == idx["ShadowProjection"] IN
    IF docs = <<>> THEN NOT_MEASURED
    ELSE IF LongestStableRun(ShadowRuns(docs)).length >= StableRuns THEN PASS
    ELSE BLOCK

Holding(docs) == Cardinality({i \in DOMAIN docs : docs[i] = TRUE})

\* Presence of one document is all that these requirements read.
Present(idx, c) == IF idx[c] # <<>> THEN PASS ELSE BLOCK

ParityPairs(idx) ==
    IF idx["ProjectionParity"] = <<>> THEN NOT_MEASURED
    ELSE IF Holding(idx["ProjectionParity"]) >= ParityReceipts THEN PASS
    ELSE BLOCK

\* _derived_marker: the latest audit, of the tree of the longest stable run, without a violation.
DerivedMarker(idx) ==
    LET audits == idx["DerivedMarkerAudit"]
        shadow == idx["ShadowProjection"]
    IN IF audits = <<>> THEN NOT_MEASURED
       ELSE IF shadow = <<>> THEN BLOCK
       ELSE IF /\ Last(audits).digest = LongestStableRun(ShadowRuns(shadow)).digest
               /\ Last(audits).clean
       THEN PASS ELSE BLOCK

\* _fence_observation_window: clean observations are counted, wherever they stand.
FenceObservationWindow(idx) ==
    IF idx["FenceObservation"] = <<>> THEN NOT_MEASURED
    ELSE IF Holding(idx["FenceObservation"]) >= WindowHours THEN PASS
    ELSE BLOCK

FleetDrain(idx) ==
    IF idx["FleetDrain"] = <<>> THEN NOT_MEASURED
    ELSE IF Last(idx["FleetDrain"]) THEN PASS
    ELSE BLOCK

FreezeRollbackDrill(idx) ==
    IF idx["FreezeRollbackDrill"] = <<>> THEN NOT_MEASURED
    ELSE IF Holding(idx["FreezeRollbackDrill"]) > 0 THEN PASS
    ELSE BLOCK

\* _projection_100: every row of the latest regeneration is identical.
Projection100(idx) ==
    IF idx["ShadowProjection"] = <<>> THEN NOT_MEASURED
    ELSE IF Last(idx["ShadowProjection"]).whole THEN PASS
    ELSE BLOCK

\* _delta_batch: the conditions of the latest checklist, aggregated anew.
DeltaBatch(idx) ==
    LET lists == idx["DeltaChecklist"]
        said == {Last(lists).said[c] : c \in DeltaConditions}
    IN IF lists = <<>> THEN BLOCK
       ELSE IF Last(lists).shape = "other" THEN BLOCK
       ELSE IF "FAIL" \in said THEN BLOCK
       ELSE IF said \cap {NOT_MEASURED, "NOT_REPORTED"} # {} THEN NOT_MEASURED
       ELSE PASS

Bake(idx) == IF Len(idx["CutoverBakeObservation"]) >= BakeHours THEN PASS ELSE BLOCK

\* GATES: the verdicts of the requirements of the gate into a state, in their order.
Requirements(to, idx) ==
    CASE to = 1 -> <<ShadowStable(idx), ParityPairs(idx), DerivedMarker(idx)>>
      [] to = 2 -> <<Present(idx, "FreezeActivation"), FenceObservationWindow(idx), FleetDrain(idx),
                     FreezeRollbackDrill(idx)>>
      [] to = 3 -> <<Present(idx, "FenceProof")>>
      [] to = 4 -> <<Projection100(idx), ParityPairs(idx)>>
      [] to = 5 -> <<DeltaBatch(idx)>>
      [] to = 6 -> <<Present(idx, "CutoverRollbackDrill"), Present(idx, "DatabaseRestoreDrill")>>
      [] to = 7 -> <<Present(idx, "WriterEpoch"), Present(idx, "KeyInventory"),
                     Present(idx, "CutoverReadinessAttestation")>>
      [] to = 8 -> <<Bake(idx)>>

\* relied_on_refs: the classes whose documents a transition is said to rest on.  The class that
\* E5.1 names is not the schema of any document, so nothing is found for it.
ReliedOn(to) ==
    CASE to = 1 -> {"ShadowProjection", "ProjectionParity", "DerivedMarkerAudit"}
      [] to = 2 -> {"FreezeActivation", "FenceObservation", "FleetDrain", "FreezeRollbackDrill"}
      [] to = 3 -> {"FenceProof"}
      [] to = 4 -> {"ShadowProjection", "ProjectionParity"}
      [] to = 5 -> {}
      [] to = 6 -> {"CutoverRollbackDrill", "DatabaseRestoreDrill"}
      [] to = 7 -> {"WriterEpoch", "KeyInventory", "CutoverReadinessAttestation"}
      [] to = 8 -> {"CutoverBakeObservation"}

\* evaluate_gate: a block wins over an unmeasured requirement, both over a pass.
EvaluateGate(to, idx) ==
    LET verdicts == Range(Requirements(to, idx)) IN
    IF BLOCK \in verdicts THEN BLOCK ELSE IF NOT_MEASURED \in verdicts THEN NOT_MEASURED ELSE PASS
=============================================================================

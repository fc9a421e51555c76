------------------------------ MODULE MCLadder ------------------------------
(* The ladder with every threshold scaled down to two and two digests. *)
EXTENDS Ladder

CONSTANTS d1, d2, c1, c2

MCStatusMap == [r \in 1..2 |-> [v \in {"archived"} |-> IF r = 1 THEN "completed" ELSE "archived"]]

MCAmple ==
    [c \in Classes |->
        CASE c \in {"ProjectionParity", "FenceObservation", "CutoverBakeObservation"} -> <<TRUE, TRUE>>
          [] c = "ShadowProjection" -> [i \in 1..2 |-> [digest |-> d1, whole |-> TRUE]]
          [] c = "DerivedMarkerAudit" -> <<[digest |-> d1, clean |-> TRUE]>>
          [] c = "DeltaChecklist" -> <<[shape |-> "list", said |-> [x \in DeltaConditions |-> PASS]]>>
          [] OTHER -> <<TRUE>>]

MCGreen ==
    [dossier |-> "clean", epoch |-> "ok", head |-> "same", raw |-> {"archived"}, batch |-> 2,
     lost |-> FALSE, acks |-> "acked", conflicts |-> "counted", copied |-> TRUE, proof |-> TRUE, clean |-> [r \in Roles |-> "declared"],
     decision |-> "confirmed", issuer |-> "other", superseded |-> FALSE,
     reverse |-> {"epoch", "after_switching"}]
MCMaxDocs ==
    [c \in Classes |->
        IF c = "ShadowProjection" THEN 3
        ELSE IF c \in {"DerivedMarkerAudit", "CutoverBakeObservation"} THEN 2
        ELSE IF c \in {"FenceObservation", "ProjectionParity"} THEN 3
        ELSE IF c \in YesNoClasses THEN 2
        ELSE 1]

MCFocus ==
    {{"ShadowProjection", "DerivedMarkerAudit"}, {"ProjectionParity"}, {"FenceObservation", "FenceProof"},
     {"FleetDrain", "FreezeActivation"}, {"FreezeRollbackDrill"}, {"DeltaChecklist"},
     {"CutoverRollbackDrill", "DatabaseRestoreDrill", "WriterEpoch"},
     {"KeyInventory", "CutoverBakeObservation"}, {"CutoverReadinessAttestation", "sources"}}
=============================================================================

------------------------------ MODULE DataGate ------------------------------
(***************************************************************************)
(* The data gate of dev-tools/aup-transition/data_gate: two verifiers over *)
(* one collection of evidence, joined by conjunction only.  An attestation *)
(* is minted when both pass, a block receipt otherwise.                    *)
(*                                                                         *)
(* The inputs are a record s of what the program tree holds (SourceValues), the *)
(* evidence index of module Gates and the state of the readiness ladder.   *)
(***************************************************************************)
EXTENDS Gates

CONSTANTS RawValues,     \* raw status values found in the source files
          IndexCounts,   \* what can be known of the conflicts that the index plane holds
          StatusMap,     \* revision -> raw value -> class; absent values are unmapped
          Record         \* the revision of record: the highest that is vendored

\* collect_evidence counts no conflict of the index plane ({"none"}); evidence that does, as
\* that of the selftest, says "counted".
ASSUME IndexAssumption == IndexCounts \subseteq {"none", "counted"}

ASSUME MapsAssumption ==
    /\ Record \in DOMAIN StatusMap
    /\ \A r \in DOMAIN StatusMap : r <= Record /\ DOMAIN StatusMap[r] \subseteq RawValues

Planes == {"files", "muneral", "index"}
Roles == {"execution", "control"}
NoRevision == 0

\* What the program tree holds: the values each field can have.
SourceValues ==
    [dossier |-> {"missing", "unpinned", "unclean", "clean"},
     epoch |-> {"unpinned", "mismatch", "ok"},        \* against the corpus of the dossier
     head |-> {"unobserved", "moved", "same"},        \* against the head of the source set
     raw |-> SUBSET RawValues,                        \* the values that occur
     batch |-> DOMAIN StatusMap \cup {NoRevision},    \* the revision the store was imported under
     lost |-> BOOLEAN,                                \* the store lost a row of the batch
     acks |-> {"none", "planned", "probe", "acked"},  \* what the index acknowledged
     conflicts |-> IndexCounts,                       \* its conflicts, through the index plane
     copied |-> BOOLEAN,                              \* the byte copy is proven
     proof |-> BOOLEAN,                               \* a document of schema FenceProof/v1 is on file
     clean |-> [Roles -> {"missing", "mounted", "undeclared", "declared"}],
     decision |-> {"missing", "unconfirmed", "confirmed"},
     issuer |-> {"none", "signer", "other"},
     superseded |-> BOOLEAN,
     reverse |-> SUBSET {"epoch", "after_switching", "other"}]

IsSources(s) == DOMAIN s = DOMAIN SourceValues /\ \A f \in DOMAIN s : s[f] \in SourceValues[f]

-----------------------------------------------------------------------------
(* collect_evidence. *)

\* _classify_raw: the classes that the values fall in, through one revision of the map.
ClassifyRaw(raw, rev) == {StatusMap[rev][v] : v \in raw \cap DOMAIN StatusMap[rev]}
Unmapped(raw, rev) == raw \ DOMAIN StatusMap[rev]

\* _collect_index_plane: an acknowledgement measures it, a plan does not.
IndexPlaneState(acks) ==
    CASE acks = "acked" -> "MEASURED"
      [] acks = "probe" -> "UNKNOWN"
      [] OTHER -> "MISSING"

\* The store holds what the batch imported, under the revision of the batch.
StoreRows(s) ==
    IF s.batch = NoRevision \/ s.raw = {} THEN {}
    ELSE LET rows == ClassifyRaw(s.raw, s.batch) IN
         IF s.lost /\ rows # {} THEN rows \ {CHOOSE r \in rows : TRUE} ELSE rows

PlaneState(s, plane) ==
    CASE plane = "files" -> IF s.raw # {} THEN "MEASURED" ELSE "MISSING"
      [] plane = "muneral" -> IF StoreRows(s) # {} THEN "MEASURED" ELSE "MISSING"
      [] plane = "index" -> IndexPlaneState(s.acks)

\* The index plane answers for no class: its rows are all None.
PlaneRows(s, plane) ==
    CASE plane = "files" -> ClassifyRaw(s.raw, Record)
      [] plane = "muneral" -> StoreRows(s)

\* _probe_evidence_gate: the items of the decision's own evidence gate.  Receipts are counted,
\* no draft of a parity pair may be among them, and the fence proof is asked for under another
\* schema name than the one the ladder's gate reads (FenceProof/v1, not FenceProofReceipt/v1).
EvidenceGateItems(s, idx, transitions) ==
    /\ transitions # {}
    /\ Len(idx["ShadowProjection"]) >= StableRuns
    /\ Len(idx["ProjectionParity"]) >= 2 /\ Holding(idx["ProjectionParity"]) = Len(idx["ProjectionParity"])
    /\ s.proof
    /\ idx["DeltaChecklist"] # <<>>
    /\ idx["CutoverRollbackDrill"] # <<>> /\ idx["DatabaseRestoreDrill"] # <<>>
    /\ idx["WriterEpoch"] # <<>> /\ idx["KeyInventory"] # <<>>

\* _probe_reverse_if: no probe fires; a condition without a probe is not measured.
ReverseIf(cond, ladder) ==
    CASE cond = "epoch" -> "NOT_TRIGGERED"
      [] cond = "after_switching" -> IF ladder \in 7..8 THEN "NOT_TRIGGERED" ELSE "NOT_YET_APPLICABLE"
      [] OTHER -> NOT_MEASURED

-----------------------------------------------------------------------------
(* The two verifiers: each returns the set of the verdicts of its checks. *)

PassIf(b) == IF b THEN PASS ELSE BLOCK

\* D01..D05: the dossier and the source set epoch.
DossierChecks(s) ==
    {PassIf(s.dossier \in {"unclean", "clean"})}
    \cup (IF s.dossier = "missing" THEN {} ELSE {PassIf(s.dossier = "clean")})
    \cup {PassIf(s.epoch # "unpinned")}
    \cup (IF s.epoch = "unpinned" \/ s.dossier = "missing" THEN {} ELSE {PassIf(s.epoch = "ok")})
    \cup {IF s.head = "unobserved" THEN NOT_MEASURED ELSE PassIf(s.head = "same" /\ s.epoch # "unpinned")}

\* D06..D10: each plane, their agreement per class, the index, the conflicts.
PlaneChecks(s) ==
    LET measured == {p \in Planes : PlaneState(s, p) = "MEASURED"} IN
    {PassIf(PlaneState(s, p) = "MEASURED") : p \in Planes}
    \cup (IF Unmapped(s.raw, Record) # {} THEN {BLOCK} ELSE {})
    \cup {IF measured # Planes THEN NOT_MEASURED
          ELSE PassIf(PlaneRows(s, "files") = PlaneRows(s, "muneral"))}
    \cup {PassIf(PlaneState(s, "index") = "MEASURED")}
    \cup {IF s.conflicts = "none" THEN NOT_MEASURED ELSE PASS}

\* D11..D15: the mapping, the byte copy, the restore drill, the clean read-through.
StoreChecks(s, idx) ==
    {IF s.batch = NoRevision THEN NOT_MEASURED ELSE PassIf(s.batch = Record)}
    \cup {PassIf(s.batch = NoRevision \/ Unmapped(s.raw, s.batch) = {})}
    \cup {PassIf(s.copied), PassIf(idx["CutoverRollbackDrill"] # <<>> \/ idx["DatabaseRestoreDrill"] # <<>>)}
    \cup {PassIf(s.clean[r] = "declared") : r \in Roles}

VerifyData(s, idx) == DossierChecks(s) \cup PlaneChecks(s) \cup StoreChecks(s, idx)

\* Mutant: the receipt of the transition is taken for the state.
VerifyAuthorityByReceipt(s, idx, ladder, transitions) ==
    IF s.decision = "missing" THEN {BLOCK}
    ELSE {PASS, IF s.decision = "confirmed" THEN PASS ELSE NOT_MEASURED,
          PassIf(s.issuer # "none"), PassIf(s.issuer # "signer"), PassIf(~s.superseded),
          IF \E c \in s.reverse : ReverseIf(c, ladder) = NOT_MEASURED THEN NOT_MEASURED ELSE PASS,
          PassIf(6 \in transitions),
          PassIf(EvidenceGateItems(s, idx, transitions))}

\* A01..A08: nothing else is asked when the decision is missing.  The ladder stands at "none"
\* when its file is not there.
VerifyAuthority(s, idx, ladder, transitions) ==
    IF s.decision = "missing" THEN {BLOCK}
    ELSE {PASS, IF s.decision = "confirmed" THEN PASS ELSE NOT_MEASURED,
          PassIf(s.issuer # "none"), PassIf(s.issuer # "signer"), PassIf(~s.superseded),
          IF \E c \in s.reverse : ReverseIf(c, ladder) = NOT_MEASURED THEN NOT_MEASURED ELSE PASS,
          PassIf(ladder \in 6..8),
          PassIf(EvidenceGateItems(s, idx, transitions))}

\* _finish: a report passes when every check of it does.
Finish(checks) == IF checks = {PASS} THEN PASS ELSE BLOCK

\* mint: an attestation needs both passes; a block receipt withholds the ref of a verifier that
\* blocks.  Either names the evidence it was minted on.
Mint(s, data, authority) ==
    [on |-> s,
     schema |-> IF data = PASS /\ authority = PASS THEN "CutoverReadinessAttestation" ELSE "BlockReceipt",
     refs |-> (IF data = PASS THEN {"data"} ELSE {}) \cup (IF authority = PASS THEN {"authority"} ELSE {})]

\* run_gate over what is collected now.
RunGate(s, idx, ladder, transitions) ==
    Mint(s, Finish(VerifyData(s, idx)), Finish(VerifyAuthority(s, idx, ladder, transitions)))
=============================================================================

------------------------------- MODULE Broker -------------------------------
(***************************************************************************)
(* The credential broker (crates/credential-broker): connection handlers   *)
(* that authorise a request, reserve it in the durable ledger, call the    *)
(* provider on the caller's behalf and cache the response for replays.     *)
(*                                                                         *)
(* A handler step is what the code does between two points where another   *)
(* handler may run: a critical section of the `durable` or the `audit`     *)
(* mutex (neither contains an await), or the provider call.  The process   *)
(* may be killed, and the machine may lose power, between any two steps.   *)
(***************************************************************************)
EXTENDS Integers, FiniteSets, Sequences, Functions

CONSTANTS
  Conns,       \* connection permits (ServerConfig::max_connections)
  Keys,        \* idempotency keys
  Prints,      \* request fingerprints: peer, scope, expiry and payload
  Expiring,    \* fingerprints whose expires_at may pass
  Policies,    \* the policies an operator may start the broker with
  Outcomes,    \* what a provider call may end in
  Pids,        \* process ids the kernel may give the broker
  MaxEntries,  \* Ledger::max_entries (4096 in the code)
  U32Max,      \* the largest u32
  None         \* no key, no fingerprint

\* perform_provider_call: a 2xx or another status, an output the quarantine rejects,
\* a failed transport.
ASSUME OutcomesAssumption ==
  Outcomes \subseteq {"ok", "upstream_status", "output_quarantined", "upstream_failure"}

ASSUME NoneAssumption == None \notin Keys /\ None \notin Prints

\* CapabilityPolicy::check: a key is at most 128 characters of a fixed alphabet.
ASSUME KeysAssumption == IsFiniteSet(Keys)

ASSUME ExpiringAssumption == Expiring \subseteq Prints

ASSUME BoundsAssumption ==
  /\ MaxEntries \in Nat \ {0}
  /\ U32Max \in Nat \ {0}

(***************************************************************************)
(* CapabilityPolicy::validate: the quota and every cost are positive u32s. *)
(* `grants` holds the fingerprints whose every checked field but expiry    *)
(* satisfies the policy.                                                   *)
(***************************************************************************)
ValidPolicies ==
  [generation  : Nat,
   quota_limit : 1..U32Max,
   grants      : SUBSET Prints,
   cost        : [Prints -> 1..U32Max]]

ASSUME PolicyAssumption == Policies \subseteq ValidPolicies

NoEntry == [outcome |-> 0, charged |-> 0, fingerprint |-> None]
NoReply == [code |-> "none", outcome |-> 0]
NoLease == [outcome |-> 0, charged |-> 0, replayed |-> FALSE]

VARIABLES
  up,       \* the process is serving
  pid,      \* its process id
  policy,   \* the policy it was started with
  ledger,   \* DurableState.ledger, in memory
  cached,   \* DurableState.cached, in memory; NoReply where there is none
  disk,     \* the state file a process that starts now would read
  durable,  \* the state files a power loss may leave behind
  stale,    \* pids whose transaction file `state.tmp-<pid>` was left behind
  charges,  \* outcome ids that have a quota_charge record in the audit file
  expired,  \* fingerprints whose expires_at has passed
  conn,     \* one handler per connection permit
  sent,     \* history: provider requests sent per key
  decided,  \* history: the outcome of the key's provider call
  told      \* history: the last outcome a caller was given per key

memory == <<up, pid, policy, ledger, cached>>
files  == <<disk, durable, stale>>
vars   == <<memory, files, charges, expired, conn, sent, decided, told>>

-----------------------------------------------------------------------------
(***************************************************************************)
(* The ledger.                                                             *)
(***************************************************************************)

EmptyLedger(generation, limit) ==
  [generation   |-> generation,
   quota_limit  |-> limit,
   quota_spent  |-> 0,
   committed    |-> [k \in Keys |-> NoEntry],
   next_outcome |-> 1]

NoCache == [k \in Keys |-> NoReply]

\* No state file: load_state's NOENT branch. Generation 0 with quota 0 is no policy's.
Absent == [ledger |-> EmptyLedger(0, 0), cached |-> NoCache]

Committed(l) == {k \in Keys : l.committed[k] # NoEntry}

Cached(c) == {k \in Keys : c[k] # NoReply}

\* quota_spent.saturating_add(quota_units)
WouldSpend(l, units) ==
  IF l.quota_spent + units > U32Max THEN U32Max ELSE l.quota_spent + units

\* CapabilityPolicy::check: scope and identity first, expiry last.
Check(req) ==
  IF req.print \notin policy.grants THEN "scope"
  ELSE IF req.print \in expired THEN "expired"
  ELSE "none"

\* Ledger::commit on a known key: replay it, or refuse another request under it.
ReplayDenial(req) ==
  IF ledger.committed[req.key].fingerprint # req.print THEN "conflict" ELSE "none"

\* Mutant: the quota is looked at before the request is added to it.
MutantQuotaDenial(req) ==
  IF Cardinality(Committed(ledger)) >= MaxEntries THEN "capacity"
  ELSE IF ledger.quota_spent >= ledger.quota_limit THEN "quota"
  ELSE "none"

\* Ledger::commit on a new key: capacity, then quota.
FreshDenial(req) ==
  IF Cardinality(Committed(ledger)) >= MaxEntries THEN "capacity"
  ELSE IF WouldSpend(ledger, policy.cost[req.print]) > ledger.quota_limit THEN "quota"
  ELSE "none"

\* authorize: the first denial that applies.
Denial(req) ==
  IF Check(req) # "none" THEN Check(req)
  ELSE IF req.key \in Committed(ledger) THEN ReplayDenial(req)
  ELSE FreshDenial(req)

\* Ledger::commit, the new entry.
NewEntry(req) ==
  [outcome     |-> ledger.next_outcome,
   charged     |-> policy.cost[req.print],
   fingerprint |-> req.print]

Reserve(req) ==
  [generation   |-> ledger.generation,
   quota_limit  |-> ledger.quota_limit,
   quota_spent  |-> WouldSpend(ledger, policy.cost[req.print]),
   committed    |-> [ledger.committed EXCEPT ![req.key] = NewEntry(req)],
   next_outcome |-> ledger.next_outcome + 1]

Charged(l) == SumFunction([k \in Keys |-> l.committed[k].charged])

\* Ledger::durable_invariants_hold
DurableInvariantsHold(l) ==
  /\ Cardinality(Committed(l)) <= MaxEntries
  /\ l.quota_spent <= l.quota_limit
  /\ l.next_outcome = Cardinality(Committed(l)) + 1
  /\ \A k \in Committed(l) : l.committed[k].outcome \in 1..(l.next_outcome - 1)
                          /\ l.committed[k].charged > 0
  /\ \A j, k \in Committed(l) :
       l.committed[j].outcome = l.committed[k].outcome => j = k
  /\ Charged(l) <= U32Max            \* checked_add
  /\ Charged(l) = l.quota_spent

\* load_state on a state file that exists: may policy p start on it?
Accepts(p, s) ==
  /\ s.ledger.generation = p.generation
  /\ s.ledger.quota_limit = p.quota_limit
  /\ DurableInvariantsHold(s.ledger)
  /\ \A k \in Cached(s.cached) :
       k \in Committed(s.ledger) /\ s.cached[k].outcome = s.ledger.committed[k].outcome

-----------------------------------------------------------------------------
(***************************************************************************)
(* persist_state: write a transaction file, sync it, rename it over the    *)
(* state file, sync the directory.  "unpublished" is any failure up to the *)
(* rename, an existing transaction file of the same pid among them;        *)
(* "unsynced" is a failure of the directory sync: the new file is the one  *)
(* a restart reads, and a power loss may still bring back an older one.    *)
(***************************************************************************)
PersistResults == {"ok", "unpublished", "unsynced"}

Persist(l, c, result) ==
  LET new == [ledger |-> l, cached |-> c] IN
  /\ pid \in stale => result = "unpublished"
  /\ disk' = IF result = "unpublished" THEN disk ELSE new
  /\ durable' = CASE result = "ok"       -> {new}
                  [] result = "unsynced" -> durable \cup {new}
                  [] OTHER               -> durable
  /\ stale' = stale

(***************************************************************************)
(* AuditWriter::append validates, writes and syncs one record.  Of the     *)
(* audit file the model keeps the outcome ids that have a quota_charge     *)
(* record; any other append either succeeds or fails.                      *)
(***************************************************************************)

-----------------------------------------------------------------------------
(***************************************************************************)
(* The handler of one connection.                                          *)
(***************************************************************************)

Idle == [pc    |-> "idle",
         req   |-> [key |-> None, print |-> None],
         lease |-> NoLease,
         resp  |-> NoReply,
         again |-> FALSE]

Goto(c, pc) == conn' = [conn EXCEPT ![c] = [@ EXCEPT !.pc = pc]]

\* Ledger::commit's Lease.
GrantLease(c, outcome, charged, replayed) ==
  conn' = [conn EXCEPT ![c] =
             [@ EXCEPT !.pc = "audit_authorized",
                       !.lease = [outcome  |-> outcome,
                                  charged  |-> charged,
                                  replayed |-> replayed]]]

\* The response to the handler's own provider call: it carries the lease's outcome id.
Outcome(c, pc, code) ==
  conn' = [conn EXCEPT ![c] =
             [@ EXCEPT !.pc = pc,
                       !.resp = [code |-> code, outcome |-> conn[c].lease.outcome]]]

\* Give the caller a response: its code, and the lease's outcome id when it carries one.
Reply(c, code, outcome, replayed) ==
  conn' = [conn EXCEPT ![c] =
             [@ EXCEPT !.pc = "reply", !.again = replayed,
                       !.resp = [code |-> code, outcome |-> outcome]]]

\* serve + read_request: a permit is free and a request was read.
Accept(c, req) ==
  /\ up
  /\ conn[c].pc = "idle"
  /\ conn' = [conn EXCEPT ![c] = [Idle EXCEPT !.pc = "authorize", !.req = req]]
  /\ UNCHANGED <<memory, files, charges, expired, sent, decided, told>>

\* process, first critical section: policy or ledger refuse.
AuthorizeDenied(c) ==
  /\ conn[c].pc = "authorize"
  /\ Denial(conn[c].req) # "none"
  /\ Goto(c, "audit_denial")
  /\ UNCHANGED <<memory, files, charges, expired, sent, decided, told>>

\* process, first critical section: a replay lease; nothing is persisted.
AuthorizeReplay(c) ==
  LET req == conn[c].req IN
  /\ conn[c].pc = "authorize"
  /\ Denial(req) = "none"
  /\ req.key \in Committed(ledger)
  /\ GrantLease(c, ledger.committed[req.key].outcome, 0, TRUE)
  /\ UNCHANGED <<memory, files, charges, expired, sent, decided, told>>

\* Mutant: a failed persist is ignored.
MutantUnsynced(c) ==
  LET req == conn[c].req IN
  /\ conn[c].pc = "authorize"
  /\ Denial(req) = "none"
  /\ req.key \notin Committed(ledger)
  /\ ledger' = Reserve(req)
  /\ \E result \in PersistResults :
       /\ Persist(Reserve(req), cached, result)
       /\ GrantLease(c, ledger.next_outcome, policy.cost[req.print], FALSE)
  /\ UNCHANGED <<up, pid, policy, cached, charges, expired, sent, decided, told>>

\* Mutant: a known key is not recognised.
MutantRecharge(c) ==
  LET req == conn[c].req IN
  /\ conn[c].pc = "authorize"
  /\ Denial(req) = "none"
  /\ ledger' = Reserve(req)
  /\ Persist(Reserve(req), cached, "ok")
  /\ GrantLease(c, ledger.next_outcome, policy.cost[req.print], FALSE)
  /\ UNCHANGED <<up, pid, policy, cached, charges, expired, sent, decided, told>>

\* process, first critical section: reserve, then persist. A failed persist is
\* reported to the caller; the reservation stays in memory.
AuthorizeFresh(c) ==
  LET req == conn[c].req IN
  /\ conn[c].pc = "authorize"
  /\ Denial(req) = "none"
  /\ req.key \notin Committed(ledger)
  /\ ledger' = Reserve(req)
  /\ \E result \in PersistResults :
       /\ Persist(Reserve(req), cached, result)
       /\ IF result = "ok"
          THEN GrantLease(c, ledger.next_outcome, policy.cost[req.print], FALSE)
          ELSE Reply(c, "state_failure", 0, FALSE)
  /\ UNCHANGED <<up, pid, policy, cached, charges, expired, sent, decided, told>>

\* audit_denial
AuditDenial(c) ==
  /\ conn[c].pc = "audit_denial"
  /\ \E ok \in BOOLEAN :
       Reply(c, IF ok THEN "denied" ELSE "audit_failure", 0, FALSE)
  /\ UNCHANGED <<memory, files, charges, expired, sent, decided, told>>

\* audit_authorized: a policy_allow record and, for a fresh lease, a quota_charge.
\* The charge may be in the file although its sync failed.
AuditAuthorized(c) ==
  LET lease == conn[c].lease IN
  /\ conn[c].pc = "audit_authorized"
  /\ \E ok, written \in BOOLEAN :
       /\ ok => written
       /\ charges' = IF written /\ ~lease.replayed THEN charges \cup {lease.outcome}
                                                  ELSE charges
       /\ IF ok THEN Goto(c, IF lease.replayed THEN "read_cached" ELSE "call")
                ELSE Reply(c, "audit_failure", lease.outcome, FALSE)
  /\ UNCHANGED <<memory, files, expired, sent, decided, told>>

\* Mutant: a replay waits for the outcome of the operation in progress.
MutantReadCached(c) ==
  /\ conn[c].pc = "read_cached"
  /\ cached[conn[c].req.key] # NoReply
  /\ conn' = [conn EXCEPT ![c] = [@ EXCEPT !.pc = "audit_replay",
                                          !.resp = cached[conn[c].req.key]]]
  /\ UNCHANGED <<memory, files, charges, expired, sent, decided, told>>

\* process, second critical section of a replay: copy the cached response.
ReadCached(c) ==
  /\ conn[c].pc = "read_cached"
  /\ conn' = [conn EXCEPT ![c] = [@ EXCEPT !.pc = "audit_replay",
                                          !.resp = cached[conn[c].req.key]]]
  /\ UNCHANGED <<memory, files, charges, expired, sent, decided, told>>

\* Mutant: a pending reservation is retried at the provider.
MutantAuditReplay(c) ==
  /\ conn[c].pc = "audit_replay"
  /\ \/ /\ conn[c].resp # NoReply
        /\ Reply(c, conn[c].resp.code, conn[c].resp.outcome, TRUE)
        /\ told' = [told EXCEPT ![conn[c].req.key] = conn[c].resp]
     \/ /\ conn[c].resp = NoReply
        /\ Goto(c, "call")
        /\ UNCHANGED told
  /\ UNCHANGED <<memory, files, charges, expired, sent, decided>>

\* audit_replay, then the cached response, or in_progress when there was none.
AuditReplay(c) ==
  LET prior == conn[c].resp
      key   == conn[c].req.key
      id    == conn[c].lease.outcome
  IN
  /\ conn[c].pc = "audit_replay"
  /\ \/ Reply(c, "audit_failure", id, FALSE) /\ UNCHANGED told
     \/ /\ prior # NoReply
        /\ Reply(c, prior.code, prior.outcome, TRUE)
        /\ told' = [told EXCEPT ![key] = prior]
     \/ /\ prior = NoReply
        /\ Reply(c, "in_progress", id, FALSE)
        /\ UNCHANGED told
  /\ UNCHANGED <<memory, files, charges, expired, sent, decided>>

\* Adapter::call up to send(): the request leaves the broker, or is rejected before.
CallProvider(c) ==
  /\ conn[c].pc = "call"
  /\ \/ /\ Goto(c, "wait")
        /\ sent' = [sent EXCEPT ![conn[c].req.key] = @ + 1]
     \/ /\ Outcome(c, "audit_outcome", "upstream_failure")
        /\ UNCHANGED sent
  /\ UNCHANGED <<memory, files, charges, expired, decided, told>>

\* Adapter::call after send(): an answer, a quarantined one, or a failed transport
\* (the request deadline included).
ProviderOutcome(c) ==
  /\ conn[c].pc = "wait"
  /\ \E outcome \in Outcomes :
       Outcome(c, "audit_outcome", outcome)
  /\ UNCHANGED <<memory, files, charges, expired, sent, decided, told>>

\* perform_provider_call: audit the outcome and build the response. A failed append
\* replaces the response, which is then cached like any other.
AuditOutcome(c) ==
  /\ conn[c].pc = "audit_outcome"
  /\ \E ok \in BOOLEAN :
       Outcome(c, "finish", IF ok THEN conn[c].resp.code ELSE "audit_failure")
  /\ UNCHANGED <<memory, files, charges, expired, sent, decided, told>>

\* process, last critical section: cache the response, then persist.
Finish(c) ==
  LET key  == conn[c].req.key
      resp == conn[c].resp
      new  == [cached EXCEPT ![key] = resp]
  IN
  /\ conn[c].pc = "finish"
  /\ IF Cardinality(Cached(cached)) >= MaxEntries
     THEN /\ Reply(c, "state_capacity", 0, FALSE)
          /\ UNCHANGED <<cached, files, decided, told>>
     ELSE /\ cached' = new
          /\ decided' = [decided EXCEPT ![key] = resp]
          /\ \E result \in PersistResults :
               /\ Persist(ledger, new, result)
               /\ IF result = "ok"
                  THEN /\ Reply(c, resp.code, resp.outcome, FALSE)
                       /\ told' = [told EXCEPT ![key] = resp]
                  ELSE /\ Reply(c, "state_failure", 0, FALSE)
                       /\ told' = told
  /\ UNCHANGED <<up, pid, policy, ledger, charges, expired, sent>>

\* write_response, whether or not the caller still listens; the permit is released.
Respond(c) ==
  /\ conn[c].pc = "reply"
  /\ conn' = [conn EXCEPT ![c] = Idle]
  /\ UNCHANGED <<memory, files, charges, expired, sent, decided, told>>

-----------------------------------------------------------------------------
(***************************************************************************)
(* The process and its environment.                                        *)
(***************************************************************************)

\* main + serve: load_state under policy p. A refused start changes nothing.
Start(p, id) ==
  /\ ~up
  /\ disk = Absent \/ Accepts(p, disk)
  /\ up' = TRUE
  /\ pid' = id
  /\ policy' = p
  /\ ledger' = IF disk = Absent THEN EmptyLedger(p.generation, p.quota_limit)
                                ELSE disk.ledger
  /\ cached' = disk.cached
  /\ UNCHANGED <<files, charges, expired, conn, sent, decided, told>>

\* A handler is about to persist: a crash may leave its transaction file behind.
Persisting == \E c \in Conns : conn[c].pc \in {"authorize", "finish"}

\* The process dies: memory and connections are gone.
Die ==
  /\ up
  /\ up' = FALSE
  /\ ledger' = Absent.ledger
  /\ cached' = NoCache
  /\ conn' = [c \in Conns |-> Idle]
  /\ UNCHANGED <<pid, policy, charges, expired, sent, decided, told>>

\* The process is killed; the file system keeps what it shows.
Crash ==
  /\ Die
  /\ \/ stale' = stale
     \/ Persisting /\ stale' = stale \cup {pid}
  /\ UNCHANGED <<disk, durable>>

\* The machine loses power: an unsynced rename may be undone.
PowerLoss ==
  /\ Die
  /\ \E s \in durable : disk' = s /\ durable' = {s}
  /\ \/ stale' = stale
     \/ Persisting /\ stale' = stale \cup {pid}

\* The clock passes a request's expires_at.
Expire(f) ==
  /\ f \notin expired
  /\ expired' = expired \cup {f}
  /\ UNCHANGED <<memory, files, charges, conn, sent, decided, told>>

-----------------------------------------------------------------------------
Init ==
  /\ up = FALSE
  /\ pid \in Pids
  /\ policy \in Policies
  /\ ledger = Absent.ledger
  /\ cached = NoCache
  /\ disk = Absent
  /\ durable = {Absent}
  /\ stale = {}
  /\ charges = {}
  /\ expired = {}
  /\ conn = [c \in Conns |-> Idle]
  /\ sent = [k \in Keys |-> 0]
  /\ decided = [k \in Keys |-> NoReply]
  /\ told = [k \in Keys |-> NoReply]

Requests == [key : Keys, print : Prints]

HandlerStep(c) ==
  \/ AuthorizeDenied(c)
  \/ AuthorizeReplay(c)
  \/ AuthorizeFresh(c)
  \/ AuditDenial(c)
  \/ AuditAuthorized(c)
  \/ ReadCached(c)
  \/ AuditReplay(c)
  \/ CallProvider(c)
  \/ ProviderOutcome(c)
  \/ AuditOutcome(c)
  \/ Finish(c)
  \/ Respond(c)

Next ==
  \/ \E c \in Conns, req \in Requests : Accept(c, req)
  \/ \E c \in Conns : HandlerStep(c)
  \/ \E p \in Policies, id \in Pids : Start(p, id)
  \/ Crash
  \/ PowerLoss
  \/ \E f \in Expiring : Expire(f)

Spec == Init /\ [][Next]_vars

(***************************************************************************)
(* Tokio runs every ready task, audit and state files answer or fail, and  *)
(* REQUEST_DEADLINE bounds the provider call and the reply: a handler that *)
(* can step does.  Callers, crashes and restarts are not fair.             *)
(***************************************************************************)
FairSpec == Spec /\ \A c \in Conns : WF_vars(HandlerStep(c))

-----------------------------------------------------------------------------
(***************************************************************************)
(* Properties.                                                             *)
(***************************************************************************)

Entry == [outcome     : Nat,
          charged     : 0..U32Max,
          fingerprint : Prints \cup {None}]

Ledgers == [generation   : Nat,
            quota_limit  : 0..U32Max,
            quota_spent  : 0..U32Max,
            committed    : [Keys -> Entry],
            next_outcome : Nat \ {0}]

Codes == {"none", "ok", "upstream_status", "output_quarantined", "upstream_failure",
          "audit_failure", "state_failure", "state_capacity",
          "in_progress", "denied"}

Responses == [code : Codes, outcome : Nat]

States == [ledger : Ledgers, cached : [Keys -> Responses]]

Leases == [outcome : Nat, charged : 0..U32Max, replayed : BOOLEAN]

Handlers == [pc    : {"idle", "authorize", "audit_denial", "audit_authorized",
                      "read_cached", "audit_replay", "call", "wait", "audit_outcome",
                      "finish", "reply"},
             req   : [key : Keys \cup {None}, print : Prints \cup {None}],
             lease : Leases,
             resp  : Responses,
             again : BOOLEAN]

\* Every variable keeps its type; a handler past accept holds a real request.
TypeOK ==
  /\ up \in BOOLEAN
  /\ pid \in Pids
  /\ policy \in Policies
  /\ ledger \in Ledgers
  /\ cached \in [Keys -> Responses]
  /\ disk \in States
  /\ durable \subseteq States
  /\ stale \subseteq Pids
  /\ charges \subseteq Nat
  /\ expired \subseteq Prints
  /\ conn \in [Conns -> Handlers]
  /\ \A c \in Conns : conn[c].pc # "idle" => conn[c].req \in Requests
  /\ sent \in [Keys -> Nat]
  /\ decided \in [Keys -> Responses]
  /\ told \in [Keys -> Responses]

\* ledger.rs: "an accepted retry must not repeat a committed provider side effect".
\* Whatever the retries, failed syncs, kills and power losses, at most one request
\* leaves the broker for an idempotency key.
ProviderAtMostOnce == \A k \in Keys : sent[k] <= 1

\* A request leaves the broker only once its reservation and its charge can no longer
\* be lost: every state a power loss may leave behind holds the key, and the audit
\* file holds the charge under the outcome id that state gives the key.
ReservedBeforeSent ==
  \A k \in Keys, s \in durable :
    sent[k] > 0 =>
      /\ k \in Committed(s.ledger)
      /\ s.ledger.committed[k].outcome \in charges

\* The audit trail never claims a charge the durable ledger does not hold.
ChargesAreDurable ==
  \A id \in charges, s \in durable :
    \E k \in Committed(s.ledger) : s.ledger.committed[k].outcome = id

\* load_state never refuses a file the broker itself wrote: whatever a crash leaves
\* passes the checks under the policy that wrote it.
OwnStateAccepted ==
  \A s \in durable \cup {disk} :
    s # Absent => \E p \in Policies : Accepts(p, s)

\* process' state_capacity branch cannot be taken: the ledger's own capacity check
\* always refuses first, before the provider is called.
CapacityRefusedFirst ==
  \A c \in Conns : conn[c].pc = "finish" => Cardinality(Cached(cached)) < MaxEntries

\* The broker implements what IdempotentCall promises: across concurrent retries,
\* failed syncs, kills and restarts a key has one provider request and one outcome,
\* and no caller is told another.
Promise == INSTANCE IdempotentCall
             WITH performed <- sent, Answers <- Responses \ {NoReply}, None <- NoReply
ImplementsIdempotentCall == Promise!Spec

\* A reservation the running broker has answered for is kept for ever: once a charge
\* is recorded, no step of a handler, crash or restart changes the key's entry.
ChargedEntryKept ==
  [][\A k \in Keys, s \in durable, t \in durable' :
       sent[k] > 0 => t.ledger.committed[k] = s.ledger.committed[k]]_vars

\* Every accepted connection is answered and gives its permit back, or dies with
\* the process.
EveryConnectionReleased == \A c \in Conns : conn[c].pc # "idle" ~> conn[c].pc = "idle"

\* broker_runtime.rs: "do not claim a replayable response when the second sync fails".
\* A response handed out as a replay is one the broker would still replay after a
\* power loss.
ReplayIsDurable ==
  \A c \in Conns, s \in durable :
    conn[c].pc = "reply" /\ conn[c].again => s.cached[conn[c].req.key] = conn[c].resp

\* What the ledger in memory and every state file a crash may leave have charged never
\* exceeds their limit, over retries, failed syncs, kills and restarts (Ledger::commit's
\* quota test), as long as that is below u32::MAX: there the saturating sum no longer
\* tells an overrun.
QuotaNeverExceeded ==
  \A l \in {ledger} \cup {s.ledger : s \in durable} :
    l.quota_limit < U32Max => Charged(l) <= l.quota_limit

\* Whatever state file a crash leaves is one the next start can work with: it is within
\* its quota, and load_state accepts it under the policy that wrote it, also when a sync
\* failed and memory and file went apart (persist_state, durable_invariants_hold).
StateFilesSound == QuotaNeverExceeded /\ OwnStateAccepted

\* Ledger, audit trail and provider agree whatever was interrupted: a request has left
\* only under a reservation and a charge that cannot be lost, no charge is claimed that
\* the durable ledger does not hold, and a call that was made always finds a place for
\* its response (process, audit_authorized).
LedgerAndAuditAgree == ReservedBeforeSent /\ ChargesAreDurable /\ CapacityRefusedFirst

=============================================================================

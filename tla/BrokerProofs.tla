---------------------------- MODULE BrokerProofs ----------------------------
(***************************************************************************)
(* Proofs about Broker, for any number of connections, keys, fingerprints, *)
(* policies, restarts and crashes.                                         *)
(***************************************************************************)
EXTENDS Broker, FiniteSetTheorems, WellFoundedInduction, TLAPS

-----------------------------------------------------------------------------
(***************************************************************************)
(* The inductive invariant.                                                *)
(***************************************************************************)

\* The handler holds a lease that was reserved for it, not a replay of one.
Fresh(c) ==
  \/ conn[c].pc \in {"call", "wait", "audit_outcome", "finish"}
  \/ conn[c].pc = "audit_authorized" /\ ~conn[c].lease.replayed

\* What a restart reads is one of the files a power loss may leave; handlers need
\* a process.
FilesInv ==
  /\ disk \in durable
  /\ \A c \in Conns : conn[c].pc # "idle" => up

\* The state files and the memory agree on the entry of a key that was sent or
\* decided, and its charge is in the audit file.
SettledInv ==
  \A k \in Keys : sent[k] > 0 \/ decided[k] # NoReply =>
    /\ disk.ledger.committed[k] # NoEntry
    /\ disk.ledger.committed[k].outcome \in charges
    /\ \A s \in durable : s.ledger.committed[k] = disk.ledger.committed[k]
    /\ up => ledger.committed[k] = disk.ledger.committed[k]

\* A fresh lease is the entry of its key, in memory and in every state file; its
\* call has not been decided, and not been sent before it is.
LeaseHeld(c, k) ==
  /\ disk.ledger.committed[k] # NoEntry
  /\ disk.ledger.committed[k].outcome = conn[c].lease.outcome
  /\ \A s \in durable : s.ledger.committed[k] = disk.ledger.committed[k]
  /\ ledger.committed[k] = disk.ledger.committed[k]
  /\ decided[k] = NoReply
  /\ conn[c].pc \in {"audit_authorized", "call"} => sent[k] = 0
  /\ conn[c].pc # "audit_authorized" => conn[c].lease.outcome \in charges
  /\ conn[c].pc \in {"audit_outcome", "finish"} => conn[c].resp.code # "none"

LeaseInv == \A c \in Conns : Fresh(c) => LeaseHeld(c, conn[c].req.key)

\* No two handlers hold a fresh lease of one key.
ExclusiveInv ==
  \A c, d \in Conns :
    Fresh(c) /\ Fresh(d) /\ conn[c].req.key = conn[d].req.key => c = d

\* Every copy of a key's response, wherever it is, is the one that was decided.
CopiesInv ==
  /\ \A k \in Keys : cached[k] \in {NoReply, decided[k]}
  /\ \A k \in Keys : told[k] \in {NoReply, decided[k]}
  /\ \A k \in Keys, s \in durable : s.cached[k] \in {NoReply, decided[k]}
  /\ \A c \in Conns : conn[c].pc = "audit_replay" =>
       conn[c].resp \in {NoReply, decided[conn[c].req.key]}

IInv ==
  /\ TypeOK
  /\ FilesInv
  /\ SettledInv
  /\ LeaseInv
  /\ ExclusiveInv
  /\ CopiesInv
  /\ ProviderAtMostOnce

-----------------------------------------------------------------------------
(***************************************************************************)
(* Types.                                                                  *)
(***************************************************************************)

\* An idle handler, an empty ledger and an absent file have their types.
LEMMA EmptyTypes ==
  /\ Idle \in Handlers
  /\ NoReply \in Responses
  /\ NoCache \in [Keys -> Responses]
  /\ Absent \in States
  /\ \A p \in Policies : EmptyLedger(p.generation, p.quota_limit) \in Ledgers
<1>0. 0 \in 0..U32Max /\ NoEntry \in Entry
  BY BoundsAssumption, SMT DEF NoEntry, Entry
<1>1. Idle \in Handlers /\ NoReply \in Responses
  BY <1>0, SMT DEF Idle, Handlers, NoLease, Leases, NoReply, Responses, Codes
<1>2. NoCache \in [Keys -> Responses]
  BY <1>1 DEF NoCache
<1>3. \A g \in Nat, q \in 0..U32Max : EmptyLedger(g, q) \in Ledgers
  BY <1>0, SMT DEF EmptyLedger, Ledgers
<1>4. Absent \in States
  BY <1>0, <1>2, <1>3, SMT DEF Absent, States
<1>5. \A p \in Policies : p.generation \in Nat /\ p.quota_limit \in 0..U32Max
  BY PolicyAssumption, BoundsAssumption, SMT DEF ValidPolicies
<1> QED
  BY <1>1, <1>2, <1>3, <1>4, <1>5

\* Ledger::commit keeps the ledger well-typed: saturating_add never leaves u32.
LEMMA ReserveType ==
  ASSUME TypeOK, NEW req \in Requests
  PROVE  /\ Reserve(req) \in Ledgers
         /\ policy.cost[req.print] \in 1..U32Max
<1>1. policy.cost[req.print] \in 1..U32Max
  BY PolicyAssumption DEF TypeOK, Requests, ValidPolicies
<1>2. WouldSpend(ledger, policy.cost[req.print]) \in 0..U32Max
  BY <1>1, BoundsAssumption DEF WouldSpend, TypeOK, Ledgers
<1>3. NewEntry(req) \in Entry
  BY <1>1, SMT DEF NewEntry, TypeOK, Ledgers, Entry, Requests
<1> QED
  BY <1>1, <1>2, <1>3, SMT DEF Reserve, TypeOK, Ledgers, Requests

\* The part of TypeOK about the handlers.
ConnOK ==
  /\ conn \in [Conns -> Handlers]
  /\ \A c \in Conns : conn[c].pc # "idle" => conn[c].req \in Requests

\* The steps that touch one handler keep it well-typed.
LEMMA HandlerType ==
  ASSUME TypeOK, NEW c \in Conns, NEW h \in Handlers,
         h.pc # "idle" => h.req \in Requests,
         conn' = [conn EXCEPT ![c] = h]
  PROVE  ConnOK'
BY DEF ConnOK, TypeOK

LEMMA ReplyType ==
  ASSUME TypeOK, NEW c \in Conns, conn[c].pc # "idle",
         NEW code \in Codes, NEW outcome \in Nat, NEW again \in BOOLEAN,
         Reply(c, code, outcome, again)
  PROVE  ConnOK'
<1> DEFINE h == [conn[c] EXCEPT !.pc = "reply", !.again = again,
                                !.resp = [code |-> code, outcome |-> outcome]]
<1>1. h \in Handlers /\ h.req \in Requests
  BY DEF TypeOK, Handlers, Responses
<1>2. conn' = [conn EXCEPT ![c] = h]
  BY DEF Reply
<1> QED
  BY <1>1, <1>2, HandlerType

LEMMA GotoType ==
  ASSUME TypeOK, NEW c \in Conns, conn[c].pc # "idle",
         NEW pc \in {"audit_denial", "read_cached", "call", "wait"},
         Goto(c, pc)
  PROVE  ConnOK'
<1> DEFINE h == [conn[c] EXCEPT !.pc = pc]
<1>1. h \in Handlers /\ h.req \in Requests
  BY DEF TypeOK, Handlers
<1>2. conn' = [conn EXCEPT ![c] = h]
  BY DEF Goto
<1> QED
  BY <1>1, <1>2, HandlerType

LEMMA GrantType ==
  ASSUME TypeOK, NEW c \in Conns, conn[c].pc # "idle",
         NEW outcome \in Nat, NEW charged \in 0..U32Max, NEW again \in BOOLEAN,
         GrantLease(c, outcome, charged, again)
  PROVE  ConnOK'
<1> DEFINE h == [conn[c] EXCEPT !.pc = "audit_authorized",
                                !.lease = [outcome  |-> outcome,
                                           charged  |-> charged,
                                           replayed |-> again]]
<1>1. h \in Handlers /\ h.req \in Requests
  BY DEF TypeOK, Handlers, Leases
<1>2. conn' = [conn EXCEPT ![c] = h]
  BY DEF GrantLease
<1> QED
  BY <1>1, <1>2, HandlerType

LEMMA OutcomeType ==
  ASSUME TypeOK, NEW c \in Conns, conn[c].pc # "idle",
         NEW pc \in {"audit_outcome", "finish"}, NEW code \in Codes,
         Outcome(c, pc, code)
  PROVE  ConnOK'
<1> DEFINE h == [conn[c] EXCEPT !.pc = pc,
                                !.resp = [code |-> code, outcome |-> conn[c].lease.outcome]]
<1>1. conn[c] \in Handlers /\ conn[c].lease.outcome \in Nat
  BY DEF TypeOK, Handlers, Leases
<1>2. h \in Handlers /\ h.req \in Requests
  BY <1>1 DEF TypeOK, Handlers, Responses
<1>3. conn' = [conn EXCEPT ![c] = h]
  BY DEF Outcome
<1> QED
  BY <1>2, <1>3, HandlerType

\* Whatever persist_state does, the state files are states.
LEMMA PersistType ==
  ASSUME TypeOK, NEW l \in Ledgers, NEW r \in [Keys -> Responses],
         NEW result \in PersistResults, Persist(l, r, result)
  PROVE  disk' \in States /\ durable' \subseteq States /\ stale' \subseteq Pids
<1>1. [ledger |-> l, cached |-> r] \in States
  BY DEF States
<1> QED
  BY <1>1 DEF Persist, PersistResults, TypeOK

\* Every action keeps the types.
LEMMA TypeNext == TypeOK /\ [Next]_vars => TypeOK'
<1> SUFFICES ASSUME TypeOK, [Next]_vars PROVE TypeOK'
  OBVIOUS
<1> USE DEF memory, files
<1>1. ASSUME NEW c \in Conns, NEW req \in Requests, Accept(c, req) PROVE TypeOK'
  <2>1. ConnOK'
    <3> DEFINE h == [Idle EXCEPT !.pc = "authorize", !.req = req]
    <3>1. h \in Handlers /\ h.req \in Requests
      BY EmptyTypes DEF Handlers, Idle, Requests
    <3> QED
      BY <1>1, <3>1, HandlerType DEF Accept
  <2> QED
    BY <1>1, <2>1 DEF Accept, ConnOK, TypeOK
<1>2. ASSUME NEW c \in Conns, AuthorizeDenied(c) PROVE TypeOK'
  BY <1>2, GotoType DEF AuthorizeDenied, ConnOK, TypeOK
<1>3. ASSUME NEW c \in Conns, AuthorizeReplay(c) PROVE TypeOK'
  <2>1. ledger.committed[conn[c].req.key].outcome \in Nat
    BY <1>3 DEF AuthorizeReplay, TypeOK, Ledgers, Entry, Requests
  <2>2. ConnOK'
    <3>1. 0 \in 0..U32Max /\ conn[c].pc # "idle"
      BY <1>3, BoundsAssumption DEF AuthorizeReplay
    <3> QED
      BY <1>3, <2>1, <3>1, GrantType DEF AuthorizeReplay
  <2> QED
    BY <1>3, <2>2 DEF AuthorizeReplay, ConnOK, TypeOK
<1>4. ASSUME NEW c \in Conns, AuthorizeFresh(c) PROVE TypeOK'
  <2> DEFINE req == conn[c].req
  <2>1. req \in Requests /\ conn[c].pc # "idle"
    BY <1>4 DEF AuthorizeFresh, TypeOK
  <2>2. Reserve(req) \in Ledgers /\ policy.cost[req.print] \in 1..U32Max
    BY <2>1, ReserveType
  <2>3. PICK result \in PersistResults :
          /\ Persist(Reserve(req), cached, result)
          /\ IF result = "ok"
             THEN GrantLease(c, ledger.next_outcome, policy.cost[req.print], FALSE)
             ELSE Reply(c, "state_failure", 0, FALSE)
    BY <1>4 DEF AuthorizeFresh
  <2>4. disk' \in States /\ durable' \subseteq States /\ stale' \subseteq Pids
    BY <2>2, <2>3, PersistType DEF TypeOK
  <2>5. CASE result = "ok"
    <3>1. ConnOK'
      <4>1. ledger.next_outcome \in Nat /\ policy.cost[req.print] \in 0..U32Max
        BY <2>2, BoundsAssumption DEF TypeOK, Ledgers
      <4> QED
        BY <2>1, <2>3, <2>5, <4>1, GrantType
    <3> QED
      BY <1>4, <2>2, <2>4, <3>1 DEF AuthorizeFresh, ConnOK, TypeOK
  <2>6. CASE result # "ok"
    <3>1. ConnOK'
      BY <2>1, <2>3, <2>6, ReplyType DEF Codes
    <3> QED
      BY <1>4, <2>2, <2>4, <3>1 DEF AuthorizeFresh, ConnOK, TypeOK
  <2> QED
    BY <2>5, <2>6
<1>5. ASSUME NEW c \in Conns, AuditDenial(c) PROVE TypeOK'
  <2>1. ConnOK'
    BY <1>5, ReplyType DEF AuditDenial, Codes
  <2> QED
    BY <1>5, <2>1 DEF AuditDenial, ConnOK, TypeOK
<1>6. ASSUME NEW c \in Conns, AuditAuthorized(c) PROVE TypeOK'
  <2>1. conn[c].lease.outcome \in Nat
    BY DEF TypeOK, Handlers, Leases
  <2>2. ConnOK'
    BY <1>6, <2>1, ReplyType, GotoType DEF AuditAuthorized, Codes
  <2> QED
    BY <1>6, <2>1, <2>2 DEF AuditAuthorized, ConnOK, TypeOK
<1>7. ASSUME NEW c \in Conns, ReadCached(c) PROVE TypeOK'
  <2>1. cached[conn[c].req.key] \in Responses
    BY <1>7 DEF ReadCached, TypeOK, Requests
  <2>2. ConnOK'
    <3> DEFINE h == [conn[c] EXCEPT !.pc = "audit_replay",
                                    !.resp = cached[conn[c].req.key]]
    <3>1. h \in Handlers /\ h.req \in Requests
      BY <1>7, <2>1 DEF ReadCached, TypeOK, Handlers
    <3> QED
      BY <1>7, <3>1, HandlerType DEF ReadCached
  <2> QED
    BY <1>7, <2>2 DEF ReadCached, ConnOK, TypeOK
<1>8. ASSUME NEW c \in Conns, AuditReplay(c) PROVE TypeOK'
  <2>1. /\ conn[c].lease.outcome \in Nat /\ conn[c].resp \in Responses
        /\ conn[c].resp.code \in Codes /\ conn[c].resp.outcome \in Nat
    BY DEF TypeOK, Handlers, Leases, Responses
  <2>2. ConnOK'
    BY <1>8, <2>1, ReplyType DEF AuditReplay, Codes
  <2>3. told' \in [Keys -> Responses]
    BY <1>8, <2>1 DEF AuditReplay, TypeOK
  <2> QED
    BY <1>8, <2>2, <2>3 DEF AuditReplay, ConnOK, TypeOK
<1>9. ASSUME NEW c \in Conns, CallProvider(c) PROVE TypeOK'
  <2>1. ConnOK'
    BY <1>9, GotoType, OutcomeType DEF CallProvider, Codes
  <2>2. sent' \in [Keys -> Nat]
    BY <1>9 DEF CallProvider, TypeOK
  <2> QED
    BY <1>9, <2>1, <2>2 DEF CallProvider, ConnOK, TypeOK
<1>10. ASSUME NEW c \in Conns, ProviderOutcome(c) PROVE TypeOK'
  <2>1. ConnOK'
    BY <1>10, OutcomesAssumption, OutcomeType DEF ProviderOutcome, Codes
  <2> QED
    BY <1>10, <2>1 DEF ProviderOutcome, ConnOK, TypeOK
<1>11. ASSUME NEW c \in Conns, AuditOutcome(c) PROVE TypeOK'
  <2>1. ConnOK'
    <3>1. conn[c].resp.code \in Codes
      BY DEF TypeOK, Handlers, Responses
    <3> QED
      BY <1>11, <3>1, OutcomeType DEF AuditOutcome, Codes
  <2> QED
    BY <1>11, <2>1 DEF AuditOutcome, ConnOK, TypeOK
<1>12. ASSUME NEW c \in Conns, Finish(c) PROVE TypeOK'
  <2> DEFINE new == [cached EXCEPT ![conn[c].req.key] = conn[c].resp]
  <2>1. /\ conn[c].pc # "idle" /\ conn[c].resp \in Responses
        /\ conn[c].resp.code \in Codes /\ conn[c].resp.outcome \in Nat
    BY <1>12 DEF Finish, TypeOK, Handlers, Responses
  <2>2. new \in [Keys -> Responses]
    BY <2>1 DEF TypeOK
  <2>3. ConnOK'
    BY <1>12, <2>1, ReplyType DEF Finish, Codes
  <2>4. disk' \in States /\ durable' \subseteq States /\ stale' \subseteq Pids
    <3>1. CASE Cardinality(Cached(cached)) >= MaxEntries
      BY <1>12, <3>1 DEF Finish, TypeOK
    <3>2. CASE ~(Cardinality(Cached(cached)) >= MaxEntries)
      <4>1. PICK result \in PersistResults : Persist(ledger, new, result)
        BY <1>12, <3>2 DEF Finish
      <4> QED
        BY <2>2, <4>1, PersistType DEF TypeOK
    <3> QED
      BY <3>1, <3>2
  <2>5. /\ cached' \in [Keys -> Responses]
        /\ decided' \in [Keys -> Responses]
        /\ told' \in [Keys -> Responses]
    BY <1>12, <2>1 DEF Finish, TypeOK
  <2> QED
    BY <1>12, <2>3, <2>4, <2>5 DEF Finish, ConnOK, TypeOK
<1>13. ASSUME NEW c \in Conns, Respond(c) PROVE TypeOK'
  <2>1. ConnOK'
    BY <1>13, EmptyTypes DEF Respond, ConnOK, TypeOK, Idle
  <2> QED
    BY <1>13, <2>1 DEF Respond, ConnOK, TypeOK
<1>14. ASSUME NEW p \in Policies, NEW id \in Pids, Start(p, id) PROVE TypeOK'
  <2>1. disk.ledger \in Ledgers /\ disk.cached \in [Keys -> Responses]
    BY DEF TypeOK, States
  <2> QED
    BY <1>14, <2>1, EmptyTypes DEF Start, TypeOK
<1>15. ASSUME Die PROVE ConnOK' /\ ledger' \in Ledgers /\ cached' \in [Keys -> Responses]
  BY <1>15, EmptyTypes DEF Die, ConnOK, Idle, States
<1>16. ASSUME Crash PROVE TypeOK'
  <2>1. Die
    BY <1>16 DEF Crash
  <2> QED
    BY <1>15, <1>16, <2>1 DEF Crash, Die, ConnOK, TypeOK
<1>17. ASSUME PowerLoss PROVE TypeOK'
  <2>1. Die
    BY <1>17 DEF PowerLoss
  <2> QED
    BY <1>15, <1>17, <2>1 DEF PowerLoss, Die, ConnOK, TypeOK
<1>18. ASSUME NEW f \in Expiring, Expire(f) PROVE TypeOK'
  BY <1>18, ExpiringAssumption DEF Expire, TypeOK
<1>19. CASE UNCHANGED vars
  BY <1>19 DEF vars, TypeOK
<1> QED
  BY <1>1, <1>2, <1>3, <1>4, <1>5, <1>6, <1>7, <1>8, <1>9, <1>10, <1>11, <1>12,
     <1>13, <1>14, <1>16, <1>17, <1>18, <1>19
  DEF Next, HandlerStep

LEMMA TypeInit == Init => TypeOK
<1> SUFFICES ASSUME Init PROVE TypeOK
  OBVIOUS
<1>1. ConnOK
  BY EmptyTypes DEF Init, ConnOK, Idle
<1>2. ledger \in Ledgers /\ disk \in States /\ durable \subseteq States
  BY EmptyTypes DEF Init, States
<1> QED
  BY <1>1, <1>2, EmptyTypes DEF Init, ConnOK, TypeOK

\* Every reachable state is well-typed.
THEOREM TypeCorrect == Spec => []TypeOK
BY TypeInit, TypeNext, PTL DEF Spec

-----------------------------------------------------------------------------
(***************************************************************************)
(* One provider request per key.                                           *)
(***************************************************************************)

\* A step of one handler that leaves the ledger, the files and the histories alone
\* keeps the invariant if it neither claims a lease the handler did not hold nor
\* picks up a response that was not decided.
LEMMA QuietStep ==
  ASSUME IInv, TypeOK', NEW c \in Conns,
         UNCHANGED <<up, ledger, cached, disk, durable, sent, decided, told>>,
         charges \subseteq charges',
         \A d \in Conns \ {c} : conn'[d] = conn[d],
         up,
         Fresh(c)' =>
           /\ Fresh(c)
           /\ conn'[c].req.key = conn[c].req.key
           /\ conn'[c].lease.outcome = conn[c].lease.outcome
           /\ conn'[c].pc \in {"audit_authorized", "call"} => sent[conn[c].req.key] = 0
           /\ conn'[c].pc # "audit_authorized" => conn[c].lease.outcome \in charges'
           /\ conn'[c].pc \in {"audit_outcome", "finish"} => conn'[c].resp.code # "none",
         conn'[c].pc = "audit_replay" =>
           conn'[c].resp \in {NoReply, decided[conn'[c].req.key]}
  PROVE  IInv'
<1>0. \A d \in Conns \ {c} : Fresh(d)' <=> Fresh(d)
  BY DEF Fresh
<1>1. FilesInv'
  BY DEF IInv, FilesInv
<1>2. SettledInv'
  BY DEF IInv, SettledInv
<1>3. LeaseInv'
  <2> SUFFICES ASSUME NEW d \in Conns, Fresh(d)' PROVE LeaseHeld(d, conn[d].req.key)'
    BY DEF LeaseInv
  <2>1. Fresh(d) /\ LeaseHeld(d, conn[d].req.key)
    BY <1>0 DEF IInv, LeaseInv
  <2>2. CASE d = c
    BY <2>1, <2>2 DEF LeaseHeld
  <2>3. CASE d # c
    BY <2>1, <2>3 DEF LeaseHeld
  <2> QED
    BY <2>2, <2>3
<1>4. ExclusiveInv'
  BY <1>0 DEF IInv, ExclusiveInv
<1>5. CopiesInv'
  BY DEF IInv, CopiesInv
<1>6. ProviderAtMostOnce'
  BY DEF IInv, ProviderAtMostOnce
<1> QED
  BY <1>1, <1>2, <1>3, <1>4, <1>5, <1>6 DEF IInv

\* What Reply, Goto, GrantLease and Outcome do to the handlers.
LEMMA HandlerSteps ==
  ASSUME TypeOK, NEW c \in Conns
  PROVE  /\ \A code, outcome, again : Reply(c, code, outcome, again) =>
              /\ conn'[c].pc = "reply"
              /\ \A d \in Conns \ {c} : conn'[d] = conn[d]
         /\ \A pc : Goto(c, pc) =>
              /\ conn'[c].pc = pc
              /\ conn'[c].req = conn[c].req /\ conn'[c].lease = conn[c].lease
              /\ \A d \in Conns \ {c} : conn'[d] = conn[d]
         /\ \A outcome, charged, again : GrantLease(c, outcome, charged, again) =>
              /\ conn'[c].pc = "audit_authorized"
              /\ conn'[c].req = conn[c].req
              /\ conn'[c].lease.outcome = outcome /\ conn'[c].lease.replayed = again
              /\ \A d \in Conns \ {c} : conn'[d] = conn[d]
         /\ \A pc, code : Outcome(c, pc, code) =>
              /\ conn'[c].pc = pc
              /\ conn'[c].req = conn[c].req /\ conn'[c].lease = conn[c].lease
              /\ conn'[c].resp.code = code
              /\ \A d \in Conns \ {c} : conn'[d] = conn[d]
<1>1. conn \in [Conns -> Handlers]
  BY DEF TypeOK
<1>2. ASSUME NEW code, NEW outcome, NEW again, Reply(c, code, outcome, again)
      PROVE  /\ conn'[c].pc = "reply"
             /\ \A d \in Conns \ {c} : conn'[d] = conn[d]
  BY <1>1, <1>2 DEF Reply, Handlers
<1>3. ASSUME NEW pc, Goto(c, pc)
      PROVE  /\ conn'[c].pc = pc
             /\ conn'[c].req = conn[c].req /\ conn'[c].lease = conn[c].lease
             /\ \A d \in Conns \ {c} : conn'[d] = conn[d]
  BY <1>1, <1>3 DEF Goto, Handlers
<1>4. ASSUME NEW outcome, NEW charged, NEW again, GrantLease(c, outcome, charged, again)
      PROVE  /\ conn'[c].pc = "audit_authorized"
             /\ conn'[c].req = conn[c].req
             /\ conn'[c].lease.outcome = outcome /\ conn'[c].lease.replayed = again
             /\ \A d \in Conns \ {c} : conn'[d] = conn[d]
  BY <1>1, <1>4 DEF GrantLease, Handlers
<1>5. ASSUME NEW pc, NEW code, Outcome(c, pc, code)
      PROVE  /\ conn'[c].pc = pc
             /\ conn'[c].req = conn[c].req /\ conn'[c].lease = conn[c].lease
             /\ conn'[c].resp.code = code
             /\ \A d \in Conns \ {c} : conn'[d] = conn[d]
  BY <1>1, <1>5 DEF Outcome, Handlers
<1> QED
  BY <1>2, <1>3, <1>4, <1>5

\* persist_state and the entry of a key on which memory and files agree.
LEMMA PersistEffect ==
  ASSUME disk \in durable, NEW l, NEW r,
         NEW result \in PersistResults, Persist(l, r, result)
  PROVE  /\ disk' \in durable'
         /\ \A s \in durable' : s \in durable \/ s = [ledger |-> l, cached |-> r]
         /\ disk' = disk \/ disk' = [ledger |-> l, cached |-> r]
         /\ result = "ok" => /\ disk' = [ledger |-> l, cached |-> r]
                            /\ durable' = {[ledger |-> l, cached |-> r]}
BY DEF Persist, PersistResults

\* The steps that only move a handler on.
LEMMA QuietSteps ==
  ASSUME IInv, TypeOK', NEW c \in Conns,
         \/ \E req \in Requests : Accept(c, req)
         \/ AuthorizeDenied(c)
         \/ AuthorizeReplay(c)
         \/ AuditDenial(c)
         \/ AuditAuthorized(c)
         \/ ReadCached(c)
         \/ ProviderOutcome(c)
         \/ AuditOutcome(c)
         \/ Respond(c)
  PROVE  IInv'
<1> USE DEF memory, files
<1>0. TypeOK /\ (conn[c].pc # "idle" => up)
  BY DEF IInv, FilesInv
<1>1. ASSUME NEW req \in Requests, Accept(c, req) PROVE IInv'
  <2>1. conn'[c].pc = "authorize" /\ \A d \in Conns \ {c} : conn'[d] = conn[d]
    BY <1>0, <1>1 DEF Accept, Idle, TypeOK
  <2> QED
    BY <1>1, <2>1, QuietStep DEF Accept, Fresh
<1>2. ASSUME AuthorizeDenied(c) PROVE IInv'
  BY <1>0, <1>2, HandlerSteps, QuietStep DEF AuthorizeDenied, Fresh
<1>3. ASSUME AuthorizeReplay(c) PROVE IInv'
  <2>1. GrantLease(c, ledger.committed[conn[c].req.key].outcome, 0, TRUE)
    BY <1>3 DEF AuthorizeReplay
  <2>2. /\ conn'[c].pc = "audit_authorized" /\ conn'[c].lease.replayed = TRUE
        /\ \A d \in Conns \ {c} : conn'[d] = conn[d]
    BY <1>0, <2>1 DEF GrantLease, TypeOK, Handlers
  <2>3. ~Fresh(c)'
    BY <2>2 DEF Fresh
  <2> QED
    BY <1>0, <1>3, <2>2, <2>3, QuietStep DEF AuthorizeReplay
<1>4. ASSUME AuditDenial(c) PROVE IInv'
  <2>1. PICK code : Reply(c, code, 0, FALSE)
    BY <1>4 DEF AuditDenial
  <2>2. conn'[c].pc = "reply" /\ \A d \in Conns \ {c} : conn'[d] = conn[d]
    BY <1>0, <2>1, HandlerSteps
  <2> QED
    BY <1>0, <1>4, <2>2, QuietStep DEF AuditDenial, Fresh
<1>5. ASSUME AuditAuthorized(c) PROVE IInv'
  <2>1. PICK ok \in BOOLEAN, written \in BOOLEAN :
          /\ ok => written
          /\ charges' = IF written /\ ~conn[c].lease.replayed
                        THEN charges \cup {conn[c].lease.outcome} ELSE charges
          /\ IF ok THEN Goto(c, IF conn[c].lease.replayed THEN "read_cached" ELSE "call")
                   ELSE Reply(c, "audit_failure", conn[c].lease.outcome, FALSE)
    BY <1>5 DEF AuditAuthorized
  <2>2. conn[c].pc = "audit_authorized" /\ up
    BY <1>0, <1>5 DEF AuditAuthorized
  <2>3. CASE ok /\ ~conn[c].lease.replayed
    <3>1. Fresh(c) /\ LeaseHeld(c, conn[c].req.key)
      BY <2>2, <2>3 DEF IInv, LeaseInv, Fresh
    <3>2. Goto(c, "call") /\ charges' = charges \cup {conn[c].lease.outcome}
      BY <2>1, <2>3
    <3>3. /\ conn'[c].pc = "call" /\ conn'[c].req = conn[c].req /\ conn'[c].lease = conn[c].lease
          /\ \A d \in Conns \ {c} : conn'[d] = conn[d]
      BY <1>0, <3>2, HandlerSteps
    <3>4. sent[conn[c].req.key] = 0
      BY <2>2, <3>1 DEF LeaseHeld
    <3>5. UNCHANGED <<up, ledger, cached, disk, durable, sent, decided, told>>
      BY <1>5 DEF AuditAuthorized
    <3> QED
      BY <2>2, <3>1, <3>2, <3>3, <3>4, <3>5, QuietStep
  <2>4. CASE ok /\ conn[c].lease.replayed
    <3>1. Goto(c, "read_cached") /\ charges' = charges
      BY <2>1, <2>4
    <3> QED
      BY <1>0, <1>5, <2>2, <3>1, HandlerSteps, QuietStep DEF AuditAuthorized, Fresh
  <2>5. CASE ~ok
    <3>1. Reply(c, "audit_failure", conn[c].lease.outcome, FALSE) /\ charges \subseteq charges'
      BY <2>1, <2>5
    <3> QED
      BY <1>0, <1>5, <2>2, <3>1, HandlerSteps, QuietStep DEF AuditAuthorized, Fresh
  <2> QED
    BY <2>3, <2>4, <2>5
<1>6. ASSUME ReadCached(c) PROVE IInv'
  <2>1. /\ conn'[c].pc = "audit_replay" /\ conn'[c].req = conn[c].req
        /\ conn'[c].resp = cached[conn[c].req.key]
        /\ \A d \in Conns \ {c} : conn'[d] = conn[d]
    BY <1>0, <1>6 DEF ReadCached, TypeOK, Handlers
  <2>2. conn[c].req.key \in Keys
    BY <1>0, <1>6 DEF ReadCached, TypeOK, Requests
  <2>3. conn'[c].resp \in {NoReply, decided[conn'[c].req.key]}
    BY <2>1, <2>2 DEF IInv, CopiesInv
  <2> QED
    BY <1>0, <1>6, <2>1, <2>3, QuietStep DEF ReadCached, Fresh
<1>7. ASSUME ProviderOutcome(c) PROVE IInv'
  <2>1. PICK outcome \in Outcomes : Outcome(c, "audit_outcome", outcome)
    BY <1>7 DEF ProviderOutcome
  <2>2. outcome # "none"
    BY OutcomesAssumption
  <2>3. Fresh(c) /\ LeaseHeld(c, conn[c].req.key) /\ conn[c].pc = "wait"
    BY <1>7 DEF ProviderOutcome, IInv, LeaseInv, Fresh
  <2> QED
    BY <1>0, <1>7, <2>1, <2>2, <2>3, HandlerSteps, QuietStep DEF ProviderOutcome, LeaseHeld
<1>8. ASSUME AuditOutcome(c) PROVE IInv'
  <2>1. PICK ok \in BOOLEAN :
          Outcome(c, "finish", IF ok THEN conn[c].resp.code ELSE "audit_failure")
    BY <1>8 DEF AuditOutcome
  <2>2. Fresh(c) /\ LeaseHeld(c, conn[c].req.key) /\ conn[c].pc = "audit_outcome"
    BY <1>8 DEF AuditOutcome, IInv, LeaseInv, Fresh
  <2> QED
    BY <1>0, <1>8, <2>1, <2>2, HandlerSteps, QuietStep DEF AuditOutcome, LeaseHeld
<1>9. ASSUME Respond(c) PROVE IInv'
  <2>1. conn'[c].pc = "idle" /\ \A d \in Conns \ {c} : conn'[d] = conn[d]
    BY <1>0, <1>9 DEF Respond, Idle, TypeOK
  <2> QED
    BY <1>0, <1>9, <2>1, QuietStep DEF Respond, Fresh
<1> QED
  BY <1>1, <1>2, <1>3, <1>4, <1>5, <1>6, <1>7, <1>8, <1>9

\* A reservation: the key was neither sent nor decided before, and if the lease is
\* granted every state file holds it.
LEMMA FreshStep ==
  ASSUME IInv, TypeOK', NEW c \in Conns, AuthorizeFresh(c)
  PROVE  IInv'
<1> DEFINE req == conn[c].req
           k == req.key
           new == [ledger |-> Reserve(req), cached |-> cached]
<1>0. TypeOK /\ up /\ req \in Requests /\ k \in Keys /\ ledger.committed[k] = NoEntry
  BY DEF IInv, FilesInv, AuthorizeFresh, TypeOK, Requests, Committed
<1>1. PICK result \in PersistResults :
        /\ Persist(Reserve(req), cached, result)
        /\ IF result = "ok"
           THEN GrantLease(c, ledger.next_outcome, policy.cost[req.print], FALSE)
           ELSE Reply(c, "state_failure", 0, FALSE)
  BY DEF AuthorizeFresh
<1>2. UNCHANGED <<up, cached, charges, sent, decided, told>> /\ ledger' = Reserve(req)
  BY DEF AuthorizeFresh
<1>3. sent[k] = 0 /\ decided[k] = NoReply
  BY <1>0 DEF IInv, SettledInv, TypeOK
<1>4. \A d \in Conns : Fresh(d) => d # c /\ conn[d].req.key # k
  BY <1>0 DEF IInv, LeaseInv, LeaseHeld, Fresh, AuthorizeFresh
<1>5. /\ \A j \in Keys : j # k => ledger'.committed[j] = ledger.committed[j]
      /\ ledger'.committed[k] = NewEntry(req)
      /\ ledger'.committed[k].outcome = ledger.next_outcome
      /\ ledger'.committed[k] # NoEntry
  BY <1>0, <1>2, NoneAssumption DEF Reserve, NewEntry, NoEntry, TypeOK, Ledgers, Requests
<1>6. /\ disk' \in durable'
      /\ \A s \in durable' : s \in durable \/ s = new
      /\ disk' = disk \/ disk' = new
      /\ result = "ok" => disk' = new /\ durable' = {new}
  BY <1>1, PersistEffect DEF IInv, FilesInv
<1>7. new.ledger = ledger' /\ new.cached = cached
  BY <1>2
<1>8. /\ conn'[c].pc \in {"reply", "audit_authorized"}
      /\ \A d \in Conns \ {c} : conn'[d] = conn[d] /\ (Fresh(d)' <=> Fresh(d))
  BY <1>0, <1>1, HandlerSteps DEF Fresh
<1>9. FilesInv'
  BY <1>0, <1>2, <1>6, <1>8 DEF IInv, FilesInv
<1>10. SettledInv'
  <2> SUFFICES ASSUME NEW j \in Keys, sent'[j] > 0 \/ decided'[j] # NoReply
               PROVE  /\ disk'.ledger.committed[j] # NoEntry
                      /\ disk'.ledger.committed[j].outcome \in charges'
                      /\ \A s \in durable' : s.ledger.committed[j] = disk'.ledger.committed[j]
                      /\ up' => ledger'.committed[j] = disk'.ledger.committed[j]
    BY DEF SettledInv
  <2>1. j # k
    BY <1>2, <1>3
  <2>2. /\ disk.ledger.committed[j] # NoEntry
        /\ disk.ledger.committed[j].outcome \in charges
        /\ \A s \in durable : s.ledger.committed[j] = disk.ledger.committed[j]
        /\ ledger.committed[j] = disk.ledger.committed[j]
    BY <1>0, <1>2 DEF IInv, SettledInv
  <2>3. ledger'.committed[j] = disk.ledger.committed[j]
    BY <1>5, <2>1, <2>2
  <2>4. disk'.ledger.committed[j] = disk.ledger.committed[j]
    BY <1>6, <1>7, <2>3
  <2> QED
    BY <1>2, <1>6, <1>7, <2>2, <2>3, <2>4
<1>11. LeaseInv'
  <2> SUFFICES ASSUME NEW d \in Conns, Fresh(d)' PROVE LeaseHeld(d, conn[d].req.key)'
    BY DEF LeaseInv
  <2>1. CASE d = c
    <3>1. result = "ok"
      BY <1>0, <1>1, <2>1, HandlerSteps DEF Fresh
    <3>2. /\ conn'[c].pc = "audit_authorized" /\ conn'[c].req = req
          /\ conn'[c].lease.outcome = ledger.next_outcome
      <4>1. GrantLease(c, ledger.next_outcome, policy.cost[req.print], FALSE)
        BY <1>1, <3>1
      <4> QED
        BY <1>0, <4>1 DEF GrantLease, TypeOK, Handlers
    <3> QED
      BY <1>2, <1>3, <1>5, <1>6, <1>7, <2>1, <3>1, <3>2 DEF LeaseHeld
  <2>2. CASE d # c
    <3> DEFINE j == conn[d].req.key
    <3>1. Fresh(d) /\ conn'[d] = conn[d] /\ LeaseHeld(d, j) /\ j # k /\ j \in Keys
      BY <1>0, <1>4, <1>8, <2>2 DEF IInv, LeaseInv, Fresh, TypeOK, Requests
    <3>2. ledger'.committed[j] = disk.ledger.committed[j]
      BY <1>5, <3>1 DEF LeaseHeld
    <3>3. disk'.ledger.committed[j] = disk.ledger.committed[j]
      BY <1>6, <1>7, <3>2
    <3> QED
      BY <1>2, <1>6, <1>7, <3>1, <3>2, <3>3 DEF LeaseHeld
  <2> QED
    BY <2>1, <2>2
<1>12. ExclusiveInv'
  <2>1. Fresh(c)' => conn'[c].req.key = k
    BY <1>0, <1>1, HandlerSteps DEF Fresh
  <2> QED
    BY <1>4, <1>8, <2>1 DEF IInv, ExclusiveInv
<1>13. CopiesInv'
  <2>1. conn'[c].pc # "audit_replay"
    BY <1>8
  <2> QED
    BY <1>2, <1>6, <1>7, <1>8, <2>1 DEF IInv, CopiesInv
<1>14. ProviderAtMostOnce'
  BY <1>2 DEF IInv, ProviderAtMostOnce
<1> QED
  BY <1>9, <1>10, <1>11, <1>12, <1>13, <1>14 DEF IInv

\* The request leaves the broker: it had not left before, and the reservation holds.
LEMMA CallStep ==
  ASSUME IInv, TypeOK', NEW c \in Conns, CallProvider(c)
  PROVE  IInv'
<1> USE DEF memory, files
<1> DEFINE k == conn[c].req.key
<1>0. TypeOK /\ up /\ k \in Keys /\ Fresh(c) /\ LeaseHeld(c, k) /\ conn[c].pc = "call"
  BY DEF IInv, FilesInv, LeaseInv, CallProvider, TypeOK, Requests, Fresh
<1>1. CASE Outcome(c, "audit_outcome", "upstream_failure") /\ UNCHANGED sent
  BY <1>0, <1>1, HandlerSteps, QuietStep DEF CallProvider, LeaseHeld
<1>2. CASE Goto(c, "wait") /\ sent' = [sent EXCEPT ![k] = @ + 1]
  <2>1. /\ conn'[c].pc = "wait" /\ conn'[c].req = conn[c].req
        /\ conn'[c].lease = conn[c].lease
        /\ \A d \in Conns \ {c} : conn'[d] = conn[d] /\ (Fresh(d)' <=> Fresh(d))
    BY <1>0, <1>2, HandlerSteps DEF Fresh
  <2>2. sent'[k] = 1 /\ \A j \in Keys : j # k => sent'[j] = sent[j]
    BY <1>0, <1>2 DEF LeaseHeld, TypeOK
  <2>3. UNCHANGED <<up, ledger, cached, disk, durable, charges, decided, told>>
    BY DEF CallProvider
  <2>4. FilesInv' /\ CopiesInv'
    BY <1>0, <2>1, <2>3 DEF IInv, FilesInv, CopiesInv
  <2>5. SettledInv'
    BY <1>0, <2>2, <2>3 DEF IInv, SettledInv, LeaseHeld
  <2>6. LeaseInv'
    <3> SUFFICES ASSUME NEW d \in Conns, Fresh(d)' PROVE LeaseHeld(d, conn[d].req.key)'
      BY DEF LeaseInv
    <3>1. CASE d = c
      BY <1>0, <2>1, <2>2, <2>3, <3>1 DEF LeaseHeld
    <3>2. CASE d # c
      <4>1. Fresh(d) /\ conn[d].req.key # k /\ conn[d].req.key \in Keys
        BY <1>0, <2>1, <3>2 DEF IInv, ExclusiveInv, Fresh, TypeOK, Requests
      <4>2. LeaseHeld(d, conn[d].req.key)
        BY <4>1 DEF IInv, LeaseInv
      <4> QED
        BY <2>1, <2>2, <2>3, <3>2, <4>1, <4>2 DEF LeaseHeld
    <3> QED
      BY <3>1, <3>2
  <2>7. ExclusiveInv'
    BY <1>0, <2>1 DEF IInv, ExclusiveInv
  <2>8. ProviderAtMostOnce'
    BY <2>2 DEF IInv, ProviderAtMostOnce
  <2> QED
    BY <2>4, <2>5, <2>6, <2>7, <2>8 DEF IInv
<1> QED
  BY <1>1, <1>2 DEF CallProvider

\* A replay hands out the copy it read.
LEMMA ReplayStep ==
  ASSUME IInv, TypeOK', NEW c \in Conns, AuditReplay(c)
  PROVE  IInv'
<1> USE DEF memory, files
<1> DEFINE k == conn[c].req.key
<1>0. TypeOK /\ up /\ k \in Keys /\ conn[c].resp \in {NoReply, decided[k]}
  BY DEF IInv, FilesInv, CopiesInv, AuditReplay, TypeOK, Requests
<1>1. conn'[c].pc = "reply" /\ \A d \in Conns \ {c} : conn'[d] = conn[d]
  BY <1>0, HandlerSteps DEF AuditReplay
<1>2. CASE UNCHANGED told
  BY <1>0, <1>1, <1>2, QuietStep DEF AuditReplay, Fresh
<1>3. CASE told' = [told EXCEPT ![k] = conn[c].resp]
  <2>1. UNCHANGED <<up, ledger, cached, disk, durable, charges, sent, decided>>
    BY DEF AuditReplay
  <2>2. ~Fresh(c)' /\ \A d \in Conns \ {c} : Fresh(d)' <=> Fresh(d)
    BY <1>1 DEF Fresh
  <2>3. FilesInv'
    BY <1>0, <1>1, <2>1 DEF IInv, FilesInv
  <2>4. SettledInv'
    BY <2>1 DEF IInv, SettledInv
  <2>5. LeaseInv'
    BY <1>1, <2>1, <2>2 DEF IInv, LeaseInv, LeaseHeld
  <2>6. ExclusiveInv'
    BY <1>1, <2>2 DEF IInv, ExclusiveInv
  <2>7. CopiesInv'
    BY <1>0, <1>1, <1>3, <2>1 DEF IInv, CopiesInv, TypeOK
  <2>8. ProviderAtMostOnce'
    BY <2>1 DEF IInv, ProviderAtMostOnce
  <2> QED
    BY <2>3, <2>4, <2>5, <2>6, <2>7, <2>8 DEF IInv
<1> QED
  BY <1>2, <1>3 DEF AuditReplay

\* The outcome is decided and cached: its key's entry is settled by then.
LEMMA FinishStep ==
  ASSUME IInv, TypeOK', NEW c \in Conns, Finish(c)
  PROVE  IInv'
<1> USE DEF memory, files
<1> DEFINE k == conn[c].req.key
           resp == conn[c].resp
           new == [ledger |-> ledger, cached |-> [cached EXCEPT ![k] = resp]]
<1>0. TypeOK /\ up /\ k \in Keys /\ Fresh(c) /\ LeaseHeld(c, k) /\ conn[c].pc = "finish"
  BY DEF IInv, FilesInv, LeaseInv, Finish, TypeOK, Requests, Fresh
<1>1. /\ conn'[c].pc = "reply" /\ \A d \in Conns \ {c} : conn'[d] = conn[d]
      /\ ~Fresh(c)' /\ \A d \in Conns \ {c} : Fresh(d)' <=> Fresh(d)
  BY <1>0, HandlerSteps DEF Finish, Fresh
<1>2. CASE Cardinality(Cached(cached)) >= MaxEntries
  BY <1>0, <1>1, <1>2, QuietStep DEF Finish
<1>3. CASE ~(Cardinality(Cached(cached)) >= MaxEntries)
  <2>1. PICK result \in PersistResults : Persist(ledger, new.cached, result)
    BY <1>3 DEF Finish
  <2>2. /\ disk' \in durable'
        /\ \A s \in durable' : s \in durable \/ s = new
        /\ disk' = disk \/ disk' = new
    BY <2>1, PersistEffect DEF IInv, FilesInv
  <2>3. /\ UNCHANGED <<up, ledger, charges, sent>>
        /\ cached' = new.cached
        /\ decided' = [decided EXCEPT ![k] = resp]
        /\ told' = told \/ told' = [told EXCEPT ![k] = resp]
    BY <1>3 DEF Finish
  <2>4. /\ decided[k] = NoReply /\ decided'[k] = resp /\ resp # NoReply
        /\ \A j \in Keys : j # k => decided'[j] = decided[j]
    BY <1>0, <2>3 DEF LeaseHeld, NoReply, TypeOK
  <2>5. \A d \in Conns : Fresh(d)' => conn[d].req.key # k /\ Fresh(d) /\ conn'[d] = conn[d]
    BY <1>0, <1>1 DEF IInv, ExclusiveInv
  <2>6. FilesInv'
    BY <1>0, <1>1, <2>2, <2>3 DEF IInv, FilesInv
  <2>7. ASSUME NEW j \in Keys, \A s \in durable : s.ledger.committed[j] = disk.ledger.committed[j],
               ledger.committed[j] = disk.ledger.committed[j]
        PROVE  /\ disk'.ledger.committed[j] = disk.ledger.committed[j]
               /\ \A s \in durable' : s.ledger.committed[j] = disk.ledger.committed[j]
               /\ ledger'.committed[j] = disk.ledger.committed[j]
    BY <2>2, <2>3, <2>7
  <2>8. SettledInv'
    <3> SUFFICES ASSUME NEW j \in Keys, sent'[j] > 0 \/ decided'[j] # NoReply
                 PROVE  /\ disk'.ledger.committed[j] # NoEntry
                        /\ disk'.ledger.committed[j].outcome \in charges'
                        /\ \A s \in durable' : s.ledger.committed[j] = disk'.ledger.committed[j]
                        /\ up' => ledger'.committed[j] = disk'.ledger.committed[j]
      BY DEF SettledInv
    <3>1. /\ disk.ledger.committed[j] # NoEntry
          /\ disk.ledger.committed[j].outcome \in charges
          /\ \A s \in durable : s.ledger.committed[j] = disk.ledger.committed[j]
          /\ ledger.committed[j] = disk.ledger.committed[j]
      BY <1>0, <2>3, <2>4 DEF IInv, SettledInv, LeaseHeld
    <3> QED
      BY <2>3, <2>7, <3>1
  <2>9. LeaseInv'
    <3> SUFFICES ASSUME NEW d \in Conns, Fresh(d)' PROVE LeaseHeld(d, conn[d].req.key)'
      BY DEF LeaseInv
    <3> DEFINE j == conn[d].req.key
    <3>1. j \in Keys /\ j # k /\ conn'[d] = conn[d] /\ LeaseHeld(d, j)
      BY <1>0, <2>5 DEF IInv, LeaseInv, Fresh, TypeOK, Requests
    <3>2. /\ disk'.ledger.committed[j] = disk.ledger.committed[j]
          /\ \A s \in durable' : s.ledger.committed[j] = disk.ledger.committed[j]
          /\ ledger'.committed[j] = disk.ledger.committed[j]
      BY <2>7, <3>1 DEF LeaseHeld
    <3> QED
      BY <2>3, <2>4, <3>1, <3>2 DEF LeaseHeld
  <2>10. ExclusiveInv'
    BY <2>5 DEF IInv, ExclusiveInv
  <2>11. CopiesInv'
    <3>1. \A j \in Keys : /\ cached'[j] \in {NoReply, decided'[j]}
                          /\ told'[j] \in {NoReply, decided'[j]}
      BY <1>0, <2>3, <2>4 DEF IInv, CopiesInv, TypeOK
    <3>2. \A j \in Keys, s \in durable' : s.cached[j] \in {NoReply, decided'[j]}
      <4> SUFFICES ASSUME NEW j \in Keys, NEW s \in durable'
                   PROVE  s.cached[j] \in {NoReply, decided'[j]}
        OBVIOUS
      <4>1. CASE s \in durable
        BY <2>4, <4>1 DEF IInv, CopiesInv
      <4>2. CASE s = new
        BY <2>3, <3>1, <4>2
      <4> QED
        BY <2>2, <4>1, <4>2
    <3>3. \A d \in Conns : conn'[d].pc = "audit_replay" =>
            conn'[d].resp \in {NoReply, decided'[conn'[d].req.key]}
      <4> SUFFICES ASSUME NEW d \in Conns, conn'[d].pc = "audit_replay"
                   PROVE  conn'[d].resp \in {NoReply, decided'[conn'[d].req.key]}
        OBVIOUS
      <4>1. /\ conn'[d] = conn[d] /\ conn[d].req.key \in Keys
            /\ conn[d].resp \in {NoReply, decided[conn[d].req.key]}
        BY <1>0, <1>1 DEF IInv, CopiesInv, TypeOK, Requests
      <4> QED
        BY <2>4, <4>1
    <3> QED
      BY <3>1, <3>2, <3>3 DEF CopiesInv
  <2>12. ProviderAtMostOnce'
    BY <2>3 DEF IInv, ProviderAtMostOnce
  <2> QED
    BY <2>6, <2>8, <2>9, <2>10, <2>11, <2>12 DEF IInv
<1> QED
  BY <1>2, <1>3

\* Kills and power losses forget only what was not settled.
LEMMA DieStep ==
  ASSUME IInv, TypeOK', Crash \/ PowerLoss
  PROVE  IInv'
<1>1. /\ Die
      /\ disk' \in durable' /\ durable' \subseteq durable
  BY DEF Crash, PowerLoss, IInv, FilesInv
<1>2. /\ ~up' /\ cached' = NoCache
      /\ UNCHANGED <<charges, sent, decided, told>>
      /\ \A c \in Conns : conn'[c].pc = "idle" /\ ~Fresh(c)'
  BY <1>1 DEF Die, Idle, Fresh
<1>3. FilesInv' /\ LeaseInv' /\ ExclusiveInv'
  BY <1>1, <1>2 DEF FilesInv, LeaseInv, ExclusiveInv
<1>4. SettledInv'
  BY <1>1, <1>2 DEF IInv, SettledInv
<1>5. CopiesInv'
  BY <1>1, <1>2 DEF IInv, CopiesInv, NoCache
<1>6. ProviderAtMostOnce'
  BY <1>2 DEF IInv, ProviderAtMostOnce
<1> QED
  BY <1>3, <1>4, <1>5, <1>6 DEF IInv

\* A restart takes over what the state file holds.
LEMMA StartStep ==
  ASSUME IInv, TypeOK', NEW p \in Policies, NEW id \in Pids, Start(p, id)
  PROVE  IInv'
<1> USE DEF files
<1>1. /\ UNCHANGED <<disk, durable, charges, conn, sent, decided, told>>
      /\ cached' = disk.cached /\ up'
      /\ \A c \in Conns : conn[c].pc = "idle" /\ ~Fresh(c)'
  BY DEF Start, IInv, FilesInv, Fresh
<1>2. \A k \in Keys : ledger'.committed[k] = disk.ledger.committed[k]
  BY DEF Start, Absent, EmptyLedger
<1>3. FilesInv' /\ LeaseInv' /\ ExclusiveInv'
  BY <1>1 DEF IInv, FilesInv, LeaseInv, ExclusiveInv
<1>4. SettledInv'
  BY <1>1, <1>2 DEF IInv, SettledInv
<1>5. CopiesInv'
  BY <1>1 DEF IInv, CopiesInv, FilesInv
<1>6. ProviderAtMostOnce'
  BY <1>1 DEF IInv, ProviderAtMostOnce
<1> QED
  BY <1>3, <1>4, <1>5, <1>6 DEF IInv

\* Nothing the invariant reads changes.
LEMMA IdleStep ==
  ASSUME IInv, TypeOK',
         UNCHANGED <<up, ledger, cached, disk, durable, charges, conn, sent, decided, told>>
  PROVE  IInv'
BY DEF IInv, FilesInv, SettledInv, LeaseInv, LeaseHeld, ExclusiveInv, CopiesInv,
       ProviderAtMostOnce, Fresh

LEMMA IInvInit == Init => IInv
<1> SUFFICES ASSUME Init PROVE IInv
  OBVIOUS
<1>1. TypeOK
  BY TypeInit
<1>2. FilesInv /\ LeaseInv /\ ExclusiveInv
  BY DEF Init, FilesInv, LeaseInv, ExclusiveInv, Fresh, Idle
<1>3. SettledInv /\ CopiesInv /\ ProviderAtMostOnce
  BY DEF Init, SettledInv, CopiesInv, ProviderAtMostOnce, NoCache, Absent, Idle
<1> QED
  BY <1>1, <1>2, <1>3 DEF IInv

LEMMA IInvNext == IInv /\ [Next]_vars => IInv'
<1> SUFFICES ASSUME IInv, [Next]_vars PROVE IInv'
  OBVIOUS
<1>0. TypeOK'
  BY TypeNext DEF IInv
<1>1. ASSUME NEW c \in Conns, HandlerStep(c) PROVE IInv'
  BY <1>0, <1>1, QuietSteps, FreshStep, CallStep, ReplayStep, FinishStep DEF HandlerStep
<1>2. ASSUME NEW f \in Expiring, Expire(f) PROVE IInv'
  BY <1>0, <1>2, IdleStep DEF Expire, memory, files
<1>3. CASE UNCHANGED vars
  BY <1>0, <1>3, IdleStep DEF vars, memory, files
<1> QED
  BY <1>0, <1>1, <1>2, <1>3, QuietSteps, DieStep, StartStep DEF Next

\* Whatever the retries, failed syncs, kills and power losses, the broker sends at
\* most one provider request for an idempotency key.
THEOREM AtMostOnceCorrect == Spec => []ProviderAtMostOnce
<1>1. IInv => ProviderAtMostOnce
  BY DEF IInv
<1> QED
  BY <1>1, IInvInit, IInvNext, PTL DEF Spec

\* A request leaves the broker only once its reservation and its charge are durable.
THEOREM ReservedBeforeSentCorrect == Spec => []ReservedBeforeSent
<1>1. IInv => ReservedBeforeSent
  BY DEF IInv, SettledInv, ReservedBeforeSent, Committed
<1> QED
  BY <1>1, IInvInit, IInvNext, PTL DEF Spec

\* The broker implements IdempotentCall: each of its steps is a step of the promise,
\* or leaves the promise's variables alone.
THEOREM RefinementCorrect == Spec => ImplementsIdempotentCall
<1>1. Init => Promise!Init
  BY DEF Init, Promise!Init
<1>2. IInv /\ [Next]_vars => [Promise!Next]_<<sent, decided, told>>
  <2> SUFFICES ASSUME IInv, [Next]_vars PROVE [Promise!Next]_<<sent, decided, told>>
    OBVIOUS
  <2> USE DEF memory, files
  <2>0. TypeOK
    BY DEF IInv
  <2>1. ASSUME NEW c \in Conns, CallProvider(c)
        PROVE  [Promise!Next]_<<sent, decided, told>>
    <3>1. conn[c].req.key \in Keys /\ LeaseHeld(c, conn[c].req.key)
      BY <2>1 DEF IInv, LeaseInv, Fresh, CallProvider, TypeOK, Requests
    <3>2. sent[conn[c].req.key] = 0 /\ decided[conn[c].req.key] = NoReply
      BY <2>1, <3>1 DEF LeaseHeld, CallProvider
    <3>3. UNCHANGED <<decided, told>>
      BY <2>1 DEF CallProvider
    <3>4. sent' = sent \/ sent' = [sent EXCEPT ![conn[c].req.key] = 1]
      BY <2>1, <3>2 DEF CallProvider
    <3> QED
      BY <3>1, <3>2, <3>3, <3>4 DEF Promise!Next, Promise!Perform
  <2>2. ASSUME NEW c \in Conns, Finish(c)
        PROVE  [Promise!Next]_<<sent, decided, told>>
    <3> DEFINE k == conn[c].req.key
               resp == conn[c].resp
    <3>1. k \in Keys /\ LeaseHeld(c, k)
      BY <2>2 DEF IInv, LeaseInv, Fresh, Finish, TypeOK, Requests
    <3>2. decided[k] = NoReply /\ resp \in Responses /\ resp # NoReply
      BY <2>2, <3>1 DEF LeaseHeld, NoReply, Finish, IInv, TypeOK, Handlers
    <3>3. CASE UNCHANGED <<decided, told>>
      BY <2>2, <3>3 DEF Finish
    <3>4. CASE /\ decided' = [decided EXCEPT ![k] = resp]
               /\ told' = told \/ told' = [told EXCEPT ![k] = resp]
      <4>1. decided'[k] = resp
        BY <3>1, <3>4 DEF IInv, TypeOK
      <4> QED
        BY <2>2, <3>1, <3>2, <3>4, <4>1 DEF Finish, Promise!Next, Promise!Decide
    <3> QED
      BY <2>2, <3>3, <3>4 DEF Finish
  <2>3. ASSUME NEW c \in Conns, AuditReplay(c)
        PROVE  [Promise!Next]_<<sent, decided, told>>
    <3> DEFINE k == conn[c].req.key
               prior == conn[c].resp
    <3>1. k \in Keys /\ prior \in {NoReply, decided[k]}
      BY <2>3 DEF IInv, CopiesInv, AuditReplay, TypeOK, Requests
    <3> QED
      BY <2>3, <3>1 DEF AuditReplay, Promise!Next, Promise!Tell
  <2>4. ASSUME NEW c \in Conns, HandlerStep(c)
        PROVE  [Promise!Next]_<<sent, decided, told>>
    BY <2>1, <2>2, <2>3, <2>4
    DEF HandlerStep, AuthorizeDenied, AuthorizeReplay, AuthorizeFresh, AuditDenial,
        AuditAuthorized, ReadCached, ProviderOutcome, AuditOutcome, Respond
  <2> QED
    BY <2>4 DEF Next, Accept, Start, Crash, PowerLoss, Die, Expire, vars
<1> QED
  BY <1>1, <1>2, IInvInit, IInvNext, PTL DEF Spec, ImplementsIdempotentCall, Promise!Spec

\* A step neither forgets that a key was sent nor leaves no file with its entry.
LEMMA SentKept ==
  ASSUME IInv, Next, NEW k \in Keys, sent[k] > 0
  PROVE  /\ sent'[k] > 0
         /\ \E u \in durable' : u.ledger.committed[k] = disk.ledger.committed[k]
<1> USE DEF memory, files
<1>0. /\ TypeOK /\ disk \in durable
      /\ \A u \in durable : u.ledger.committed[k] = disk.ledger.committed[k]
      /\ disk.ledger.committed[k] # NoEntry
      /\ up => ledger.committed[k] = disk.ledger.committed[k]
  BY DEF IInv, FilesInv, SettledInv
<1>1. sent'[k] > 0
  <2>1. ASSUME NEW c \in Conns, CallProvider(c) PROVE sent'[k] > 0
    BY <1>0, <2>1 DEF CallProvider, TypeOK
  <2>2. CASE UNCHANGED sent
    BY <2>2
  <2> QED
    BY <2>1, <2>2
    DEF Next, Accept, Start, Crash, PowerLoss, Die, Expire, HandlerStep, AuthorizeDenied,
        AuthorizeReplay, AuthorizeFresh, AuditDenial, AuditAuthorized, ReadCached,
        AuditReplay, ProviderOutcome, AuditOutcome, Finish, Respond
<1>2. ASSUME NEW c \in Conns, AuthorizeFresh(c)
      PROVE  \E u \in durable' : u.ledger.committed[k] = disk.ledger.committed[k]
  <2>1. /\ up /\ k # conn[c].req.key /\ conn[c].req \in Requests
    BY <1>0, <1>2 DEF AuthorizeFresh, IInv, FilesInv, TypeOK, Committed
  <2>2. Reserve(conn[c].req).committed[k] = disk.ledger.committed[k]
    BY <1>0, <2>1 DEF Reserve, TypeOK, Ledgers, Requests
  <2>3. PICK result \in PersistResults : Persist(Reserve(conn[c].req), cached, result)
    BY <1>2 DEF AuthorizeFresh
  <2> QED
    BY <1>0, <2>2, <2>3 DEF Persist, PersistResults
<1>3. ASSUME NEW c \in Conns, Finish(c)
      PROVE  \E u \in durable' : u.ledger.committed[k] = disk.ledger.committed[k]
  <2>1. up
    BY <1>3 DEF Finish, IInv, FilesInv
  <2>2. CASE UNCHANGED files
    BY <1>0, <2>2
  <2>3. CASE \E r : \E result \in PersistResults : Persist(ledger, r, result)
    BY <1>0, <2>1, <2>3 DEF Persist, PersistResults
  <2> QED
    BY <1>3, <2>2, <2>3 DEF Finish
<1>4. ASSUME UNCHANGED durable \/ PowerLoss
      PROVE  \E u \in durable' : u.ledger.committed[k] = disk.ledger.committed[k]
  BY <1>0, <1>4 DEF PowerLoss
<1> QED
  BY <1>1, <1>2, <1>3, <1>4
  DEF Next, Accept, Start, Crash, Die, Expire, HandlerStep, AuthorizeDenied,
      AuthorizeReplay, AuditDenial, AuditAuthorized, ReadCached, AuditReplay,
      CallProvider, ProviderOutcome, AuditOutcome, Respond

\* Once a key's request was sent no step, crash or restart changes its entry.
THEOREM EntryKeptCorrect == Spec => ChargedEntryKept
<1>1. IInv /\ IInv' /\ [Next]_vars =>
        [\A k \in Keys, s \in durable, t \in durable' :
           sent[k] > 0 => t.ledger.committed[k] = s.ledger.committed[k]]_vars
  <2> SUFFICES ASSUME IInv, IInv', Next,
                      NEW k \in Keys, NEW s \in durable, NEW t \in durable', sent[k] > 0
               PROVE  t.ledger.committed[k] = s.ledger.committed[k]
    OBVIOUS
  <2>1. \A u \in durable : u.ledger.committed[k] = disk.ledger.committed[k]
    BY DEF IInv, SettledInv
  <2>2. \A u \in durable' : u.ledger.committed[k] = disk'.ledger.committed[k]
    <3>1. sent'[k] > 0
      BY SentKept
    <3> QED
      BY <3>1 DEF IInv, SettledInv
  <2>3. \E u \in durable' : u.ledger.committed[k] = disk.ledger.committed[k]
    BY SentKept
  <2> QED
    BY <2>1, <2>2, <2>3
<1> QED
  BY <1>1, IInvInit, IInvNext, PTL DEF Spec, ChargedEntryKept

-----------------------------------------------------------------------------
(***************************************************************************)
(* Sums over the keys.  Induction over sets of keys is by least            *)
(* counterexample: the provers know no induction rule, but a set of        *)
(* naturals that is not empty has a least element.                         *)
(***************************************************************************)

\* A set of naturals that is not empty has a least element.
LEMMA LeastNatural ==
  ASSUME NEW T \in SUBSET Nat, T # {}
  PROVE  \E n \in T : \A m \in T : n <= m
<1> DEFINE R == OpToRel(<, Nat)
<1>1. IsWellFoundedOn(R, Nat)
  BY NatLessThanWellFounded
<1>2. \A m, n \in Nat : m < n => <<m, n>> \in R
  BY DEF OpToRel
<1> HIDE DEF R
<1>3. PICK n \in T : \A m \in T : ~(<<m, n>> \in R)
  BY <1>1, WFMin
<1>4. \A m \in T : n <= m
  <2> SUFFICES ASSUME NEW m \in T PROVE n <= m
    OBVIOUS
  <2>1. m \in Nat /\ n \in Nat
    OBVIOUS
  <2>2. ~(m < n)
    BY <1>2, <1>3, <2>1
  <2> QED
    BY <2>1, <2>2
<1> QED
  BY <1>4

\* The key the fold takes from a set first.
Pick(s) == CHOOSE x \in s : TRUE

\* One unfolding of the sum of f over s, with g the sums over smaller sets.
Body(f, g, s) == IF s = {} THEN 0 ELSE f[Pick(s)] + g[s \ {Pick(s)}]

\* The sums of f over every set of keys.
Sums(f) == CHOOSE g : g = [s \in SUBSET Keys |-> Body(f, g, s)]

\* SumFunction is this recursion, taken at the set of all keys.
LEMMA SumIs ==
  ASSUME NEW f, DOMAIN f = Keys
  PROVE  SumFunction(f) = Sums(f)[Keys]
BY DEF SumFunction, SumFunctionOnSet, FoldFunctionOnSet, MapThenFoldSet, Sums, Body, Pick

\* The sets of at most n keys.
UpTo(n) == {s \in SUBSET Keys : Cardinality(s) <= n}

\* What is left of a set of keys without the key picked from it.
LEMMA PickLess ==
  ASSUME NEW s \in SUBSET Keys
  PROVE  /\ Cardinality(s) \in Nat
         /\ s # {} => /\ Pick(s) \in s
                      /\ s \ {Pick(s)} \in SUBSET Keys
                      /\ Cardinality(s \ {Pick(s)}) = Cardinality(s) - 1
<1>1. IsFiniteSet(s)
  BY KeysAssumption, FS_Subset
<1>2. Cardinality(s) \in Nat
  BY <1>1, FS_CardinalityType
<1>3. ASSUME s # {} PROVE Pick(s) \in s
  BY <1>3 DEF Pick
<1>4. ASSUME s # {} PROVE Cardinality(s \ {Pick(s)}) = Cardinality(s) - 1
  BY <1>1, <1>3, <1>4, FS_RemoveElement
<1> QED
  BY <1>2, <1>3, <1>4

\* The recursion has a solution: else there is a least size up to which it has none.
LEMMA SumsExist ==
  ASSUME NEW f
  PROVE  Sums(f) = [s \in SUBSET Keys |-> Body(f, Sums(f), s)]
<1> DEFINE Has(n) == \E g : g = [s \in UpTo(n) |-> Body(f, g, s)]
           Bad == {n \in Nat : ~Has(n)}
<1>1. ASSUME Bad # {} PROVE FALSE
  <2>1. PICK n \in Bad : \A m \in Bad : n <= m
    BY <1>1, LeastNatural
  <2>2. n \in Nat /\ ~Has(n)
    OBVIOUS
  <2>3. CASE n = 0
    <3> DEFINE g == [s \in UpTo(0) |-> 0]
    <3>1. \A s \in UpTo(0) : s = {}
      <4> SUFFICES ASSUME NEW s \in UpTo(0), s # {} PROVE FALSE
        OBVIOUS
      <4>1. Cardinality(s) \in Nat /\ s \in SUBSET Keys /\ Cardinality(s) <= 0
        BY PickLess DEF UpTo
      <4>2. Cardinality(s \ {Pick(s)}) = Cardinality(s) - 1 /\ s \ {Pick(s)} \in SUBSET Keys
        BY <4>1, PickLess
      <4>3. Cardinality(s \ {Pick(s)}) \in Nat
        BY <4>2, PickLess
      <4> QED
        BY <4>1, <4>2, <4>3
    <3>2. g = [s \in UpTo(0) |-> Body(f, g, s)]
      BY <3>1 DEF Body
    <3> QED
      BY <2>2, <2>3, <3>2
  <2>4. CASE n # 0
    <3>1. n - 1 \in Nat /\ n - 1 \notin Bad
      BY <2>1, <2>2, <2>4
    <3>2. PICK g : g = [s \in UpTo(n - 1) |-> Body(f, g, s)]
      BY <3>1
    <3> DEFINE h == [s \in UpTo(n) |-> Body(f, g, s)]
    <3>3. ASSUME NEW s \in UpTo(n) PROVE Body(f, h, s) = Body(f, g, s)
      <4>1. CASE s = {}
        BY <4>1 DEF Body
      <4>2. CASE s # {}
        <5> DEFINE t == s \ {Pick(s)}
        <5>1. t \in SUBSET Keys /\ Cardinality(t) = Cardinality(s) - 1
              /\ Cardinality(s) \in Nat /\ Cardinality(s) <= n
          BY <4>2, PickLess DEF UpTo
        <5>2. t \in UpTo(n - 1) /\ t \in UpTo(n)
          BY <2>2, <5>1 DEF UpTo
        <5>3. h[t] = Body(f, g, t) /\ g[t] = Body(f, g, t)
          BY <3>2, <5>2
        <5> QED
          BY <4>2, <5>3 DEF Body
      <4> QED
        BY <4>1, <4>2
    <3>4. h = [s \in UpTo(n) |-> Body(f, h, s)]
      BY <3>3
    <3> QED
      BY <2>2, <3>4
  <2> QED
    BY <2>3, <2>4
<1>2. Cardinality(Keys) \in Nat
  BY KeysAssumption, FS_CardinalityType
<1>3. Has(Cardinality(Keys))
  BY <1>1, <1>2
<1>4. UpTo(Cardinality(Keys)) = SUBSET Keys
  <2> SUFFICES ASSUME NEW s \in SUBSET Keys PROVE Cardinality(s) <= Cardinality(Keys)
    BY DEF UpTo
  <2> QED
    BY KeysAssumption, FS_Subset
<1>5. \E g : g = [s \in SUBSET Keys |-> Body(f, g, s)]
  BY <1>3, <1>4
<1> QED
  BY <1>5 DEF Sums

\* What holds of the empty set, and of a set when it holds without its picked key,
\* holds of every set of keys.
LEMMA PickInduction ==
  ASSUME NEW P \in SUBSET SUBSET Keys, {} \in P,
         \A s \in SUBSET Keys : s # {} /\ s \ {Pick(s)} \in P => s \in P
  PROVE  P = SUBSET Keys
<1> DEFINE Bad == {n \in Nat : \E s \in SUBSET Keys : s \notin P /\ Cardinality(s) = n}
<1>1. ASSUME NEW s \in SUBSET Keys, s \notin P PROVE FALSE
  <2>1. Cardinality(s) \in Bad
    BY <1>1, PickLess
  <2>2. PICK n \in Bad : \A m \in Bad : n <= m
    BY <2>1, LeastNatural
  <2>3. PICK t \in SUBSET Keys : t \notin P /\ Cardinality(t) = n
    BY <2>2
  <2>4. t # {} /\ t \ {Pick(t)} \notin P
    BY <2>3
  <2>5. /\ t \ {Pick(t)} \in SUBSET Keys /\ n \in Nat
        /\ Cardinality(t \ {Pick(t)}) = n - 1
    BY <2>2, <2>3, <2>4, PickLess
  <2>6. Cardinality(t \ {Pick(t)}) \in Nat
    BY <2>5, PickLess
  <2>7. n - 1 \in Bad
    BY <2>4, <2>5, <2>6
  <2> QED
    BY <2>2, <2>5, <2>7
<1> QED
  BY <1>1

\* The sum over no key is 0; over others it is that of the picked key and of the rest.
LEMMA SumStep ==
  ASSUME NEW f
  PROVE  /\ Sums(f)[{}] = 0
         /\ \A s \in SUBSET Keys : s # {} =>
              Sums(f)[s] = f[Pick(s)] + Sums(f)[s \ {Pick(s)}]
<1>1. {} \in SUBSET Keys
  OBVIOUS
<1>2. \A s \in SUBSET Keys : Sums(f)[s] = Body(f, Sums(f), s)
  BY SumsExist
<1> QED
  BY <1>1, <1>2 DEF Body

\* Sums of naturals are naturals.
LEMMA SumType ==
  ASSUME NEW f \in [Keys -> Nat]
  PROVE  \A s \in SUBSET Keys : Sums(f)[s] \in Nat
<1> DEFINE P == {s \in SUBSET Keys : Sums(f)[s] \in Nat}
<1>1. {} \in P
  BY SumStep
<1>2. ASSUME NEW s \in SUBSET Keys, s # {}, s \ {Pick(s)} \in P PROVE s \in P
  <2>1. Pick(s) \in Keys
    BY <1>2, PickLess
  <2>2. Sums(f)[s] = f[Pick(s)] + Sums(f)[s \ {Pick(s)}]
    BY <1>2, SumStep
  <2> QED
    BY <1>2, <2>1, <2>2
<1>3. P = SUBSET Keys
  <2> HIDE DEF P
  <2>1. P \in SUBSET SUBSET Keys
    BY DEF P
  <2> QED
    BY <1>1, <1>2, <2>1, PickInduction
<1> QED
  BY <1>3

\* The sum of a function that is 0 everywhere is 0.
LEMMA SumZero ==
  ASSUME NEW f \in [Keys -> Nat], \A k \in Keys : f[k] = 0
  PROVE  SumFunction(f) = 0
<1> DEFINE P == {s \in SUBSET Keys : Sums(f)[s] = 0}
<1>1. {} \in P
  BY SumStep
<1>2. ASSUME NEW s \in SUBSET Keys, s # {}, s \ {Pick(s)} \in P PROVE s \in P
  <2>1. Pick(s) \in Keys
    BY <1>2, PickLess
  <2>2. Sums(f)[s] = f[Pick(s)] + Sums(f)[s \ {Pick(s)}]
    BY <1>2, SumStep
  <2> QED
    BY <1>2, <2>1, <2>2
<1>3. P = SUBSET Keys
  <2> HIDE DEF P
  <2>1. P \in SUBSET SUBSET Keys
    BY DEF P
  <2> QED
    BY <1>1, <1>2, <2>1, PickInduction
<1>4. SumFunction(f) = Sums(f)[Keys]
  BY SumIs
<1> QED
  BY <1>3, <1>4

\* Adding a at one key adds a to the sum.
LEMMA SumAdd ==
  ASSUME NEW f \in [Keys -> Nat], NEW h \in [Keys -> Nat], NEW k \in Keys, NEW a \in Nat,
         h[k] = f[k] + a, \A j \in Keys : j # k => h[j] = f[j]
  PROVE  SumFunction(h) = SumFunction(f) + a
<1> DEFINE Extra(s) == IF k \in s THEN a ELSE 0
           P == {s \in SUBSET Keys : Sums(h)[s] = Sums(f)[s] + Extra(s)}
<1>1. {} \in P
  BY SumStep
<1>2. ASSUME NEW s \in SUBSET Keys, s # {}, s \ {Pick(s)} \in P PROVE s \in P
  <2> DEFINE x == Pick(s)
             t == s \ {x}
  <2>1. x \in s /\ x \in Keys /\ t \in SUBSET Keys
    BY <1>2, PickLess
  <2>2. Sums(f)[s] = f[x] + Sums(f)[t] /\ Sums(h)[s] = h[x] + Sums(h)[t]
    BY <1>2, SumStep
  <2>3. Sums(h)[t] = Sums(f)[t] + Extra(t)
    BY <1>2
  <2>4. Sums(f)[t] \in Nat /\ f[x] \in Nat /\ h[x] \in Nat
    BY <2>1, SumType
  <2>5. h[x] + Extra(t) = f[x] + Extra(s)
    BY <2>1, <2>4
  <2> HIDE DEF x, t
  <2>6. Extra(s) \in Nat /\ Extra(t) \in Nat
    OBVIOUS
  <2> HIDE DEF Extra
  <2> QED
    BY <2>2, <2>3, <2>4, <2>5, <2>6
<1>3. P = SUBSET Keys
  <2> HIDE DEF P
  <2>1. P \in SUBSET SUBSET Keys
    BY DEF P
  <2> QED
    BY <1>1, <1>2, <2>1, PickInduction
<1>4. SumFunction(f) = Sums(f)[Keys] /\ SumFunction(h) = Sums(h)[Keys]
  BY SumIs
<1> QED
  BY <1>3, <1>4

-----------------------------------------------------------------------------
(***************************************************************************)
(* The books: what the ledger, the state files and the audit trail say.    *)
(***************************************************************************)

\* durable_invariants_hold, the sum of the charges only as long as the quota is below
\* u32::MAX: there the saturating sum no longer tells an overrun.
Balanced(l) ==
  /\ Cardinality(Committed(l)) <= MaxEntries
  /\ l.quota_spent <= l.quota_limit
  /\ l.next_outcome = Cardinality(Committed(l)) + 1
  /\ \A k \in Committed(l) : l.committed[k].outcome \in 1..(l.next_outcome - 1)
                          /\ l.committed[k].charged > 0
  /\ \A j, k \in Committed(l) :
       l.committed[j].outcome = l.committed[k].outcome => j = k
  /\ l.quota_limit < U32Max => Charged(l) = l.quota_spent

\* Every cached response is that of a reservation.
CacheMatches(l, r) ==
  \A k \in Cached(r) : k \in Committed(l) /\ r[k].outcome = l.committed[k].outcome

\* The state of ledger l and cache r was written under policy p.
Sound(p, l, r) ==
  /\ l.generation = p.generation
  /\ l.quota_limit = p.quota_limit
  /\ Balanced(l)
  /\ CacheMatches(l, r)

\* The memory of a running broker, and every file it may leave.
SoundInv ==
  /\ up => Sound(policy, ledger, cached)
  /\ ~up => ledger = Absent.ledger
  /\ \A s \in durable : s = Absent \/ \E p \in Policies : Sound(p, s.ledger, s.cached)

\* The charge of id is that of key k, in memory and in every state file.
ChargedTo(id, k) ==
  /\ disk.ledger.committed[k] # NoEntry
  /\ disk.ledger.committed[k].outcome = id
  /\ \A s \in durable : s.ledger.committed[k] = disk.ledger.committed[k]
  /\ up => ledger.committed[k] = disk.ledger.committed[k]

ChargeInv == \A id \in charges : \E k \in Keys : ChargedTo(id, k)

\* A response about to be cached carries the outcome id of its lease.
ResponseInv ==
  \A c \in Conns : conn[c].pc \in {"audit_outcome", "finish"} =>
    conn[c].resp.outcome = conn[c].lease.outcome

BooksInv == SoundInv /\ ChargeInv /\ ResponseInv

\* The committed and the cached keys are finitely many.
LEMMA CountsFinite ==
  ASSUME NEW S \in SUBSET Keys
  PROVE  IsFiniteSet(S) /\ Cardinality(S) \in Nat
BY KeysAssumption, FS_Subset, FS_CardinalityType

\* A new ledger is balanced.
LEMMA EmptyBalanced ==
  ASSUME NEW g, NEW q \in Nat
  PROVE  Balanced(EmptyLedger(g, q)) /\ Charged(EmptyLedger(g, q)) = 0
<1> DEFINE l == EmptyLedger(g, q)
           f == [k \in Keys |-> l.committed[k].charged]
<1>1. \A k \in Keys : l.committed[k] = NoEntry
  BY DEF EmptyLedger
<1>2. Committed(l) = {}
  BY <1>1 DEF Committed
<1>3. Cardinality(Committed(l)) = 0
  BY <1>2, FS_EmptySet
<1>4. f \in [Keys -> Nat] /\ \A k \in Keys : f[k] = 0
  BY <1>1 DEF NoEntry
<1>5. Charged(l) = 0
  <2> HIDE DEF f
  <2>1. SumFunction(f) = 0
    BY <1>4, SumZero
  <2> QED
    BY <2>1 DEF f, Charged
<1>6. l.quota_spent = 0 /\ l.quota_limit = q /\ l.next_outcome = 1
  BY DEF EmptyLedger
<1> QED
  BY <1>2, <1>3, <1>5, <1>6, BoundsAssumption DEF Balanced

\* Ledger::commit keeps the books balanced: the quota test bounds what is spent, and
\* below u32::MAX the sum did not saturate.
LEMMA ReserveBalanced ==
  ASSUME TypeOK, Balanced(ledger), NEW req \in Requests,
         req.key \notin Committed(ledger), FreshDenial(req) = "none"
  PROVE  Balanced(Reserve(req))
<1> DEFINE k == req.key
           cost == policy.cost[req.print]
           new == Reserve(req)
           f == [j \in Keys |-> ledger.committed[j].charged]
           h == [j \in Keys |-> new.committed[j].charged]
<1>0. k \in Keys /\ cost \in 1..U32Max /\ U32Max \in Nat /\ MaxEntries \in Nat
  BY ReserveType, BoundsAssumption DEF Requests
<1>1. /\ ledger.committed \in [Keys -> Entry]
      /\ ledger.quota_spent \in Nat /\ ledger.quota_limit \in Nat
      /\ ledger.next_outcome \in Nat
  BY <1>0 DEF TypeOK, Ledgers
<1>2. /\ \A j \in Keys : j # k => new.committed[j] = ledger.committed[j]
      /\ new.committed[k].outcome = ledger.next_outcome
      /\ new.committed[k].charged = cost
      /\ new.committed[k] # NoEntry
      /\ new.quota_limit = ledger.quota_limit
      /\ new.quota_spent = WouldSpend(ledger, cost)
      /\ new.next_outcome = ledger.next_outcome + 1
  BY <1>0, <1>1, NoneAssumption DEF Reserve, NewEntry, NoEntry, Requests
<1>3. Committed(new) = Committed(ledger) \cup {k}
  BY <1>0, <1>2 DEF Committed
<1>4. /\ Committed(ledger) \in SUBSET Keys
      /\ IsFiniteSet(Committed(ledger)) /\ Cardinality(Committed(ledger)) \in Nat
  BY CountsFinite DEF Committed
<1>5. Cardinality(Committed(new)) = Cardinality(Committed(ledger)) + 1
  BY <1>3, <1>4, FS_AddElement
<1>6. /\ Cardinality(Committed(ledger)) < MaxEntries
      /\ WouldSpend(ledger, cost) <= ledger.quota_limit
  <2>1. /\ ~(Cardinality(Committed(ledger)) >= MaxEntries)
        /\ ~(WouldSpend(ledger, cost) > ledger.quota_limit)
    BY DEF FreshDenial
  <2>2. WouldSpend(ledger, cost) \in Nat
    BY <1>0, <1>1 DEF WouldSpend
  <2> QED
    BY <1>0, <1>1, <1>4, <2>1, <2>2
<1>7. ledger.committed[k].charged = 0
  BY <1>0 DEF Committed, NoEntry
<1>8. ASSUME ledger.quota_limit < U32Max PROVE Charged(new) = new.quota_spent
  <2>1. WouldSpend(ledger, cost) = ledger.quota_spent + cost
    BY <1>0, <1>1, <1>6, <1>8 DEF WouldSpend
  <2>2. f \in [Keys -> Nat] /\ h \in [Keys -> Nat]
    <3>1. \A j \in Keys : ledger.committed[j].charged \in Nat
      BY <1>0, <1>1 DEF Entry
    <3>2. \A j \in Keys : new.committed[j].charged \in Nat
      BY <1>0, <1>2, <3>1
    <3> QED
      BY <3>1, <3>2
  <2>3. h[k] = f[k] + cost /\ \A j \in Keys : j # k => h[j] = f[j]
    BY <1>0, <1>2, <1>7
  <2>4. SumFunction(h) = SumFunction(f) + cost
    <3> HIDE DEF f, h, cost
    <3>1. k \in Keys /\ cost \in Nat
      BY <1>0
    <3> HIDE DEF k
    <3> QED
      BY <2>2, <2>3, <3>1, SumAdd
  <2>5. Charged(ledger) = ledger.quota_spent
    BY <1>8 DEF Balanced
  <2> QED
    BY <1>2, <2>1, <2>4, <2>5 DEF Charged
<1>9. \A j \in Committed(new) : /\ new.committed[j].outcome \in 1..(new.next_outcome - 1)
                                /\ new.committed[j].charged > 0
  <2> SUFFICES ASSUME NEW j \in Committed(new)
               PROVE  /\ new.committed[j].outcome \in 1..(new.next_outcome - 1)
                      /\ new.committed[j].charged > 0
    OBVIOUS
  <2>0. ledger.next_outcome = Cardinality(Committed(ledger)) + 1
    BY DEF Balanced
  <2>1. CASE j = k
    BY <1>0, <1>1, <1>2, <1>4, <2>0, <2>1
  <2>2. CASE j # k
    <3>1. j \in Committed(ledger) /\ new.committed[j] = ledger.committed[j]
      BY <1>2, <1>3, <2>2 DEF Committed
    <3>2. /\ ledger.committed[j].outcome \in 1..(ledger.next_outcome - 1)
          /\ ledger.committed[j].charged > 0
      BY <3>1 DEF Balanced
    <3> QED
      BY <1>1, <1>2, <3>1, <3>2
  <2> QED
    BY <2>1, <2>2
<1>10. \A i, j \in Committed(new) :
         new.committed[i].outcome = new.committed[j].outcome => i = j
  <2>1. \A j \in Committed(ledger) :
          /\ ledger.committed[j].outcome \in 1..(ledger.next_outcome - 1)
          /\ ledger.committed[j].outcome # ledger.next_outcome
    BY <1>1 DEF Balanced
  <2>2. \A j \in Committed(new) :
          j # k => j \in Committed(ledger) /\ new.committed[j] = ledger.committed[j]
    <3> SUFFICES ASSUME NEW j \in Committed(new), j # k
                 PROVE  j \in Committed(ledger) /\ new.committed[j] = ledger.committed[j]
      OBVIOUS
    <3>1. j \in Committed(ledger) /\ j \in Keys
      BY <1>3, <1>4
    <3> QED
      BY <1>2, <3>1
  <2>3. \A i, j \in Committed(ledger) :
          ledger.committed[i].outcome = ledger.committed[j].outcome => i = j
    BY DEF Balanced
  <2> QED
    BY <1>2, <2>1, <2>2, <2>3
<1>11. new.next_outcome = Cardinality(Committed(new)) + 1
  BY <1>2, <1>5 DEF Balanced
<1>12. Cardinality(Committed(new)) <= MaxEntries
  BY <1>0, <1>4, <1>5, <1>6
<1> QED
  BY <1>2, <1>6, <1>8, <1>9, <1>10, <1>11, <1>12 DEF Balanced

\* Only the provider call and its audit build a response, with the lease's outcome id.
LEMMA ResponseStep ==
  ASSUME TypeOK, ResponseInv, [Next]_vars
  PROVE  ResponseInv'
<1>0. conn \in [Conns -> Handlers]
  BY DEF TypeOK
<1>1. ASSUME NEW c \in Conns, \A d \in Conns \ {c} : conn'[d] = conn[d],
             conn'[c].pc \notin {"audit_outcome", "finish"}
      PROVE  ResponseInv'
  BY <1>1 DEF ResponseInv
<1>2. ASSUME NEW c \in Conns, NEW pc, NEW code, Outcome(c, pc, code) PROVE ResponseInv'
  <2>1. /\ conn'[c].resp.outcome = conn[c].lease.outcome
        /\ conn'[c].lease = conn[c].lease
        /\ \A d \in Conns \ {c} : conn'[d] = conn[d]
    BY <1>0, <1>2 DEF Outcome, Handlers
  <2> QED
    BY <2>1 DEF ResponseInv
<1>3. ASSUME NEW c \in Conns, NEW code, NEW outcome, NEW again, Reply(c, code, outcome, again)
      PROVE  ResponseInv'
  BY <1>1, <1>3, HandlerSteps
<1>4. ASSUME NEW c \in Conns, NEW pc, Goto(c, pc),
             pc \notin {"audit_outcome", "finish"}
      PROVE  ResponseInv'
  BY <1>1, <1>4, HandlerSteps
<1>5. ASSUME NEW c \in Conns, NEW outcome, NEW charged, NEW again,
             GrantLease(c, outcome, charged, again)
      PROVE  ResponseInv'
  BY <1>1, <1>5, HandlerSteps
<1>6. ASSUME NEW c \in Conns, NEW req \in Requests, Accept(c, req) PROVE ResponseInv'
  <2>1. conn'[c].pc = "authorize" /\ \A d \in Conns \ {c} : conn'[d] = conn[d]
    BY <1>0, <1>6 DEF Accept, Idle
  <2> QED
    BY <1>1, <2>1
<1>7. ASSUME NEW c \in Conns, HandlerStep(c) PROVE ResponseInv'
  <2>1. CASE AuthorizeDenied(c)
    BY <1>4, <2>1 DEF AuthorizeDenied
  <2>2. CASE AuthorizeReplay(c)
    BY <1>5, <2>2 DEF AuthorizeReplay
  <2>3. CASE AuthorizeFresh(c)
    BY <1>3, <1>5, <2>3 DEF AuthorizeFresh
  <2>4. CASE AuditDenial(c)
    BY <1>3, <2>4 DEF AuditDenial
  <2>5. CASE AuditAuthorized(c)
    BY <1>3, <1>4, <2>5 DEF AuditAuthorized
  <2>6. CASE ReadCached(c)
    <3>1. conn'[c].pc = "audit_replay" /\ \A d \in Conns \ {c} : conn'[d] = conn[d]
      BY <1>0, <2>6 DEF ReadCached, Handlers
    <3> QED
      BY <1>1, <3>1
  <2>7. CASE AuditReplay(c)
    BY <1>3, <2>7 DEF AuditReplay
  <2>8. CASE CallProvider(c)
    BY <1>2, <1>4, <2>8 DEF CallProvider
  <2>9. CASE ProviderOutcome(c)
    BY <1>2, <2>9 DEF ProviderOutcome
  <2>10. CASE AuditOutcome(c)
    BY <1>2, <2>10 DEF AuditOutcome
  <2>11. CASE Finish(c)
    BY <1>3, <2>11 DEF Finish
  <2>12. CASE Respond(c)
    <3>1. conn'[c].pc = "idle" /\ \A d \in Conns \ {c} : conn'[d] = conn[d]
      BY <1>0, <2>12 DEF Respond, Idle
    <3> QED
      BY <1>1, <3>1
  <2> QED
    BY <1>7, <2>1, <2>2, <2>3, <2>4, <2>5, <2>6, <2>7, <2>8, <2>9, <2>10, <2>11, <2>12
    DEF HandlerStep
<1>8. CASE UNCHANGED conn
  BY <1>8 DEF ResponseInv
<1>9. ASSUME Die PROVE ResponseInv'
  BY <1>9 DEF Die, Idle, ResponseInv
<1> QED
  BY <1>6, <1>7, <1>8, <1>9 DEF Next, Start, Crash, PowerLoss, Expire, vars

\* The steps that touch neither the ledger, the cache nor the files.
LEMMA BooksUntouched ==
  ASSUME BooksInv, UNCHANGED <<up, policy, ledger, cached, disk, durable, charges>>,
         ResponseInv'
  PROVE  BooksInv'
<1>1. SoundInv'
  BY DEF BooksInv, SoundInv
<1>2. ChargeInv'
  BY DEF BooksInv, ChargeInv, ChargedTo
<1> QED
  BY <1>1, <1>2 DEF BooksInv

\* audit_authorized: the charge it records is that of the lease.
LEMMA BooksAudit ==
  ASSUME IInv, BooksInv, ResponseInv', NEW c \in Conns, AuditAuthorized(c)
  PROVE  BooksInv'
<1> USE DEF memory, files
<1> DEFINE k == conn[c].req.key
           id == conn[c].lease.outcome
<1>1. UNCHANGED <<up, policy, ledger, cached, disk, durable>>
  BY DEF AuditAuthorized
<1>2. SoundInv'
  BY <1>1 DEF BooksInv, SoundInv
<1>3. \/ charges' = charges
      \/ ~conn[c].lease.replayed /\ charges' = charges \cup {id}
  BY DEF AuditAuthorized
<1>4. ASSUME ~conn[c].lease.replayed PROVE k \in Keys /\ ChargedTo(id, k)
  <2>1. Fresh(c) /\ k \in Keys
    BY <1>4 DEF AuditAuthorized, Fresh, IInv, TypeOK, Requests
  <2> QED
    BY <2>1 DEF IInv, LeaseInv, LeaseHeld, ChargedTo
<1>5. \A i \in charges' : \E j \in Keys : ChargedTo(i, j)
  BY <1>3, <1>4 DEF BooksInv, ChargeInv
<1>6. ChargeInv'
  BY <1>1, <1>5 DEF ChargeInv, ChargedTo
<1> QED
  BY <1>2, <1>6 DEF BooksInv

\* A reservation: capacity and quota were tested, and the key was new.
LEMMA BooksFresh ==
  ASSUME IInv, BooksInv, ResponseInv', NEW c \in Conns, AuthorizeFresh(c)
  PROVE  BooksInv'
<1> DEFINE req == conn[c].req
           k == req.key
           new == [ledger |-> Reserve(req), cached |-> cached]
<1>0. TypeOK /\ up /\ req \in Requests /\ k \in Keys /\ policy \in Policies
  BY DEF IInv, FilesInv, AuthorizeFresh, TypeOK, Requests
<1>1. k \notin Committed(ledger) /\ FreshDenial(req) = "none" /\ ledger' = Reserve(req)
  BY DEF AuthorizeFresh, Denial
<1>2. UNCHANGED <<up, policy, cached, charges>>
  BY DEF AuthorizeFresh
<1>3. PICK result \in PersistResults : Persist(Reserve(req), cached, result)
  BY DEF AuthorizeFresh
<1>4. /\ disk' \in durable'
      /\ \A s \in durable' : s \in durable \/ s = new
      /\ disk' = disk \/ disk' = new
  BY <1>3, PersistEffect DEF IInv, FilesInv
<1>5. Sound(policy, ledger, cached)
  BY <1>0 DEF BooksInv, SoundInv
<1>6. Balanced(Reserve(req))
  BY <1>0, <1>1, <1>5, ReserveBalanced DEF Sound
<1>7. \A j \in Keys : j # k => Reserve(req).committed[j] = ledger.committed[j]
  BY <1>0 DEF Reserve, TypeOK, Ledgers
<1>8. CacheMatches(Reserve(req), cached)
  <2> SUFFICES ASSUME NEW j \in Cached(cached)
               PROVE  /\ j \in Committed(Reserve(req))
                      /\ cached[j].outcome = Reserve(req).committed[j].outcome
    BY DEF CacheMatches
  <2>1. j \in Committed(ledger) /\ cached[j].outcome = ledger.committed[j].outcome
    BY <1>5 DEF Sound, CacheMatches
  <2> QED
    BY <1>1, <1>7, <2>1 DEF Committed
<1>9. Sound(policy, Reserve(req), cached)
  BY <1>5, <1>6, <1>8 DEF Sound, Reserve
<1>10. SoundInv'
  <2>1. new.ledger = Reserve(req) /\ new.cached = cached
    OBVIOUS
  <2>2. \A s \in durable' : s = Absent \/ \E p \in Policies : Sound(p, s.ledger, s.cached)
    BY <1>0, <1>4, <1>9, <2>1 DEF BooksInv, SoundInv
  <2>3. Sound(policy', ledger', cached') /\ up'
    BY <1>0, <1>1, <1>2, <1>9
  <2> QED
    BY <2>2, <2>3 DEF SoundInv
<1>11. ChargeInv'
  <2> SUFFICES ASSUME NEW id \in charges
               PROVE  \E j \in Keys : ChargedTo(id, j)'
    BY <1>2 DEF ChargeInv
  <2>1. PICK j \in Keys : ChargedTo(id, j)
    BY DEF BooksInv, ChargeInv
  <2>2. ledger.committed[j] = disk.ledger.committed[j] /\ ledger.committed[j] # NoEntry
    BY <1>0, <2>1 DEF ChargedTo
  <2>3. j # k
    BY <1>1, <2>2 DEF Committed
  <2>4. new.ledger.committed[j] = disk.ledger.committed[j]
    BY <1>7, <2>2, <2>3
  <2>5. /\ disk'.ledger.committed[j] = disk.ledger.committed[j]
        /\ ledger'.committed[j] = disk.ledger.committed[j]
        /\ \A s \in durable' : s.ledger.committed[j] = disk.ledger.committed[j]
    BY <1>1, <1>4, <2>1, <2>4 DEF ChargedTo
  <2> QED
    BY <2>1, <2>5 DEF ChargedTo
<1> QED
  BY <1>10, <1>11 DEF BooksInv

\* Caching the response: it carries the outcome id of its key's reservation.
LEMMA BooksFinish ==
  ASSUME IInv, BooksInv, ResponseInv', NEW c \in Conns, Finish(c)
  PROVE  BooksInv'
<1> USE DEF files
<1> DEFINE k == conn[c].req.key
           resp == conn[c].resp
           r == [cached EXCEPT ![k] = resp]
           new == [ledger |-> ledger, cached |-> r]
<1>0. TypeOK /\ up /\ k \in Keys /\ LeaseHeld(c, k) /\ policy \in Policies
  BY DEF IInv, FilesInv, LeaseInv, Finish, TypeOK, Requests, Fresh
<1>1. UNCHANGED <<up, policy, ledger, charges>>
  BY DEF Finish
<1>2. CASE UNCHANGED <<cached, files>>
  BY <1>1, <1>2, BooksUntouched
<1>3. CASE cached' = r /\ \E result \in PersistResults : Persist(ledger, r, result)
  <2>1. /\ disk' \in durable'
        /\ \A s \in durable' : s \in durable \/ s = new
        /\ disk' = disk \/ disk' = new
    BY <1>3, PersistEffect DEF IInv, FilesInv
  <2>2. Sound(policy, ledger, cached)
    BY <1>0 DEF BooksInv, SoundInv
  <2>3. k \in Committed(ledger) /\ resp.outcome = ledger.committed[k].outcome
    <3>1. resp.outcome = conn[c].lease.outcome
      BY DEF BooksInv, ResponseInv, Finish
    <3> QED
      BY <1>0, <3>1 DEF LeaseHeld, Committed
  <2>4. CacheMatches(ledger, r)
    <3> SUFFICES ASSUME NEW j \in Cached(r)
                 PROVE  j \in Committed(ledger) /\ r[j].outcome = ledger.committed[j].outcome
      BY DEF CacheMatches
    <3>0. cached \in [Keys -> Responses] /\ j \in Keys
      BY <1>0 DEF TypeOK, Cached
    <3>1. CASE j = k
      BY <2>3, <3>0, <3>1
    <3>2. CASE j # k
      <4>1. r[j] = cached[j] /\ j \in Cached(cached)
        BY <3>0, <3>2 DEF Cached
      <4> QED
        BY <2>2, <4>1 DEF Sound, CacheMatches
    <3> QED
      BY <3>1, <3>2
  <2>5. Sound(policy, ledger, r)
    BY <2>2, <2>4 DEF Sound
  <2>6. new.ledger = ledger /\ new.cached = r
    OBVIOUS
  <2>7. SoundInv'
    <3>1. \A s \in durable' : s = Absent \/ \E p \in Policies : Sound(p, s.ledger, s.cached)
      BY <1>0, <2>1, <2>5, <2>6 DEF BooksInv, SoundInv
    <3>2. Sound(policy', ledger', cached') /\ up'
      BY <1>0, <1>1, <1>3, <2>5
    <3> QED
      BY <3>1, <3>2 DEF SoundInv
  <2>8. ChargeInv'
    <3> SUFFICES ASSUME NEW id \in charges
                 PROVE  \E j \in Keys : ChargedTo(id, j)'
      BY <1>1 DEF ChargeInv
    <3>1. PICK j \in Keys : ChargedTo(id, j)
      BY DEF BooksInv, ChargeInv
    <3>2. /\ disk'.ledger.committed[j] = disk.ledger.committed[j]
          /\ ledger'.committed[j] = disk.ledger.committed[j]
          /\ \A s \in durable' : s.ledger.committed[j] = disk.ledger.committed[j]
      BY <1>0, <1>1, <2>1, <2>6, <3>1 DEF ChargedTo
    <3> QED
      BY <3>1, <3>2 DEF ChargedTo
  <2> QED
    BY <2>7, <2>8 DEF BooksInv
<1> QED
  BY <1>2, <1>3 DEF Finish

\* A restart takes over a file that load_state accepted, or opens a new ledger.
LEMMA BooksStart ==
  ASSUME IInv, BooksInv, ResponseInv', NEW p \in Policies, NEW id \in Pids, Start(p, id)
  PROVE  BooksInv'
<1> USE DEF files
<1>1. UNCHANGED <<disk, durable, charges>> /\ up' /\ policy' = p /\ cached' = disk.cached
  BY DEF Start
<1>2. \A k \in Keys : ledger'.committed[k] = disk.ledger.committed[k]
  BY DEF Start, Absent, EmptyLedger
<1>3. Sound(policy', ledger', cached')
  <2>1. CASE disk = Absent
    <3>1. ledger' = EmptyLedger(p.generation, p.quota_limit)
      BY <2>1 DEF Start
    <3>2. p.quota_limit \in Nat
      BY PolicyAssumption, BoundsAssumption DEF ValidPolicies
    <3>3. Balanced(ledger')
      BY <3>1, <3>2, EmptyBalanced
    <3>4. Cached(cached') = {}
      BY <1>1, <2>1 DEF Absent, NoCache, Cached
    <3>5. ledger'.generation = p.generation /\ ledger'.quota_limit = p.quota_limit
      BY <3>1 DEF EmptyLedger
    <3> QED
      BY <1>1, <3>3, <3>4, <3>5 DEF Sound, CacheMatches
  <2>2. CASE disk # Absent
    <3>1. Accepts(p, disk) /\ ledger' = disk.ledger
      BY <2>2 DEF Start
    <3>2. Balanced(disk.ledger) /\ CacheMatches(disk.ledger, disk.cached)
      BY <3>1 DEF Accepts, DurableInvariantsHold, Balanced, CacheMatches
    <3> QED
      BY <1>1, <3>1, <3>2 DEF Sound, Accepts
  <2> QED
    BY <2>1, <2>2
<1>4. SoundInv'
  BY <1>1, <1>3 DEF BooksInv, SoundInv
<1>5. ChargeInv'
  BY <1>1, <1>2 DEF BooksInv, ChargeInv, ChargedTo
<1> QED
  BY <1>4, <1>5 DEF BooksInv

\* A kill or a power loss leaves one of the files there were.
LEMMA BooksDie ==
  ASSUME IInv, BooksInv, ResponseInv', Crash \/ PowerLoss
  PROVE  BooksInv'
<1>1. /\ Die
      /\ disk' \in durable' /\ disk' \in durable /\ durable' \subseteq durable
  BY DEF Crash, PowerLoss, IInv, FilesInv
<1>2. ~up' /\ ledger' = Absent.ledger /\ charges' = charges
  BY <1>1 DEF Die
<1>3. SoundInv'
  BY <1>1, <1>2 DEF BooksInv, SoundInv
<1>4. ChargeInv'
  <2> SUFFICES ASSUME NEW id \in charges PROVE \E j \in Keys : ChargedTo(id, j)'
    BY <1>2 DEF ChargeInv
  <2>1. PICK j \in Keys : ChargedTo(id, j)
    BY DEF BooksInv, ChargeInv
  <2> QED
    BY <1>1, <1>2, <2>1 DEF ChargedTo
<1> QED
  BY <1>3, <1>4 DEF BooksInv

LEMMA BooksInit == Init => BooksInv
BY DEF Init, BooksInv, SoundInv, ChargeInv, ResponseInv, Idle

LEMMA BooksNext == IInv /\ BooksInv /\ [Next]_vars => BooksInv'
<1> SUFFICES ASSUME IInv, BooksInv, [Next]_vars PROVE BooksInv'
  OBVIOUS
<1>0. ResponseInv'
  BY ResponseStep DEF IInv, BooksInv
<1>1. CASE UNCHANGED <<up, policy, ledger, cached, disk, durable, charges>>
  BY <1>0, <1>1, BooksUntouched
<1>2. ASSUME NEW c \in Conns, HandlerStep(c) PROVE BooksInv'
  BY <1>0, <1>1, <1>2, BooksAudit, BooksFresh, BooksFinish
  DEF HandlerStep, AuthorizeDenied, AuthorizeReplay, AuditDenial, ReadCached, AuditReplay,
      CallProvider, ProviderOutcome, AuditOutcome, Respond, memory, files
<1>3. ASSUME NEW c \in Conns, NEW req \in Requests, Accept(c, req) PROVE BooksInv'
  BY <1>1, <1>3 DEF Accept, memory, files
<1>4. ASSUME NEW f \in Expiring, Expire(f) PROVE BooksInv'
  BY <1>1, <1>4 DEF Expire, memory, files
<1>5. CASE UNCHANGED vars
  BY <1>1, <1>5 DEF vars, memory, files
<1> QED
  BY <1>0, <1>2, <1>3, <1>4, <1>5, BooksStart, BooksDie DEF Next

\* The books invariant holds in every reachable state.
LEMMA BooksAlways == Spec => [](IInv /\ BooksInv)
BY IInvInit, IInvNext, BooksInit, BooksNext, PTL DEF Spec

\* A call that was made finds a place for its response: fewer responses are cached
\* than keys reserved, for the handler's own key is reserved and not cached.
LEMMA RoomForResponse == IInv /\ BooksInv => CapacityRefusedFirst
<1> SUFFICES ASSUME IInv, BooksInv, NEW c \in Conns, conn[c].pc = "finish"
             PROVE  Cardinality(Cached(cached)) < MaxEntries
  BY DEF CapacityRefusedFirst
<1> DEFINE k == conn[c].req.key
<1>1. up /\ k \in Keys /\ LeaseHeld(c, k)
  BY DEF IInv, FilesInv, LeaseInv, Fresh, TypeOK, Requests
<1>2. k \in Committed(ledger) /\ cached[k] = NoReply
  BY <1>1 DEF LeaseHeld, Committed, IInv, CopiesInv
<1>3. Sound(policy, ledger, cached)
  BY <1>1 DEF BooksInv, SoundInv
<1>4. Cached(cached) \subseteq Committed(ledger) \ {k}
  BY <1>2, <1>3 DEF Sound, CacheMatches, Cached
<1>5. /\ IsFiniteSet(Committed(ledger)) /\ Cardinality(Committed(ledger)) \in Nat
      /\ IsFiniteSet(Committed(ledger) \ {k}) /\ Cardinality(Cached(cached)) \in Nat
  BY CountsFinite DEF Committed, Cached
<1>6. Cardinality(Committed(ledger) \ {k}) = Cardinality(Committed(ledger)) - 1
  BY <1>2, <1>5, FS_RemoveElement
<1>7. Cardinality(Cached(cached)) <= Cardinality(Committed(ledger) \ {k})
  BY <1>4, <1>5, FS_Subset
<1>8. Cardinality(Committed(ledger)) <= MaxEntries
  BY <1>3 DEF Sound, Balanced
<1> QED
  BY <1>5, <1>6, <1>7, <1>8, BoundsAssumption

\* Ledger, audit trail and provider agree whatever was interrupted: what was sent is
\* reserved and charged, what is charged is reserved, and a call that was made finds a
\* place for its response.
THEOREM AgreementCorrect == Spec => []LedgerAndAuditAgree
<1>1. IInv /\ BooksInv => ReservedBeforeSent
  BY DEF IInv, SettledInv, ReservedBeforeSent, Committed
<1>2. IInv /\ BooksInv => ChargesAreDurable
  <2> SUFFICES ASSUME BooksInv, NEW id \in charges, NEW s \in durable
               PROVE  \E k \in Committed(s.ledger) : s.ledger.committed[k].outcome = id
    BY DEF ChargesAreDurable
  <2>1. PICK k \in Keys : ChargedTo(id, k)
    BY DEF BooksInv, ChargeInv
  <2> QED
    BY <2>1 DEF ChargedTo, Committed
<1>3. IInv /\ BooksInv => LedgerAndAuditAgree
  BY <1>1, <1>2, RoomForResponse DEF LedgerAndAuditAgree
<1> QED
  BY <1>3, BooksAlways, PTL

\* What the invariant says of one ledger.
LEMMA BalancedCharged ==
  ASSUME NEW l, Balanced(l), l.quota_limit < U32Max
  PROVE  Charged(l) = l.quota_spent /\ l.quota_spent <= l.quota_limit
BY DEF Balanced

\* No ledger, in memory or in a file a crash may leave, has charged more than its limit,
\* as long as that is below u32::MAX.
THEOREM QuotaCorrect == Spec => []QuotaNeverExceeded
<1>1. IInv /\ BooksInv => QuotaNeverExceeded
  <2> SUFFICES ASSUME IInv, BooksInv, NEW l \in {ledger} \cup {s.ledger : s \in durable},
                      l.quota_limit < U32Max
               PROVE  Charged(l) <= l.quota_limit
    BY DEF QuotaNeverExceeded
  <2>1. ASSUME l = Absent.ledger PROVE Charged(l) <= l.quota_limit
    <3>1. l = EmptyLedger(0, 0) /\ l.quota_limit = 0
      BY <2>1 DEF Absent, EmptyLedger
    <3>2. Charged(EmptyLedger(0, 0)) = 0
      BY EmptyBalanced
    <3> QED
      BY <3>1, <3>2
  <2>2. ASSUME Balanced(l) PROVE Charged(l) <= l.quota_limit
    BY <2>2, BalancedCharged
  <2>3. l = Absent.ledger \/ Balanced(l)
    <3>1. CASE l = ledger
      BY <3>1 DEF BooksInv, SoundInv, Sound
    <3>2. ASSUME NEW s \in durable, l = s.ledger PROVE l = Absent.ledger \/ Balanced(l)
      BY <3>2 DEF BooksInv, SoundInv, Sound
    <3> QED
      BY <3>1, <3>2
  <2> QED
    BY <2>1, <2>2, <2>3
<1> QED
  BY <1>1, BooksAlways, PTL

\* Whatever state file a crash leaves is one the next start can work with, if no policy
\* sets its quota to u32::MAX: at that limit the saturated sum is below what durable
\* invariants add up.
THEOREM StateFilesCorrect ==
  ASSUME \A p \in Policies : p.quota_limit < U32Max
  PROVE  Spec => []StateFilesSound
<1>1. IInv /\ BooksInv => OwnStateAccepted
  <2> SUFFICES ASSUME IInv, BooksInv, NEW s \in durable \cup {disk}, s # Absent
               PROVE  \E p \in Policies : Accepts(p, s)
    BY DEF OwnStateAccepted
  <2>1. s \in durable /\ s \in States
    BY DEF IInv, FilesInv, TypeOK
  <2>2. PICK p \in Policies : Sound(p, s.ledger, s.cached)
    BY <2>1 DEF BooksInv, SoundInv
  <2>3. s.ledger.quota_limit < U32Max
    BY <2>2 DEF Sound
  <2>4. Charged(s.ledger) = s.ledger.quota_spent
    BY <2>2, <2>3, BalancedCharged DEF Sound
  <2>5. s.ledger.quota_spent \in 0..U32Max
    BY <2>1 DEF States, Ledgers
  <2>6. Charged(s.ledger) <= U32Max
    BY <2>4, <2>5, BoundsAssumption
  <2>7. DurableInvariantsHold(s.ledger)
    BY <2>2, <2>4, <2>6 DEF Sound, Balanced, DurableInvariantsHold
  <2>8. Accepts(p, s)
    BY <2>2, <2>7 DEF Sound, CacheMatches, Accepts
  <2> QED
    BY <2>8
<1>2. QuotaNeverExceeded /\ OwnStateAccepted => StateFilesSound
  BY DEF StateFilesSound
<1> QED
  BY <1>1, <1>2, BooksAlways, QuotaCorrect, PTL

=============================================================================

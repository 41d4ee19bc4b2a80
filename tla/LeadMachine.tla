---------------------------- MODULE LeadMachine ----------------------------
(***************************************************************************)
(* LeadTaskMachine (packages/node/src/lead/machine.ts): the pure state     *)
(* machine of one led task.  Every operator below is one method of the     *)
(* class: it takes the task record and returns the new record, the         *)
(* messages the method sends and whether it asks for a (re)dispatch.       *)
(*                                                                         *)
(* Abstractions.                                                           *)
(*  - offerTtlUntil, leaseDeadline, drainUntil and cancelWaitUntil are one *)
(*    field: only the deadline of the current state is ever read           *)
(*    (dueTimer), and every entry into a state with a deadline sets it.    *)
(*    It is kept as the time LEFT, so that "now >= deadline" is left = 0;  *)
(*    the owner of the record counts it down.                              *)
(*  - history keeps the answers to offers (accepted, rejected) as a set;   *)
(*    its other entries only label the escalation summary.  Reason codes   *)
(*    are the classes applyExclusion tells apart; bodies keep the fields   *)
(*    that are read.                                                       *)
(*  - validateAcceptance is a Boolean the caller computes from the body.   *)
(*  - timer scheduling, audit and logging actions have no state.           *)
(***************************************************************************)
EXTENDS Integers, FiniteSets

CONSTANTS
  Nodes,              \* candidate executors
  NoNode,             \* rec.target = null
  Leases,             \* the lease_ms values an accept may confirm
  DefaultLease,       \* leaseMsAid / leaseMsProject of the task's kind
  GraceMs,            \* params.graceMs
  OfferTtlMs,         \* offer_ttl_ms
  DrainMs,            \* params.drainMs
  CancelWaitMs,       \* params.cancelWaitMs
  MaxAttempts,        \* params.maxAttempts
  MaxDispatchRounds   \* params.maxDispatchRounds

ASSUME LeadConstants ==
  /\ NoNode \notin Nodes
  /\ Leases \subseteq Nat \ {0}
  /\ DefaultLease \in Nat \ {0}
  /\ GraceMs \in Nat
  /\ OfferTtlMs \in Nat \ {0}
  /\ DrainMs \in Nat \ {0}
  /\ CancelWaitMs \in Nat \ {0}
  /\ MaxAttempts \in Nat \ {0}
  /\ MaxDispatchRounds \in Nat \ {0}

-----------------------------------------------------------------------------
(* The record and the messages.                                            *)

Terminal == {"done", "failed", "escalated", "closed"}

LeadStates ==
  {"drafting", "offered", "running", "reclaiming", "cancelling"} \cup Terminal

Timers == {"offer_ttl", "lease", "drain", "cancel_wait"}

HistoryEntry ==
  [node : Nodes, attempt : Nat, outcome : {"accepted", "rejected"}]

LeadRecord ==
  [state : LeadStates,
   attempt : Nat,
   target : Nodes \cup {NoNode},
   leaseMs : Nat,
   acceptedThisAttempt : BOOLEAN,
   acceptedFailedBudget : Nat,
   dispatchRounds : Nat,
   renewalSeq : Nat,
   excluded : [Nodes -> {"none", "once", "permanent"}],
   history : SUBSET HistoryEntry,
   left : Nat,
   drainClosed : BOOLEAN]

(* What a lead receives: the envelopes an executor may send about an offer *)
(* it was made.  The classes of reject code are the ones that              *)
(* applyExclusion distinguishes.                                           *)
RejectCodes == {"persistent", "busy", "other"}

Answers(offer) ==
       [type : {"accept"}, from : {offer.to}, attempt : {offer.attempt}, lease_ms : Leases]
  \cup [type : {"reject"}, from : {offer.to}, attempt : {offer.attempt}, code : RejectCodes]
  \cup [type : {"result"}, from : {offer.to}, attempt : {offer.attempt}, pass : BOOLEAN]
  \cup [type : {"fail"}, from : {offer.to}, attempt : {offer.attempt}, retryable : BOOLEAN]
  \cup [type : {"progress", "cancel.ack"}, from : {offer.to}, attempt : {offer.attempt}]

(* What a lead sends; lease and seq are those of a lease.renew.            *)
Outbound ==
  [type : {"offer", "cancel", "reject", "lease.renew"},
   to : Nodes, attempt : Nat, lease : Nat, seq : Nat]

Out(type, rec) ==
  [type |-> type, to |-> rec.target, attempt |-> rec.attempt, lease |-> 0, seq |-> 0]

(* The result of a method: [rec, sent, request].                           *)
Stay(rec) == [rec |-> rec, sent |-> {}, request |-> FALSE]
Goes(rec, sent) == [rec |-> rec, sent |-> sent, request |-> FALSE]
Requests(rec) == [rec |-> rec, sent |-> {}, request |-> TRUE]

LostAfterMs(lease) == 2 * (lease \div 3) + GraceMs

NewRecord ==
  [state |-> "drafting", attempt |-> 0, target |-> NoNode,
   leaseMs |-> DefaultLease, acceptedThisAttempt |-> FALSE,
   acceptedFailedBudget |-> 0, dispatchRounds |-> 0, renewalSeq |-> 0,
   excluded |-> [n \in Nodes |-> "none"], history |-> {},
   left |-> 0, drainClosed |-> FALSE]

IsTerminal(rec) == rec.state \in Terminal

Log(rec, outcome) ==
  [rec EXCEPT !.history = @ \cup
     {[node |-> rec.target, attempt |-> rec.attempt, outcome |-> outcome]}]

Exclude(rec, scope) ==
  IF rec.target \in Nodes THEN [rec EXCEPT !.excluded[rec.target] = scope] ELSE rec

-----------------------------------------------------------------------------
(* Dispatch.                                                               *)

Offer(rec, target, attempt) ==
  LET r == [rec EXCEPT !.attempt = attempt, !.target = target,
                       !.acceptedThisAttempt = FALSE, !.state = "offered",
                       !.left = OfferTtlMs, !.drainClosed = FALSE]
  IN  Goes(r, {Out("offer", r)})

(* dispatchTo: the first dispatch, only from drafting; attempt := 1.       *)
DispatchTo(rec, target) ==
  IF rec.state # "drafting" THEN Stay(rec) ELSE Offer(rec, target, 1)

(* redispatchTo: the answer to a requestDispatch; attempt + 1.             *)
RedispatchTo(rec, target) ==
  IF rec.state # "drafting" THEN Stay(rec) ELSE Offer(rec, target, rec.attempt + 1)

-----------------------------------------------------------------------------
(* R4 and R7: revoke, drain, then spend a budget or escalate.              *)

Finish(rec, state) == Stay([rec EXCEPT !.state = state, !.left = 0])

(* Fault: the attempt is reclaimed without a task.cancel.                  *)
BeginReclaimSilently(rec) ==
  Stay([rec EXCEPT !.state = "reclaiming", !.drainClosed = FALSE, !.left = DrainMs])

BeginReclaim(rec) ==
  LET r == [rec EXCEPT !.state = "reclaiming", !.drainClosed = FALSE,
                       !.left = DrainMs]
  IN  Goes(r, IF r.target \in Nodes THEN {Out("cancel", r)} ELSE {})

(* Fault: the accepted-failure budget is compared off by one.              *)
BudgetOrEscalateLate(rec, accepted) ==
  LET r == IF accepted THEN [rec EXCEPT !.acceptedFailedBudget = @ + 1]
                       ELSE [rec EXCEPT !.dispatchRounds = @ + 1]
  IN  IF \/ r.acceptedFailedBudget > MaxAttempts
         \/ r.dispatchRounds >= MaxDispatchRounds
      THEN Finish(r, "escalated")
      ELSE Requests([r EXCEPT !.state = "drafting", !.left = 0])

BudgetOrEscalate(rec, accepted) ==
  LET r == IF accepted THEN [rec EXCEPT !.acceptedFailedBudget = @ + 1]
                       ELSE [rec EXCEPT !.dispatchRounds = @ + 1]
  IN  IF \/ r.acceptedFailedBudget >= MaxAttempts
         \/ r.dispatchRounds >= MaxDispatchRounds
      THEN Finish(r, "escalated")
      ELSE Requests([r EXCEPT !.state = "drafting", !.left = 0])

CloseDrain(rec) ==
  BudgetOrEscalate([rec EXCEPT !.drainClosed = TRUE], rec.acceptedThisAttempt)

(* R8: a persistent refusal excludes the node for the life of the task,    *)
(* busy does not exclude, anything else excludes "once".                   *)
ApplyExclusion(rec, code) ==
  CASE code = "persistent" -> Exclude(rec, "permanent")
    [] code = "busy"       -> rec
    [] OTHER               -> Exclude(rec, "once")

-----------------------------------------------------------------------------
(* Messages, by the state they meet.                                       *)

OnOfferedMessage(rec, m) ==
  CASE m.type = "accept" ->
         Stay([Log(rec, "accepted") EXCEPT
                 !.acceptedThisAttempt = TRUE, !.state = "running",
                 !.leaseMs = m.lease_ms, !.left = LostAfterMs(m.lease_ms)])
    [] m.type = "reject" ->
         BudgetOrEscalate(ApplyExclusion(Log(rec, "rejected"), m.code), FALSE)
    [] OTHER -> Stay(rec)

(* A progress re-arms the lost timer and answers with a lease.renew.  The  *)
(* code sends none for a progress without a message id and a fence: what a *)
(* v2 executor sends has both, what a v1 executor sends has none, and one  *)
(* renewal more in the outbox is not read by it.                           *)
OnProgress(rec) ==
  LET r == [rec EXCEPT !.left = LostAfterMs(rec.leaseMs),
                       !.renewalSeq = @ + 1]
  IN  Goes(r, {[Out("lease.renew", r) EXCEPT !.lease = r.leaseMs,
                                             !.seq = r.renewalSeq]})

OnRunningMessage(rec, m) ==
  CASE m.type = "progress" -> OnProgress(rec)
    [] m.type = "result" /\ m.pass -> Finish(rec, "done")
    [] m.type = "result" /\ ~m.pass -> BeginReclaim(rec)
    [] m.type = "fail" /\ ~m.retryable -> Finish(rec, "failed")
    [] m.type = "fail" /\ m.retryable -> BeginReclaim(rec)
    [] OTHER -> Stay(rec)

OnReclaimingMessage(rec, m) ==
  CASE rec.drainClosed -> Stay(rec)
    [] m.type = "result" /\ m.pass -> Finish(rec, "done")
    [] m.type = "result" /\ ~m.pass -> Stay(rec)
    [] m.type = "fail" /\ ~m.retryable -> Finish(rec, "failed")
    [] m.type = "fail" /\ m.retryable -> Stay(rec)
    [] m.type = "cancel.ack" -> CloseDrain(rec)
    [] OTHER -> Stay(rec)

OnCancellingMessage(rec, m) ==
  CASE m.type = "result" /\ m.pass -> Finish(rec, "done")
    [] m.type = "result" /\ ~m.pass -> Stay(rec)
    [] m.type \in {"fail", "cancel.ack"} -> Finish(rec, "closed")
    [] OTHER -> Stay(rec)

(* R0: only the current target at the current attempt reaches the state;   *)
(* an older attempt is answered with reject(stale_attempt).                *)
OnMessage(rec, m) ==
  CASE IsTerminal(rec) \/ m.from # rec.target -> Stay(rec)
    [] ~IsTerminal(rec) /\ m.from = rec.target /\ m.attempt < rec.attempt ->
         Goes(rec, {Out("reject", rec)})
    [] ~IsTerminal(rec) /\ m.from = rec.target /\ m.attempt > rec.attempt -> Stay(rec)
    [] OTHER ->
         CASE rec.state = "offered"    -> OnOfferedMessage(rec, m)
           [] rec.state = "running"    -> OnRunningMessage(rec, m)
           [] rec.state = "reclaiming" -> OnReclaimingMessage(rec, m)
           [] rec.state = "cancelling" -> OnCancellingMessage(rec, m)
           [] OTHER                    -> Stay(rec)

-----------------------------------------------------------------------------
(* Timers and commands.                                                    *)

OnTimer(rec, timer) ==
  CASE timer = "offer_ttl" /\ rec.state = "offered" ->
         BeginReclaim(Exclude(rec, "once"))
    [] timer = "lease" /\ rec.state = "running" /\ rec.left = 0 ->
         BeginReclaim(Exclude(rec, "once"))
    [] timer = "drain" /\ rec.state = "reclaiming" /\ ~rec.drainClosed ->
         CloseDrain(rec)
    [] timer = "cancel_wait" /\ rec.state = "cancelling" -> Finish(rec, "closed")
    [] OTHER -> Stay(rec)

CancelByUser(rec) ==
  IF IsTerminal(rec) \/ rec.state = "cancelling" THEN Stay(rec)
  ELSE LET r == [rec EXCEPT !.state = "cancelling",
                            !.left = CancelWaitMs]
       IN  Goes(r, IF r.target \in Nodes THEN {Out("cancel", r)} ELSE {})

(* Fault: an owner's redispatch overrides a cancellation in progress.      *)
RedispatchByOwnerOverCancel(rec) ==
  CASE IsTerminal(rec) \/ rec.state = "reclaiming" -> Stay(rec)
    [] rec.state = "drafting" -> Requests(Exclude(rec, "once"))
    [] OTHER -> BeginReclaim(Exclude(rec, "once"))

RedispatchByOwner(rec) ==
  CASE IsTerminal(rec) \/ rec.state \in {"cancelling", "reclaiming"} -> Stay(rec)
    [] rec.state = "drafting" -> Requests(Exclude(rec, "once"))
    [] OTHER -> BeginReclaim(Exclude(rec, "once"))
=============================================================================

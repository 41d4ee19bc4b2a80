---------------------------- MODULE DurableLead ----------------------------
(***************************************************************************)
(* DurableLead (packages/node/src/runtime/lead.ts): the durable adapter    *)
(* around LeadTaskMachine, for one task led by this node.  Every event     *)
(* decodes the persisted record, runs the pure machine, resolves a         *)
(* dispatch request through the target selector and commits record,        *)
(* outbox rows, R1 dedup row and report intent in one transaction.         *)
(*                                                                         *)
(* The tasks of a node only share the fault latch, so one is modelled.     *)
(* Reading and committing a record happen in one synchronous step of the   *)
(* event loop, so the revision compare-and-set cannot fail and is left     *)
(* out.  Deadlines are countdowns (see LeadMachine): Advance is the        *)
(* passing of time, and nothing bounds how late a tick may run.            *)
(***************************************************************************)
EXTENDS LeadMachine

CONSTANTS
  MaxRenewals,   \* bound: heartbeats consumed over the life of the task
  CenterGated    \* TRUE: owner commands arrive through the center's queue,
                 \* which only knows reported tasks; FALSE: a host calls
                 \* lead.cancel / lead.redispatch directly

ASSUME DurableLeadConstants ==
  /\ MaxRenewals \in Nat
  /\ CenterGated \in BOOLEAN

VARIABLES
  originated,  \* the row lead:v2:<task> exists
  rec,         \* its LeadRecord
  task_seq,    \* its report revision
  seen,        \* node_dedup rows of the current attempt: consumed types
  outbox,      \* envelopes sealed so far
  lastReport,  \* the newest task.report intent
  faulted      \* the fail-closed latch

vars == <<originated, rec, task_seq, seen, outbox, lastReport, faulted>>

NoReport == [task_seq |-> 0, status |-> "drafting", attempt |-> 0, exec |-> NoNode]

Reports == [task_seq : Nat, status : LeadStates, attempt : Nat, exec : Nodes \cup {NoNode}]

MessageTypes == {"accept", "reject", "progress", "result", "fail", "cancel.ack"}

TypeOK ==
  /\ originated \in BOOLEAN
  /\ rec \in LeadRecord
  /\ task_seq \in Nat
  /\ seen \subseteq MessageTypes
  /\ outbox \subseteq Outbound
  /\ lastReport \in Reports
  /\ faulted \in BOOLEAN

-----------------------------------------------------------------------------
(* validTask: attempt 0 iff a fresh draft; an attempt has a target and has *)
(* been reported.                                                          *)
ValidTask(r, seq) ==
  IF r.attempt = 0
  THEN r.state = "drafting" /\ r.target = NoNode /\ seq = 0
  ELSE r.target # NoNode /\ seq >= 1

(* Fault: only permanent exclusions are filtered.                          *)
CandidatesIgnoringOnce(r) == {n \in Nodes : r.excluded[n] # "permanent"}

(* createTargetSelector: an active, capable node of the directory snapshot *)
(* that is not excluded, or null.  The snapshot is refreshed by the center *)
(* at any time, so the selection is any such node or null.  "once" and     *)
(* "permanent" are filtered alike and no entry is ever removed, so here    *)
(* "once" lasts for life too; see OnceExcludesOnce.                        *)
Candidates(r) == {n \in Nodes : r.excluded[n] = "none"}

Selection(r) == Candidates(r) \cup {NoNode}

(* driveRedispatch: a requestDispatch is answered inline by the selector.  *)
DriveRedispatch(e, target) ==
  IF ~e.request \/ target = NoNode THEN e
  ELSE LET f == RedispatchTo(e.rec, target)
       IN  [rec |-> f.rec, sent |-> e.sent \cup f.sent, request |-> FALSE]

(* Fault: a report is only appended for a new attempt.                     *)
RunEventByAttempt(e) ==
  LET changed == e.rec.attempt # rec.attempt
      seq     == IF changed THEN task_seq + 1 ELSE task_seq
  IN  /\ rec' = e.rec
      /\ outbox' = outbox \cup e.sent
      /\ task_seq' = seq
      /\ lastReport' = IF changed
                       THEN [task_seq |-> seq, status |-> e.rec.state,
                             attempt |-> e.rec.attempt, exec |-> e.rec.target]
                       ELSE lastReport

(* runEvent: a report intent is appended when the state's name changes.    *)
RunEvent(e) ==
  LET changed == e.rec.state # rec.state
      seq     == IF changed THEN task_seq + 1 ELSE task_seq
  IN  /\ rec' = e.rec
      /\ outbox' = outbox \cup e.sent
      /\ task_seq' = seq
      /\ lastReport' = IF changed
                       THEN [task_seq |-> seq, status |-> e.rec.state,
                             attempt |-> e.rec.attempt, exec |-> e.rec.target]
                       ELSE lastReport

Commit(e) ==
  \E target \in Selection(e.rec) : RunEvent(DriveRedispatch(e, target))

(* A dedup row of an attempt or a task that is over can only suppress a    *)
(* message that is ignored anyway: only the other rows are kept.           *)
KeepSeen(s) ==
  seen' = IF rec'.attempt = rec.attempt /\ ~IsTerminal(rec') THEN s ELSE {}

(* Every entry point first asserts health, then decodes the row.           *)
Decodes == originated /\ ~faulted /\ ValidTask(rec, task_seq)

-----------------------------------------------------------------------------
(* Host and owner operations.                                              *)

Init ==
  /\ originated = FALSE
  /\ rec = NewRecord
  /\ task_seq = 0
  /\ seen = {}
  /\ outbox = {}
  /\ lastReport = NoReport
  /\ faulted = FALSE

Originate ==
  /\ ~faulted /\ ~originated
  /\ originated' = TRUE
  /\ UNCHANGED <<rec, task_seq, seen, outbox, lastReport, faulted>>

(* dispatch: legal whenever the task is drafting, but a host calls it once,*)
(* right after originate.                                                  *)
Dispatch(n) ==
  /\ Decodes /\ rec.attempt = 0
  /\ RunEvent(DispatchTo(rec, n))
  /\ KeepSeen(seen)
  /\ UNCHANGED <<originated, faulted>>

Commanded == CenterGated => lastReport # NoReport

Cancel ==
  /\ Decodes /\ Commanded
  /\ RunEvent(CancelByUser(rec))
  /\ KeepSeen(seen)
  /\ UNCHANGED <<originated, faulted>>

Redispatch ==
  /\ Decodes /\ Commanded
  /\ Commit(RedispatchByOwner(rec))
  /\ KeepSeen(seen)
  /\ UNCHANGED <<originated, faulted>>

-----------------------------------------------------------------------------
(* consume: an envelope of an executor that was offered the task at that   *)
(* attempt, in any order and any number of times.  R1 drops a type already *)
(* consumed at this attempt (heartbeats are exempt); an envelope that is   *)
(* not authorised or no longer fresh is recorded but not applied.          *)

Offers == {o \in outbox : o.type = "offer"}

Deduplicated(m) == m.attempt = rec.attempt /\ m.type # "progress" /\ m.type \in seen

Recorded(m) ==
  IF m.attempt = rec.attempt /\ m.from = rec.target /\ m.type # "progress"
  THEN seen \cup {m.type} ELSE seen

Consume(m, applies) ==
  /\ Decodes
  /\ ~Deduplicated(m)
  /\ m.type = "progress" => rec.renewalSeq < MaxRenewals
  /\ IF applies THEN Commit(OnMessage(rec, m))
                ELSE UNCHANGED <<rec, task_seq, outbox, lastReport>>
  /\ KeepSeen(Recorded(m))
  /\ UNCHANGED <<originated, faulted>>

-----------------------------------------------------------------------------
(* tick: the timer that is due in the current state, else a retry of the   *)
(* target selection for a draft that has been dispatched before.           *)

TimerOf(state) ==
  CASE state = "offered"    -> "offer_ttl"
    [] state = "running"    -> "lease"
    [] state = "reclaiming" -> "drain"
    [] state = "cancelling" -> "cancel_wait"
    [] OTHER                -> "none"

(* Fault: a drain only ends on an acknowledgement.                         *)
DueTimerNoDrain == rec.state \in {"offered", "running", "cancelling"} /\ rec.left = 0

DueTimer ==
  /\ TimerOf(rec.state) \in Timers
  /\ rec.left = 0
  /\ rec.state = "reclaiming" => ~rec.drainClosed

TickTimer ==
  /\ Decodes /\ DueTimer
  /\ Commit(OnTimer(rec, TimerOf(rec.state)))
  /\ KeepSeen(seen)
  /\ UNCHANGED <<originated, faulted>>

TickRedispatch ==
  /\ Decodes /\ ~DueTimer
  /\ rec.state = "drafting" /\ rec.attempt >= 1
  /\ \E n \in Candidates(rec) : RunEvent(RedispatchTo(rec, n))
  /\ KeepSeen(seen)
  /\ UNCHANGED <<originated, faulted>>

(* tick (and every other entry point) on a record that does not decode.    *)
TickFault ==
  /\ originated /\ ~faulted /\ ~ValidTask(rec, task_seq)
  /\ faulted' = TRUE
  /\ UNCHANGED <<originated, rec, task_seq, seen, outbox, lastReport>>

(* The process restarts on the same database: only the latch is lost.      *)
Restart ==
  /\ faulted
  /\ faulted' = FALSE
  /\ UNCHANGED <<originated, rec, task_seq, seen, outbox, lastReport>>

-----------------------------------------------------------------------------
Advance ==
  /\ rec.left > 0
  /\ rec' = [rec EXCEPT !.left = @ - 1]
  /\ UNCHANGED <<originated, task_seq, seen, outbox, lastReport, faulted>>

Tick == TickTimer \/ TickRedispatch \/ TickFault

Next ==
  \/ Originate
  \/ \E n \in Nodes : Dispatch(n)
  \/ Cancel
  \/ Redispatch
  \/ \E o \in Offers : \E m \in Answers(o), applies \in BOOLEAN : Consume(m, applies)
  \/ Tick
  \/ Restart
  \/ Advance

(* The pump ticks every interval, time passes, and a node that is not      *)
(* excluded is eventually in the directory snapshot a tick selects from;   *)
(* nobody owes the task a message or a command.                            *)
Fairness == WF_vars(Tick) /\ WF_vars(Advance)

Spec == Init /\ [][Next]_vars

FairSpec == Spec /\ Fairness

-----------------------------------------------------------------------------
(* Properties.                                                             *)

Sealed(type, n, a) == \E o \in outbox : o.type = type /\ o.to = n /\ o.attempt = a

(* The record that any sequence of events leaves behind passes validTask,  *)
(* so a later event can decode it: the adapter never persists a record     *)
(* that would fail the node closed (decode, lead.ts).                      *)
PersistedDecodes == originated => ValidTask(rec, task_seq)

(* R4: an attempt is left behind only after its target refused the offer   *)
(* or a task.cancel for it was sealed, whatever path led to the new offer  *)
(* (expiry, loss, failure, failed acceptance, owner command).              *)
RevokeBeforeRedispatch ==
  \A o \in Offers :
     o.attempt < rec.attempt =>
       \/ Sealed("cancel", o.to, o.attempt)
       \/ [node |-> o.to, attempt |-> o.attempt, outcome |-> "rejected"] \in rec.history

(* R7: every attempt is paid for from exactly one of the two budgets, none *)
(* is spent past its limit, and only "escalated" exhausts one; so a task   *)
(* makes at most MaxAttempts + MaxDispatchRounds - 1 attempts.             *)
BudgetAccounting ==
  LET spent == rec.acceptedFailedBudget + rec.dispatchRounds
  IN  /\ rec.state \in {"offered", "running", "reclaiming", "failed"}
           => rec.attempt = spent + 1
      /\ rec.state \in {"drafting", "escalated"} => rec.attempt = spent
      /\ rec.state \in {"cancelling", "closed", "done"} => rec.attempt \in {spent, spent + 1}
      /\ (rec.state = "escalated") <=> \/ rec.acceptedFailedBudget >= MaxAttempts
                                      \/ rec.dispatchRounds >= MaxDispatchRounds

(* The newest report intent carries the current revision and state, and,   *)
(* except while an inline re-offer is outstanding, the current attempt and *)
(* executor: no transition escapes the center's projection for good.       *)
ReportIsCurrent ==
  /\ lastReport.task_seq = task_seq
  /\ rec.attempt >= 1 => lastReport.status = rec.state
  /\ rec.attempt >= 1 /\ rec.state # "offered" =>
       lastReport.attempt = rec.attempt /\ lastReport.exec = rec.target

(* R8: an offer never goes to a node that the task excluded for life, and  *)
(* the offer that follows a refusal, an expiry, a loss or an owner's       *)
(* redispatch only goes back to the node of that attempt if the event did  *)
(* not exclude it, whether the new target is selected in the same event or *)
(* by a later tick (applyExclusion, onTimer, driveRedispatch).             *)
ExclusionsRespected ==
  [][\A o \in Offers' \ Offers :
        /\ rec'.excluded[o.to] # "permanent"
        /\ o.to = rec.target => rec'.excluded[o.to] = "none"]_vars

(* R8, "the other transient failures exclude once only" (design 01:240),   *)
(* and the record's comment (machine.ts:45): when an attempt is offered,   *)
(* a node that an attempt before the last one excluded once is a candidate *)
(* again.                                                                  *)
OnceExcludesOnce ==
  [][\A o \in Offers' \ Offers : \A n \in Nodes \ {rec.target} :
        rec.excluded[n] = "once" => n \in Candidates(rec')]_vars

(* A user's cancel and a terminal state are final: nothing that arrives    *)
(* later (results, failures, timers, owner redispatches) dispatches the    *)
(* task again, and a cancelled task ends done or closed.                   *)
CancelIsFinal ==
  [][/\ IsTerminal(rec) => rec' = rec /\ outbox' = outbox
     /\ rec.state = "cancelling" => /\ rec'.state \in {"cancelling", "done", "closed"}
                                    /\ Offers' = Offers]_vars

(* Once dispatched, a task whose executors stop answering still reaches a  *)
(* terminal state, or waits in drafting because every node is excluded,    *)
(* from which nothing but a cancel leads out as "once" is never lifted.    *)
Settles ==
  rec.attempt >= 1 ~>
    (IsTerminal(rec) \/ (rec.state = "drafting" /\ Candidates(rec) = {}))

(* The command line says of a task originated without a target: it stays   *)
(* drafting and the periodic pump dispatches it once the directory has a   *)
(* candidate (cli main.ts).                                                *)
FreshDraftIsDispatched == originated ~> rec.attempt >= 1
=============================================================================

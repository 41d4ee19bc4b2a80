---------------------------- MODULE LeadTakeover ----------------------------
(***************************************************************************)
(* Moving a led task to another machine: the checkpoints a lead keeps      *)
(* (lead/store.ts, lead/checkpoint.ts and lead/supervisor.ts in v1, the    *)
(* rows of runtime/lead.ts in v2), their export as a bundle and the        *)
(* import, which fences what it takes over (lead/takeover.ts, importTasks).*)
(*                                                                         *)
(* Any number of machines.  The code lets the operator start and stop any  *)
(* of them, export from any that has the task and import any bundle        *)
(* anywhere, at any time and as often as they like; every machine that     *)
(* runs and has a checkpoint of the task leads it.  What the operator is   *)
(* asked to do (takeover.ts: the origin is stopped first and yields) is    *)
(* counted in "breaches" and guards nothing.  Importing a bundle of        *)
(* several tasks is importing each: one task is modelled.  A bundle is     *)
(* signed, so only what was exported can be imported.                      *)
(*                                                                         *)
(* A checkpoint is written in the step that changes the record, so the     *)
(* record in memory is the one on disk.  Timers may fire at any time       *)
(* (heartbeats only postpone them and are left out) and answers to offers  *)
(* may be repeated: more than the R1 rows of v2 let through.               *)
(***************************************************************************)
EXTENDS LeadMachine, Sequences

CONSTANTS
  Leads,       \* machines that may lead
  Origin,      \* the one that originated the task
  NoRow,       \* no checkpoint of the task
  NoLead,      \* no machine
  MaxOffers,   \* bound: offers of all machines
  MaxHandovers \* bound: exports, and breaches of the procedure

ASSUME TakeoverAssumption ==
  /\ Origin \in Leads
  /\ NoLead \notin Leads
  /\ MaxOffers \in Nat /\ MaxHandovers \in Nat

VARIABLES
  durable,   \* v2 (runtime/lead.ts), else v1 (lead/takeover.ts)
  row,       \* per machine: its checkpoint of the task
  up,        \* per machine: it has the task and its process runs
  bundles,   \* exported checkpoints in the operator's hands
  exports,   \* exports so far
  offered,   \* history: offers sealed, by whichever machine
  reported,  \* history: revisions of the reports appended, as long as the procedure is kept (v2)
  leader,    \* history: the machine that took the task over last
  breaches   \* history: how often the operator has broken the procedure

takeoverVars == <<durable, row, up, bundles, exports, offered, reported, leader, breaches>>
transfers == <<bundles, exports>>
procedure == <<leader, breaches>>

Checkpoint == [rec : LeadRecord, task_seq : Nat]

(* What was exported, where, and which machine took it first.              *)
Bundle == [task : Checkpoint, from : Leads, to : Leads \cup {NoLead}]

ASSUME RowAssumption == NoRow \notin Checkpoint

TakeoverInit ==
  /\ durable \in BOOLEAN
  /\ row = [l \in Leads |-> IF l = Origin THEN [rec |-> NewRecord, task_seq |-> 0]
                                          ELSE NoRow]
  /\ up = [l \in Leads |-> l = Origin]
  /\ bundles = {} /\ exports = 0
  /\ offered = <<>> /\ reported = <<>>
  /\ leader = Origin /\ breaches = 0

(* The operator has kept to the procedure so far.                          *)
kept == breaches = 0

(* A step keeps to the procedure, or is one more breach of it; the reports *)
(* are only followed until the first.                                      *)
KeepsIf(orderly) ==
  IF orderly THEN UNCHANGED <<breaches, reported>>
  ELSE /\ exports + breaches < MaxHandovers /\ breaches' = breaches + 1
       /\ reported' = <<>>

-----------------------------------------------------------------------------
(* A machine that leads.                                                   *)

rec(l) == row[l].rec

(* What later steps can tell of a record: the history is only read by      *)
(* people, timers fire at any time here, and a task that has ended stays   *)
(* as it is.                                                               *)
Kept(r) ==
  IF IsTerminal(r) THEN [NewRecord EXCEPT !.state = r.state, !.attempt = r.attempt]
  ELSE [r EXCEPT !.history = {}, !.left = 0]

Leading(l) == up[l] /\ row[l] # NoRow

(* persist and runEvent: the result of a method becomes the checkpoint; in *)
(* v2 a change of state is a new report revision.                          *)
Persist(l, e) ==
  LET changed == durable /\ e.rec.state # rec(l).state
      seq     == row[l].task_seq + (IF changed THEN 1 ELSE 0)
      offers  == {m \in e.sent : m.type = "offer"}
      offer   == CHOOSE m \in offers : TRUE
  IN  /\ offers # {} => Len(offered) < MaxOffers
      /\ row' = [row EXCEPT ![l] = [rec |-> Kept(e.rec), task_seq |-> seq]]
      /\ offered' = IF offers = {} THEN offered
                    ELSE Append(offered, [lead |-> l, to |-> offer.to, attempt |-> offer.attempt])
      /\ reported' = IF changed /\ kept THEN Append(reported, seq) ELSE reported
      /\ UNCHANGED <<durable, up, transfers, procedure>>

(* The host or the selector answers a requestDispatch at once, or later.   *)
Deliver(l, e) ==
  \/ Persist(l, e)
  \/ \E n \in {k \in Nodes : e.request /\ e.rec.excluded[k] = "none"} :
       Persist(l, RedispatchTo(e.rec, n))

Dispatch(l, n) ==
  /\ Leading(l) /\ rec(l).state = "drafting" /\ rec(l).attempt = 0
  /\ Persist(l, DispatchTo(rec(l), n))

Consume(o, m) ==
  /\ Leading(o.lead) /\ m.type # "progress"
  /\ Deliver(o.lead, OnMessage(rec(o.lead), m))

TimerFires(l, timer) ==
  /\ Leading(l) /\ ~IsTerminal(rec(l))
  /\ Deliver(l, OnTimer(rec(l), timer))

(* tick, and onNeedDispatch of restoreAll and of an import.                *)
Redispatch(l, n) ==
  /\ Leading(l) /\ rec(l).state = "drafting" /\ rec(l).attempt >= 1
  /\ rec(l).excluded[n] = "none"
  /\ Persist(l, RedispatchTo(rec(l), n))

Cancel(l) ==
  /\ Leading(l) /\ rec(l).attempt >= 1
  /\ Persist(l, CancelByUser(rec(l)))

-----------------------------------------------------------------------------
(* The operator.                                                           *)

Stop(l) ==
  /\ up[l] /\ up' = [up EXCEPT ![l] = FALSE]
  /\ UNCHANGED <<durable, row, transfers, offered, reported, procedure>>

(* restoreAll, or start on the same database.  A machine that has handed   *)
(* the task over should not run again with its old checkpoint of it.       *)
Start(l) ==
  /\ ~up[l] /\ row[l] # NoRow
  /\ up' = [up EXCEPT ![l] = TRUE]
  /\ KeepsIf(l = leader)
  /\ UNCHANGED <<durable, row, transfers, offered, leader>>

Exported(l) ==
  /\ row[l] # NoRow /\ exports + breaches < MaxHandovers
  /\ bundles' = bundles \cup {[task |-> row[l], from |-> l, to |-> NoLead]}
  /\ exports' = exports + 1
  /\ UNCHANGED <<durable, row, up, offered, reported, procedure>>

ExportCheckpoints(l) == ~durable /\ Exported(l)

(* qlong lead export: the node is stopped.                                 *)
ExportTasks(l) == durable /\ ~up[l] /\ Exported(l)

(* Fault: an equal attempt of the importer is overwritten.                 *)
FencesOnlyHigher(l, task) == row[l] # NoRow /\ row[l].rec.attempt > task.rec.attempt

(* The importer knows as much already: it keeps its own checkpoint.        *)
Fences(l, task) == row[l] # NoRow /\ row[l].rec.attempt >= task.rec.attempt

(* Fault: the revision counter starts again on the new machine.            *)
FencedRestarts(task) ==
  [rec |-> [task.rec EXCEPT !.attempt = @ + 1, !.state = "drafting"], task_seq |-> 0]

(* A task in flight goes back to drafting above its last attempt; in v2 a  *)
(* task that was never dispatched is taken as it is.                       *)
Fenced(task) ==
  IF durable /\ task.rec.attempt = 0 THEN task
  ELSE [task EXCEPT !.rec.attempt = @ + 1, !.rec.state = "drafting"]

(* Importing b on l keeps to the procedure: the machine that leads is      *)
(* stopped and b is what it has, for the first importer; or l has exported *)
(* or taken b before, and the fence is there to skip it.                   *)
Orderly(l, b) ==
  \/ l \in {b.from, b.to}
  \/ b.to = NoLead /\ ~up[leader] /\ b.task = row[leader]

(* A task that has ended is archived; its machine does not run it again.   *)
Imported(l, b) ==
  /\ ~Fences(l, b.task)
  /\ row' = [row EXCEPT ![l] = IF IsTerminal(b.task.rec) THEN b.task ELSE Fenced(b.task)]
  /\ bundles' = (bundles \ {b}) \cup {[b EXCEPT !.to = l]}
  /\ leader' = l
  /\ KeepsIf(Orderly(l, b))
  /\ UNCHANGED <<durable, exports, offered>>

(* The supervisor reads the store when it starts: the host imports before. *)
ImportCheckpoints(l, b) == ~durable /\ ~up[l] /\ Imported(l, b) /\ UNCHANGED up

(* qlong lead import: the importer's database must not be in use.          *)
ImportTasks(l, b) == durable /\ ~up[l] /\ Imported(l, b) /\ UNCHANGED up

(* qlong run --takeover, or takeover() of a node: the node has been        *)
(* started, so it leads already if it has the task.  The tick that follows *)
(* is a Redispatch.                                                        *)
Takeover(l, b) ==
  /\ durable /\ (up[l] \/ row[l] = NoRow)
  /\ Imported(l, b)
  /\ up' = [up EXCEPT ![l] = TRUE]

-----------------------------------------------------------------------------
TakeoverNext ==
  \/ \E l \in Leads, n \in Nodes : Dispatch(l, n) \/ Redispatch(l, n)
  \/ \E i \in DOMAIN offered : \E m \in Answers(offered[i]) : Consume(offered[i], m)
  \/ \E l \in Leads, timer \in Timers : TimerFires(l, timer)
  \/ \E l \in Leads : \/ Cancel(l) \/ Stop(l) \/ Start(l)
                       \/ ExportCheckpoints(l) \/ ExportTasks(l)
  \/ \E l \in Leads, b \in bundles :
       ImportCheckpoints(l, b) \/ ImportTasks(l, b) \/ Takeover(l, b)

TakeoverSpec == TakeoverInit /\ [][TakeoverNext]_takeoverVars

-----------------------------------------------------------------------------
(* Properties.                                                             *)

TakeoverTypeOK ==
  /\ durable \in BOOLEAN
  /\ row \in [Leads -> Checkpoint \cup {NoRow}]
  /\ up \in [Leads -> BOOLEAN]
  /\ leader \in Leads
  /\ bundles \subseteq Bundle
  /\ exports \in Nat /\ breaches \in Nat /\ exports + breaches <= MaxHandovers

(* Whatever the operator starts, exports or imports, in whatever order, no *)
(* machine offers an attempt number twice.                                 *)
LocalHighWater ==
  \A i, j \in DOMAIN offered :
    offered[i].lead = offered[j].lead /\ offered[i].attempt = offered[j].attempt => i = j

(* takeover.ts: should the procedure be broken, the high water of the      *)
(* attempts still keeps two machines from leading side by side.            *)
HighWaterIsBackstop ==
  \A i, j \in DOMAIN offered : offered[i].attempt = offered[j].attempt => i = j

(* One attempt, one offer: as long as the operator keeps to the procedure, *)
(* through any chain of machines and whatever is imported again on the     *)
(* machines of its transfer, no attempt number is offered by two leads or  *)
(* to two executors, whose R1 key and R0 order are the attempt.  On one    *)
(* machine that holds without the procedure.                               *)
UniqueAttempts ==
  /\ TakeoverTypeOK
  /\ LocalHighWater
  /\ kept => HighWaterIsBackstop

(* Report revisions go on where the machine before stopped: as long as the *)
(* operator keeps to the procedure, the n-th report of the task carries    *)
(* revision n, whichever machine appended it, so the center never gets two *)
(* contents under one revision (task_revision_conflict, directory.ts).     *)
RevisionsContinue == kept => \A n \in DOMAIN reported : reported[n] = n

(* A user's cancel outlives a takeover.                                    *)
CancelSurvivesTakeover ==
  [][kept' /\ rec(leader).state = "cancelling"
       => rec(leader)'.state \in {"cancelling", "done", "closed"}]_takeoverVars
=============================================================================

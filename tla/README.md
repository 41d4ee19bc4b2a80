# Verification of QLong: tasks, transport and center

QLong lets machines of a team ("dragons") hand tasks to each other.  A *lead*
node originates a task, offers it to an *executor* node, renews its lease,
collects the result, and redispatches it when the executor refuses, fails or
disappears.  Envelopes travel through a *gateway* that stores and forwards
them; a *registry* (the center) keeps nodes, teams and a projection of every
task, and queues the commands of a team's owner for the lead.

This directory holds TLA+ modules for that system, the TLC runs that check
them on small instances, and TLAPS proofs for every value of the constants.
Rules named R0 to R11 are those of `docs/QLONG_DESIGN_01_MSG_PROTOCOL.md`.

## 1. Inventory

| Component | State it keeps | Operations | What must hold |
|---|---|---|---|
| Lead machine `node/src/lead/machine.ts` | one record per led task: state, attempt, target, budgets, exclusions, deadlines | dispatchTo, redispatchTo, onMessage, onTimer, cancelByUser, redispatchByOwner | an attempt is revoked before the next one is offered (R4), every attempt is paid for once (R7), exclusions hold (R8), cancel is final |
| Durable lead `node/src/runtime/lead.ts`, `target-select.ts` | SQLite row per task (record + report revision), fault latch, verdict cache | originate, dispatch, cancel, redispatch, consume, tick, exportTasks, importTasks, stageArtifactVerification | what is persisted decodes again; record, outbox, dedup row and report intent move together |
| Durable executor `node/src/runtime/executor.ts`, `driver/fenced-driver.ts`, `runtime/run-handles.ts` | one slot, generation fence, last run, live handle, a settle in progress, a late start | consume (offer, cancel, renew), tick, settle, recover, close | at most one process, started once, quiet before a terminal message; one verdict per attempt |
| Node runtime store `node/src/runtime/store.ts`, `schema.ts` | inbox, outbox, dedup rows, effects, state rows with revisions | transition, receive, pending, ack, retention sweeps | an accepted envelope is neither lost nor applied twice |
| Durable node `node/src/runtime/node.ts` | draining, stopped, faulted and flushing latches, timers | start, stop, drain, pumpTick, flushReports, pullCommands | a fault stops intake, the shutdown order drains |
| Reports `node/src/runtime/report.ts`, `registry/src/task-projection.ts`, `directory.ts` reportTask | pending report intents; the center's projection | flush, reportTask | the projection never goes back and catches up |
| Owner commands `registry/src/command-store.ts` | queue of pending and acknowledged commands | enqueue, pendingFor, ack, prune | an accepted command is applied |
| Custody `node/src/gateway-client.ts`, `gateway/src/custody-store.ts` | connection, outstanding sends, custody rows | send, custody acknowledgement, deliver, delivery acknowledgement | hand-over between stores without loss |
| Gateway `gateway/src/ws.ts`, `core.ts`, `acl.ts`, `claim*.ts`, `mailbox.ts`, `relay.ts`, `cluster.ts`, `bus.ts` | connections, claims, mailboxes, instances | hello, replace, route, claim, relay | one connection of a node receives, claims are exclusive |
| Registry `registry/src/directory.ts`, `state-store.ts`, `http.ts`, `auth*.ts`, `import-ledger.ts` | teams, nodes, key epochs, grants, tokens, sessions | enrol, suspend, resume, revoke, rotate, grant, gc | epochs grow, a revoked node stays revoked, tokens are spent once |
| v1 protocol `node/src/executor/machine.ts`, `remote/session.ts`, `lead/supervisor.ts`, `lead/takeover.ts` | the in-memory predecessors of the durable lead and executor | the same protocol without a store | as above, without crashes |
| Storage `storage/src/*.ts` | owner lock, migrations, one SQLite connection | open, transaction, migrate, close | one owner, transactions are atomic |
| Core `core/src/*.ts` | none (values) | envelopes, canonical JSON, signatures, parameters, lease arithmetic | pure functions |
| Artifacts `node/src/collab/*.ts`, CLI, console | files, git, process set-up, a web view | | input and output |

How they interact.  A node is one Node.js process.  Every event (an envelope
from the inbox, a timer, a command) is handled in one synchronous segment: the
handler decodes the persisted record, runs a pure machine and commits record,
outgoing envelopes, dedup row and effects in one SQLite transaction.  A pump
(`node.ts` pumpTick) runs every interval and calls the executor's and the
lead's `tick`, the executor's `settle`, the gateway client's `flush` and the
reporter's `flush`.  Lead and executors only talk in envelopes, at least once
and in any order (R1).  The center only learns about a task from the reports
of its lead, and only reaches the lead through the command queue it polls.

What is hard here: answers, timers and owner commands of one attempt in any
order; awaits in the executor (prepare, start, stop, publish) during which the
slot changes; a process that outlives its node; timeouts whose answer still
comes; a crash between two commits; a record that a legal sequence of calls
makes undecodable; one latch that stops the timers of several parts; an
envelope that is in three databases, or in none; two gateways that believe
they serve one node; a request that was authorised before an await; a bundle
that is imported again.

`PROJECT.json` lists the components with their status and the hazards with
their lines and the properties that cover them.

## 2. Modules

| Module | Models | Kind |
|---|---|---|
| `LeadMachine` | `lead/machine.ts` | operators on one task record, no state of its own |
| `DurableLead` | `runtime/lead.ts`, `target-select.ts` | state machine around LeadMachine |
| `LeadReports` | `runtime/report.ts`, `directory.ts` reportTask, `task-projection.ts`, the effects of `runtime/store.ts` | DurableLead composed with the report path |
| `LeadCommands` | `command-store.ts`, `node.ts` pullCommands and ackCommand, the command routes of `http.ts` | DurableLead composed with the owner's queue |
| `LeadTakeover` | `lead/takeover.ts`, `checkpoint.ts`, `supervisor.ts`, `lead/store.ts`; exportTasks and importTasks of `runtime/lead.ts` | LeadMachine on any number of machines, with an operator |
| `DurableExecutor` | `runtime/executor.ts`, `fenced-driver.ts`, `run-handles.ts`, `core/lease.ts`, the pump and latches of `node.ts` | state machine |
| `NodePump` | start, drain, retry timer, fault latch and stop of `runtime/node.ts`, `registry-verifier.ts` | state machine |
| `Mailbox` | what the durable transport promises | abstract specification |
| `Custody` | `runtime/store.ts` (outbox, inbox), `gateway-client.ts`, `custody-store.ts`, the custody frames of `ws.ts` | state machine; implements `Mailbox` |
| `Claims` | `claim.ts`, `claim-store.ts`, the connections of `ws.ts`, the reconnects of `gateway-client.ts` | state machine |
| `LegacyRelay` | `mailbox.ts`, `cluster.ts`, `bus.ts`, uplink of `core.ts`, `file-outbox.ts` | state machine |
| `Registry` | `directory.ts`, `state-store.ts`, `auth.ts`, the routes of `http.ts`, `acl.ts` | state machine |
| `RemoteSession` | `executor/machine.ts`, the executing half of `remote/session.ts`, `harness-driver.ts`, `core/dedup.ts` | state machine |
| `DurableLeadProofs` | about `DurableLead` and `LeadMachine` | theorems |
| `LeadCenterProofs` | about `LeadReports` and `LeadCommands`, from `DurableLeadProofs` | theorems |
| `LeadTakeoverProofs` | about `LeadTakeover` | theorems |
| `DurableExecutorProofs` | about `DurableExecutor` | theorems |
| `NodeProofs` | about `NodePump` and `RemoteSession` | theorems |
| `CustodyProofs` | about `Custody` and its refinement of `Mailbox` | theorems |
| `GatewayProofs` | about `Claims` and `LegacyRelay` | theorems |
| `RegistryProofs` | about `Registry` | theorems |
| `MC...` with their cfg files | | instances |

Definitions keep the source's names.  A definition whose comment begins with
"Fault:" is a changed form of the definition after it, the kind of slip that
the properties are meant to catch; no specification uses it.

### LeadMachine and DurableLead

`LeadMachine` gives each method of the class as an operator from a record to
`[rec, sent, request]`: the new record, the envelopes it sends, and whether it
asks for a dispatch (`requestDispatch`).  `DurableLead` wraps them the way
`runEvent` does: decode (`Decodes`, `ValidTask`), run the method, answer a
dispatch request through the selector (`DriveRedispatch`), append a report
intent when the state's name changed (`RunEvent`), all in one step.

| Code | Model |
|---|---|
| row `lead:v2:<task>` | `originated`, `rec`, `task_seq` |
| `node_dedup` rows of the lead | `seen` (rows of the current attempt; others can only suppress what R0 ignores anyway) |
| outbox rows | `outbox`, a growing set: delivery may duplicate and reorder |
| newest `task.report` effect | `lastReport` |
| fail-closed latch | `faulted` |
| originate, dispatch, cancel, redispatch | `Originate`, `Dispatch`, `Cancel`, `Redispatch` |
| consume | `Consume(m, applies)`; `applies = FALSE` is an envelope that is recorded but refused (authorisation, freshness) |
| tick | `TickTimer`, `TickRedispatch`, `TickFault` |
| process restart | `Restart` |

Abstractions: deadlines are one countdown (only the deadline of the current
state is read), `Advance` is time; reject codes are the three classes that
applyExclusion tells apart; validateAcceptance and the directory snapshot are
nondeterministic; the revision compare-and-set is left out because reading and
committing are one synchronous step.  `Dispatch` is restricted to attempt 0:
the only host calls it once, right after `originate`.  (Called on a waiting
draft it would set the attempt back to 1, `machine.ts:138`.)

### LeadReports and LeadCommands

Both extend `DurableLead` and add what lies between it and the center.

| Code | Model |
|---|---|
| pending `task.report` effects of the node, in insertion order | `intents`, appended in the same step as the lead's event (`AppendIntent`) |
| POST requests that were sent | `posts`, a growing set: a request that timed out may still arrive, also after newer ones |
| `flush` | `Post` for the oldest intent; a later one is only posted after its answer |
| `reportTask` and its answer | `ReportTask(r, answered)`: newer revision recorded, same revision 200, older 409; 200 and 409 complete the intent, a lost answer does not |
| the center's record | `projection` |
| queue of `command-store.ts` | `commands` with a status each; `Enqueue`, `PendingFor`, `Ack` |
| POST cancel or redispatch: 404 without a projection | the guard `projected` of `Enqueue` |
| `pullCommands` | `Pull` (the answer of the GET), then `Apply(i, sent)` for each command: one transaction, then the best-effort acknowledgement |
| a crash during a batch | `CrashRestart`: the batch is forgotten, the queue is not |
| acknowledgements on their way | `acks`, a growing set |

`LeadCommands` does not use the guard `CenterGated` of DurableLead; that the
queue establishes it is what `Implements` says.  `TickFault` and `Restart` are
left out of its `LeadStep`: they need a record that does not decode, and
`CommandedRecordsDecode` proves that there is none.  `prune` of the command
store has no caller.  The lead's clock, selector and answers are DurableLead's.

### DurableExecutor

Every action is one synchronous segment of the event loop.  `job` is the
settle or recover in progress and the await it stands at; `late` is the
continuation of a `driver.start` that timed out; `proc`, `outcome` and
`handle` are the child process, what its `closed` promise delivered and its
persisted pid.  `Crash` may happen anywhere: it loses memory, turns a running
child into an orphan and leaves a spawn in flight undecided.  `Fault` is a
storage failure inside the executor, `Halt` a fail-closed anywhere else in the
node, which stops timers and intake without telling the executor.  What is
under way goes on all the same: the drain looks at the latches before it awaits
a verification and consumes after it, so `Consuming` does not ask for them, and
a settle makes its further passes on a halted node.  `TaskTimeout` is the kill
timer of the driver (`taskTimeoutMs`): whatever the lease and the latches, the
child is sent SIGTERM and then SIGKILL.  `signalled` holds the children that
were told to end, by the timer or by `handle.stop()`.

Abstractions: a fence is its generation; the gates on an offer are one Boolean;
workspace release has no state; a further pass of `settle` is one more call.
The counters of heartbeats and renewals saturate (`MaxSeq`), because only zero
and non-zero are told apart; heartbeats and renewals themselves go on for ever.
`closed` of the driver never rejects, so the branch for a `closedFault`
(`executor.ts:593`) cannot be taken and is left out.

### LeadTakeover

A led task, any number of machines that may lead it, and an operator with the
bundles.  `durable` chooses between the two generations of the code:
checkpoints written by the supervisor (v1) and the rows of the durable lead
(v2).

| Code | Model |
|---|---|
| checkpoint file or row `lead:v2:<task>` of a machine, its process | `row[machine]`, `up[machine]` |
| dispatch, redispatch, deliver, tick, cancel of the supervisor and of the lead | `Dispatch`, `Redispatch`, `Consume`, `TimerFires`, `Cancel` of every machine that runs and has the task, each with its `Persist` |
| `exportCheckpoints`, `exportTasks`, `qlong lead export` | `ExportCheckpoints`, `ExportTasks` |
| `importCheckpoints`, `importTasks` | `ImportCheckpoints`, `ImportTasks` through `Fences` (the local high water) and `Fenced` (attempt and revision of the record that is taken over) |
| `takeover` of a node that runs | `Takeover`: the importer goes on leading |
| start and stop of a machine | `Start`, `Stop` |

The code asks the operator to keep to a procedure (`takeover.ts:7`: the origin
is stopped first and yields) and checks none of it, so no action is guarded by
it: every machine may be started, export and import at any time, and several
may lead side by side.  Three variables are history.  `leader` is the machine
that imported the task last, and `breaches` counts the steps outside the
procedure: an old machine is started again, or an import (`Orderly`) is neither
the first one, of what the stopped leader has, nor a repetition on a machine of
that bundle's transfer.  `reported` follows the revisions until the first
breach.

What the code does on its own is `LocalHighWater`: a machine never goes back.
That attempts and revisions of different machines do not meet is the
procedure's doing (`kept`), and `takeover.ts:18`, which calls the high water a
backstop for the case that it is broken, is refuted (`MCLeadTakeoverDual.cfg`).

### NodePump

`step` is the await or the loop position of `drain()`, `batch` the envelopes
it still has to look at, `phase` where `start()` or `stop()` is.  `Trigger` is
a stored envelope (`onInboxReady`), `RetryTick` the pump timer when a retry is
due.  The registry answers or not (`registryUp`), and may withdraw a sender's
authority (`revoked`); such an envelope is never authorised and stays pending.
An envelope whose verification was awaited is consumed although the node has
faulted meanwhile, as the drain does not look again.  Who consumes an envelope, and how, is the business of DurableLead
and DurableExecutor.

### Mailbox, Custody

`Mailbox` is the promise: an envelope accepted for sending is held until it is
delivered, given up only after its `exp`, and decided at most once.

| Code | Model |
|---|---|
| `node_delivery` and outbox of the sender | `delivery[m]`: none, pending, stored, pruned |
| `gateway_custody` | `row[m]`, and `older` for the order of rowids |
| `node_inbox` of the receiver | `inbox[m]`: none, pending, decided |
| frames in flight | `uplink`, `acks`, `downlink`, `receipts` |
| `ConnState.inflight`, the client's queue and the verification under way | `inflight`, `inbound`, `verifying`, `stale` |
| `flush`, `admitCustody`, `pumpCustody`, the sweep timer, `receiveReceipt` | `Flush`, `Admit`, `Pump`, `Sweep`, `Acknowledge` |
| `admitInbound`, `drainInbound`, `receive`, `consume` | `Arrive`, `NextInbound`, `Receive`, `Discard`, `VerifyTimeout`, `Consume` |
| crashes, reconnections, fail-closed, retention | `DropSender`, `DropReceiver`, `RestartReceiver`, `GatewayFails`, `RestartGateway`, `NodePrune`, `CustodyPrune` |

The refinement maps an envelope to the furthest place it has reached (`Box`).
Byte budgets are abstracted to stores that may answer "full" at any time.

### Claims

One node, several gateway processes with a shared claim table.  A generation
names a connection.  `current`, `routed` and `online` are the three tables each
process keeps of the node, `open` its sockets and `closing` those it has closed
whose close event is still to come.  `SocketCloses` and `SocketErrors` are the
events of any such socket, also of one that was replaced long ago; both go
through `Disconnect`, whose guard (`ws.ts:540`) ignores all but the current
one.  `closes` and `notices` are frames and notices under way, which may be
late or lost; of the close frames only those that stop the client are kept
(any other is to the client the loss of its connection), and of the notices
one.  `FailClosed`, `Shutdown` and `Crash` are the three ways a process ends:
the first may fail to release its claim, the second releases it, the third
leaves it to the reaper.

### LegacyRelay

The transport without custody, in one process or in a cluster.  A route that
awaits a peer is a record in `routes`; connections, other routes and restarts
interleave with it.  `ended` collects what the code deliberately gives up:
refused, evicted at capacity, expired in a mailbox, lost with a mailbox file
that could not be written.  `NothingVanishes` says that there is nothing else.

### Registry

Every mutation is one step: draft, validation, commit, publication, and the
gateway's synchronisation (`Publish`).  Owner requests are two steps, because
the code awaits between the check and the act.  The model commits without the
validation that `commitRegistryState` makes first; `StateIsValid` says that
this validation never has a reason to refuse.  `Routes` is the verdict of the
ACL on the gateway's snapshot and on the registry's grants.

### RemoteSession

One executing node and a lead whose offers and cancels arrive any number of
times in any order.  Timers are sets of armed keys; `driver.runs` are the
children, each alive, held by SIGSTOP, killed or gone.  `First` and `Evict`
are the dedup store with its retention.

## 3. Runs

| Run | Question | Result |
|---|---|---|
| `lead` | Do the revocation, budget, exclusion, finality and report rules survive every order of answers, duplicates, expiries, drains, owner commands, faults and restarts? | holds |
| `lead_host_cancel` | Does every persisted record decode when a host calls `lead.cancel` itself? | violated |
| `executor` | Fence, start-once, quiescence, one verdict and a decodable slot for two attempts with crashes at every step; is the slot released although the child never exits by itself and the lead renews for ever? | holds |
| `reports` | With posts and answers lost, late and repeated, does the center see every revision in order, does its projection never go back, does a task settle when no executor answers, and does the center learn of it? | holds |
| `commands` | With commands pulled, applied, acknowledged, repeated and interrupted at every point, is an acknowledged cancel in force, does an accepted one end the task, and is the whole an implementation of the gated lead? | holds |
| `custody` | Do the three stores implement the mailbox, and does what was sent arrive or expire? | holds |
| `claims` | Are generations unique and claims kept, does a late event of a replaced socket leave the newer connection in the tables, do late notices serve nobody else, does a split brain end, does a suspended node leave? | holds |
| `pump` | Does an envelope ever wait with nobody to look at it again, and is it consumed when the registry answers and a batch has room for it? | holds |
| `registry` | Is every committed state one the center can load, does the gateway route by the current directory, does an owner act on own nodes only? | holds |
| `session` | Is every accepted attempt answered exactly once, run again only when both guards have forgotten it, and is the slot always freed? | holds |
| `takeover` | Does a machine ever repeat an attempt, whatever the operator does; and if the operator keeps to the procedure, do machines, and do revisions continue? | holds |
| `relay` | Is there ever mail in a mailbox beside a connection, and does anything vanish? | holds |

Bounds.  Two candidate nodes are enough for a redispatch to another node and
for running out of candidates; they are interchangeable, so symmetry is used
(in safety runs only).  Budgets of two reach both the "one more attempt" and
the "escalate" branch of each budget, and their mixture; three attempts follow.
Lengths of time are 1 or 2 units: a deadline is either in the future or due,
and the order of two deadlines is free because nothing bounds how late a tick
runs.  One heartbeat (`MaxRenewals`) is enough to re-arm a deadline and to be
late.  Two attempts of one task on an executor give a run that follows an
ended or an unfinished one, a stale offer and a cancel of an earlier attempt;
`LeaseMs = 2` lets a heartbeat come before the end of the lease.  `MaxSeq = 1`
is not a bound on what happens: the counters stay there while heartbeats and
renewals go on.

In `reports` and `commands` the accepted-failure budget is one and the dispatch
budget two, which leaves one redispatch: the case in which an old report or an
old command meets a newer attempt.  `commands` has two commands, pulled one at
a time (`PullLimit = 1`), so that the second waits for the acknowledgement of
the first.  Posts and acknowledgements are sets that never shrink, so delay,
loss, repetition and reordering are unbounded.

`custody` follows one envelope with liveness; envelopes interfere only through
the window and the queue, and NoLoss and the refinement are proved for any
number of them.  `MCCustody.cfg` checks both for two envelopes and a window of
one, where one has to wait for the other.  `claims` has two processes, three
connections and one tick of a lease of one: a claim that is replaced, one that
runs out and one that comes after.  `pump` has three envelopes and batches of
two, and two of the three may lose their authority (`MaxRevoked`): a full batch
of envelopes that are never authorised hides the third.  `registry` has a team with and one
without an owner, and every lifetime one tick.  `session` has two tasks, one
of them with a second attempt, and three children, the fewest for a child of an
older attempt that outlives a newer one.  `takeover` has three machines and two
exports or breaches (`MaxHandovers`): there and back, on to a third machine, or
one bundle that is imported after its origin was started again; and four offers
in all (`MaxOffers`).  `relay` has an aid and a project message, mailboxes
of one, so that the second overflows, and two routes at a time.

Deadlock checking is off where the system may stop: a task that is over, a node
that is down for recovery, a session with nothing more to do, a directory at
its last tick.

Fairness.  `Fairness` of DurableLead assumes that the pump keeps ticking (the
interval timer of `node.ts` start), that time passes, and that a candidate
which is not excluded is eventually in the directory snapshot.  It assumes no
answer, no command and no restart.  `FairSpec` of DurableExecutor assumes the
pump on a node that has not halted and the settle of a closing one, that a
bounded wait ends (every driver call is raced with a timer), that time passes,
that a starting node recovers, and that the kill timer of a child fires in the
end (half an hour unless configured; a host that sets `taskTimeoutMs` to 0 has
none) and SIGKILL ends it.  `workspace.prepare` and `publisher.publish` are
assumed to end: the code does not bound them.  No child is assumed to exit by
itself, and the lead may renew for ever.
`ReportsFairSpec` assumes that the pump posts in every round and that a request
repeated for ever is answered in the end.  `CommandsFairSpec` assumes the pump
(tick, time, pull, the arrival of an acknowledgement) and that a command which
is applied again and again gets its acknowledgement out in the end (strong
fairness: a crash may interrupt any single application).
`CustodyFairness` assumes that clients reconnect, a failed gateway and a
stopped receiver are restarted, and that what is tried again and again (a
flush, an admission, a sweep, a verification, an acknowledgement) succeeds in
the end although connections may break at any time: strong fairness, because
each retry may be cut off.  `ClaimsFairSpec` assumes the renew and the
synchronisation timer of a running gateway, no client and no restart.
`PumpFairSpec` assumes that the event loop goes on, that the pump timer fires
and that start() continues; the registry may be away for ever, and the property
is about the case that it is not and that a batch has room (`BatchHasRoom`).
`SessionFairness` assumes the hard limit and the reaper timers and that SIGKILL
ends a child, nothing about messages or well-behaved children.

## 4. Proofs

Every invariant and every action property that a passing run checks is also a
theorem, for every value of the constants that satisfies the assumptions named
in the modules.  The assumptions say that counts and durations are natural
numbers (positive where a zero makes no sense), that sets which are counted are
finite, and that a marker for "absent" (`NoNode`, `NoClaim`, `None`, `NoRow`)
is none of the values it stands in for.  Bounds such as `MaxGeneration`, `MaxClock` or
`MaxRuns` may be any natural number.

### The lead and the center

`DurableLeadProofs` proves, for all sets of nodes, all leases, all durations
and all budgets that satisfy `LeadConstants` and `DurableLeadConstants`:

| Theorem | Statement |
|---|---|
| `Invariance` | `Spec => []Inv` |
| `TypeCorrect` | `Spec => []TypeOK` |
| `RevokedBeforeRedispatch` | `Spec => []RevokeBeforeRedispatch` |
| `BudgetsAccounted` | `Spec => []BudgetAccounting` |
| `ReportsCurrent` | `Spec => []ReportIsCurrent` |
| `ExclusionsAreRespected` | `Spec => ExclusionsRespected` |
| `CancelsFinal` | `Spec => CancelIsFinal` |
| `GatedRecordsDecode` | `CenterGated => (Spec => []PersistedDecodes)` |

`LeadCenterProofs` adds, from the same assumptions and `LeadCommandsConstants`
(any number of commands, any pull limit):

| Theorem | Statement |
|---|---|
| `NoRevisionSkipped` | `ReportsSpec => []NothingSkipped` |
| `ProjectionMonotonic` | `ReportsSpec => ProjectionNeverGoesBack` |
| `GatedReportsParse` | `CenterGated => (ReportsSpec => []ReportsParse)` |
| `CommandsImplementLead` | `CommandsSpec => Implements`: every behaviour with the queue is one of DurableLead |
| `CommandedRecordsDecode` | `CenterGated => (CommandsSpec => []PersistedDecodes)` |
| `AckedCancelsHold` | `CommandsSpec => []AckedCancelHolds` |

The argument for the lead.  `Keeps(r, e)` says what one method may do to a record: the
result is well typed, keeps the attempt and the budget equation, revokes or
was refused when it leaves the attempt, and so on.  One lemma per method shows
it (`FinishKeeps`, `ReclaimKeeps`, `BudgetKeeps`, `OnOfferedKeeps`, ...,
`OnMessageKeeps`, `OnTimerKeeps`, `CancelByUserKeeps`).  `KeptEvent` and
`DispatchedEvent` lift it to a committed event without and with an inline
re-offer, `CommittedEvent` joins them, `NextEffect` goes through the actions,
`StepInv` concludes.

`Inv` is stronger than the properties.  Revocation is not inductive as it is
stated, because it speaks of superseded attempts only: when the next offer is
made the old attempt must already be revoked, so `RevokeInv` also covers the
current attempt while it is reclaimed or the task is back in drafting.  An
exclusion can only be checked against a fresh draft if that draft excludes
nobody (`FreshInv`).  `Gate` adds, for commands through the center, that a
record at attempt 0 is untouched and unreported.

Reports.  `PipeInv` relates the three places a revision can be: the pending
intents are the last revisions of the task, in order and without gaps; the
projection is the revision before the oldest of them, or that one when only its
answer was lost; nothing beyond the oldest intent has been posted.  Attempts
along this line do not decrease and only its last element can be terminal,
which is why a late post can never win over a newer revision.

Commands.  `QueueInv` says that a command in the queue implies a projection,
which implies a dispatched task: the gate that DurableLead's `Cancel` and
`Redispatch` assume.  Every step is then a step of DurableLead or leaves its
variables alone, and the theorems about DurableLead carry over.
`AckedCancelHolds` needs that an acknowledgement is only sent after the commit
of its command, and that a cancel in force stays so (`CancelIsFinal`).

### A transfer of the lead

`LeadTakeoverProofs`, for any machines, executors, leases and budgets, any
number of exports, imports and breaches of the procedure, and both generations
of the lead:

| Theorem | Statement |
|---|---|
| `TakeoverInvariant` | `TakeoverSpec => []TInv` |
| `MachinesNeverRepeat` | `TakeoverSpec => []LocalHighWater` |
| `AttemptsAreUnique` | `TakeoverSpec => []UniqueAttempts` |
| `RevisionsGoOn` | `TakeoverSpec => []RevisionsContinue` |

`TInv` has two halves.  `LocalInv` holds whatever the operator does: no offer of
a machine is newer than its checkpoint (`MachinesGoOn`), and a bundle is fenced
where it came from and where it went (`BundlesAreFenced`), because an import
only raises its machine (`RowsGrow`).  `OrderlyInv` holds while the procedure is
kept: only the leader runs (`OneLeads`), and nothing that was offered or
reported by any machine is newer than its checkpoint (`LeaderIsNewest`).  The
first half carries the second: an orderly import on a machine of the bundle's
transfer is fenced, so one that passes the fence is the first import of what
the stopped leader has, and goes on where it stopped.  `OnMessageFollows`,
`OnTimerFollows` and `CancelFollows` say that no method of the machine lowers
or raises the attempt, `DispatchOpens` that a dispatch opens the next one;
`PersistKeeps` lifts them to a persisted event.

### The executor

`DurableExecutorProofs`, for every finite set of offers, every lease, and any
number of heartbeats, crashes and restarts:

| Theorem | Statement |
|---|---|
| `ExecutorInvariant` | `Spec => []EInv` |
| `StateDecodes` | `Spec => []PersistedRunDecodes` |
| `FenceHolds` | `Spec => []OneProcess` |
| `TerminalMeansQuiet` | `Spec => []QuiescedBeforeTerminal` |
| `StartsOnce` | `Spec => []StartOnce` |
| `VerdictIsOne` | `Spec => []OneVerdict` |
| `StopWinsOverResult` | `Spec => NoResultAfterStop` |

`FenceInv` is the heart: a process that is not known to be quiet belongs to the
run in the slot, and that run is marked `mayHaveStarted`.  The mark is committed
before the start, so a crash in between leaves it set, and `recover` does not
start again.  The awaits need `JobInv`: the settle or recover in progress and
the late continuation of a start may be about an older generation, but when
they are about the current one the mark agrees with where they stand.  `SentInv`
ties the sealed messages to the slot and the last run; offers are counted
against the dedup rows to show that a generation always exists
(`gen <= Cardinality(OffersConsumed)`).  The steps on the durable state fall
into a few effects (`Continues`, `Ends`, `AcceptInv`, `AnswerInv`), which the
lemmas per action reduce to.

### The node

`NodeProofs`, for any finite set of envelopes and any batch size, and for any
finite set of tasks, any attempts, cancels and number of children:

| Theorem | Statement |
|---|---|
| `PumpInvariant` | `PumpSpec => []PInv` |
| `NothingIsStranded` | `PumpSpec => []NoStranded` |
| `SessionInvariant` | `SessionSpec => []SInv` |
| `NothingIsDropped` | `SessionSpec => []NoSilentDrop` |
| `RerunsAreForgotten` | `SessionSpec => RerunOnlyWhenForgotten` |

Pump.  That a retry is planned when the drain ends is only known if the last
batch held everything: `BatchCovers` says that a batch which was not full and
in which nothing was skipped, with no trigger since, lists the whole inbox, and
`BatchIsPending` that what it lists is pending once.  `RetryPlanned` starts
before the node serves, because what is left from the last life of the node is
looked at while it opens.

Session.  `Answered` counts: the children of an attempt are as many as its
verdicts and the run under way.  It needs that a run under way is one of the
keys and has a child (`RecordInv`, `RunningHasChild`).  `ReapersBound` limits
the armed kill timers by the children, for the type invariant.
`RunsWereOffered` says that the key of every child is in the dedup store or
evicted, which with the guard of the machine gives the rerun theorem.

### Transport

`CustodyProofs` shows, for every set of envelopes and every window:

| Theorem | Statement |
|---|---|
| `CustodyInvariant` | `CustodySpec => []CInv` |
| `CustodyTypes` | `CustodySpec => []CustodyTypeOK` |
| `NothingLost` | `CustodySpec => [](NoLoss /\ ReceivedIsCommitted)` |
| `CustodyRefines` | `CustodySpec => ImplementsMailbox` |

`NoLoss` is not inductive: a stored frame that is still under way deletes the
sender's row when it arrives, so `Promises` says of every such frame that its
envelope is already safe elsewhere, of every receipt that the inbox row is
committed, and of every expired row that the time has passed.  `Sent` says that
nothing is under way that was not sent, without which a sweep could create an
envelope out of nothing in the abstract mailbox.  `StepRefines` then maps every
step to a step of `Mailbox` or a stutter; the sweeps, which may expire several
envelopes at once, are the reason why `Expire` of Mailbox takes a set.

`GatewayProofs`, for any set of gateway processes and any lease (claims), and
for any processes, peer lists, messages and mailbox capacities (relay):

| Theorem | Statement |
|---|---|
| `ClaimsInvariant` | `ClaimsSpec => []CInv` |
| `GenerationsFence` | `ClaimsSpec => []FencingTokens` |
| `OwnersKeep` | `ClaimsSpec => []OwnerKeepsClaim` |
| `TablesMatch` | `ClaimsSpec => []RoutesMatchConnections` |
| `NoticesServeOwner` | `ClaimsSpec => NoticeServesOwner` |
| `RelayInvariant` | `RelaySpec => []LInv` |
| `MailIsHandedOver` | `RelaySpec => []NoMailBesideConnection` |
| `NothingIsLost` | `RelaySpec => []NothingVanishes` |

Claims.  `TablesMatch` is about the sockets as well: the one that is open is the
current one, so a late event (`LateEvent`) is that of a socket which is closed
already and not in the tables.  The reaper goes by the lease in the row and the property by the lease
of the newest generation; `RowLease` says that they are one.  `ClientInv` ties
the client's state to the connection it is at, so that a close frame on its way
names a generation that was issued.

Relay.  The three parts of `LInv` are proved together.  The route that comes
back from its peers looks at the connection in the segment in which it queues:
either nobody is connected (`QueueRoutes`) or the mailbox is emptied at once
(`DeliverRoutes`, `TakeEmpties`).  `RelayTyped` adds to the types that a mailbox
file never holds more than a mailbox may, so that what a restart loads fits.

### The registry

`RegistryProofs`, for all sets of identifiers, finite or not, and all limits
and lifetimes:

| Theorem | Statement |
|---|---|
| `RegistryInvariant` | `RegistrySpec => []RInv` |
| `DraftsAreValid` | `RegistrySpec => []StateIsValid` |
| `RoutingIsCurrent` | `RegistrySpec => []RoutesAreCurrent` |
| `OwnersActOnOwn` | `RegistrySpec => OwnerActsOnOwnTeam` |

`RInv` has one part per table.  Most steps remove no team and no node (`Grows`),
so that every reference stays good; gc removes teams, and `GcInv` shows that
nothing which remains refers to one of them: no node, grant or task by its
guard, no token because the tokens go with the team.  The epoch must be at least
the number of nodes and grants, so their finiteness is part of the invariant.  `GatewayOK` says that the
snapshot is the directory's current view, from which routing follows.  `OwnerOK`
keeps what was checked before the await of an owner request true until it acts.

### Only model-checked

Everything about fairness: `Settles`, `SlotIsReleased`, `OutcomeReachesCenter`,
`CancelEndsTask`, `ArrivesOrExpires`, `SplitBrainEnds`, `SuspendedLeaves`,
`PendingIsConsumed` and `SlotIsFreed`.  Liveness and ENABLED are out of the
prover's reach.

## 5. Findings

`lead_host_cancel`: cancelling a task before its first dispatch persists
`{attempt 0, cancelling}`, which `validTask` rejects; the next tick fails the
node closed, again after every restart.  `PROJECT.json` quotes the lines.

### Further divergences

Each of these is a configuration that TLC refutes; they are not in the list of
runs.

| Configuration | Property | What the code does, and what the repository says |
|---|---|---|
| `MCDurableLeadFreshDraft.cfg` | `FreshDraftIsDispatched` | a task that found no candidate is never retried (`lead.ts:356`); `cli/src/main.ts:279` says that the pump will |
| `MCDurableLeadOnce.cfg` | `OnceExcludesOnce` | an exclusion labelled "once" lasts for the life of the task: the selector skips every excluded node and no entry is ever removed (`target-select.ts:59`); R8 (`docs/QLONG_DESIGN_01_MSG_PROTOCOL.md:240`) says "其余瞬时 retryable 仅排除一次", and `machine.ts:45` "once=瞬时失败排除一次" |
| `MCDurableExecutorHalt.cfg` | `LeaseEndsRun` | a fail-closed node stops the timer that ends the lease and leaves the child running until the driver's hard limit (`node.ts:258`); R3 says the executor stops by itself |
| `MCDurableExecutorHandle.cfg` | `HandleOnlyNeededBeforeExit` | the persisted handle is cleared when the child exits, before the outcome is durable (`fenced-driver.ts:87`); a crash in between needs manual recovery |
| `MCLeadCommandsRepeat.cfg` | `RepeatRevokesNothing` | a redispatch whose acknowledgement is late is applied again, and revokes the attempt it had asked for (`node.ts:443`); `node.ts:411` says that a repetition has no effect |
| `MCClaimsReap.cfg` | `DropMeansSuperseded` | the renew timer also drops a connection whose lease ran out and was reaped, with code 4000, which stops the client for good (`ws.ts:412`, `gateway-client.ts:23`); `claim.ts:41` reads a refused renewal as a newer generation |
| `MCNodePumpSpin.cfg` | `RetryIsTimed` | a full batch that cannot be verified is fetched and asked for again at once when a younger envelope triggers a drain (`node.ts:349`); `node.ts:341` says the retry is timed |
| `MCNodePumpStarve.cfg` | `OutageIsNotRefusal` | the drain takes the oldest sixteen pending envelopes; when all of them are never authorised (a sender that was revoked) every younger one stays pending for ever (`node.ts:351`); `node.ts:343` says that an outage of the registry must never become the permanent refusal of a lawful envelope |
| `MCRemoteSessionStopped.cfg` | `StoppedRunIsSilent` | `stopped` belongs to the driver and is reset by the next start (`harness-driver.ts:100`, `130`), so that the exit of a stopped child is reported for the new attempt; `harness-driver.spec.ts:40` says it reports neither success nor failure |
| `MCLeadTakeoverDual.cfg` | `HighWaterIsBackstop` | an origin that goes on leading after its export, or a third machine that imports an old bundle, offers attempt numbers which another machine offers too: the fence looks at the importer's own checkpoint only (`takeover.ts:69`, `lead.ts:411`); `takeover.ts:18` says "attempt 高水位兜底防双主" |
| `MCLeadTakeoverCancel.cfg` | `CancelSurvivesTakeover` | a task that was being cancelled is redispatched after a takeover; `docs/QLONG_STATE_MATRIX.md:21` and `:49` make a cancel final |
| `MCLegacyRelayAid.cfg` | `AidNotStored` | in a cluster an aid for an offline node is put into the home mailbox (`cluster.ts:67`); `core.ts:120` and `mailbox.ts:2` say that an aid is not stored |

### Noticed while modelling

- Takeover: the executor of the attempt before a takeover is not sent a cancel;
  the attempt number jumps by two and no budget is spent; the center answers
  403 to the reports of the new lead.  `qlong run --takeover` starts the node
  and awaits the directory before it imports (`cli/src/main.ts:239`), so a
  machine that still has an older checkpoint of the task leads it meanwhile.
- Node: `drain()` does not look at `stopped` and `faulted` again after it has
  awaited a verification.  A client gives up after twenty failed reconnects, and a node
  that is suspended when it connects stops for good (4003).
- Registry: gc counts from `last_seen`, and at a restart nobody is connected,
  so a node that was connected all the time may be revoked; `joinTeam` does not
  count against the owner's quota; grants and enrol tokens are authorised
  before the body is read.
- v1 session: a cancel is applied without comparing the task, and so are the
  messages to the lead; after a pause no heartbeat timer is armed again; a
  delayed SIGKILL hits the newer child; an acknowledgement of an old attempt's
  progress extends the lease of the new one; an offer refused by the pause
  switch or the rate limit is already in the dedup store; the dedup retention
  is shorter than the `exp` horizon; a workspace that cannot be created leaves
  the machine running without a driver.
- v1 relay: a project message for a node that is offline at the first peer is
  queued there although the node is connected at a later one; the bus's
  `timeoutMs` is not applied to the request; a lost answer leads to duplicates,
  which R1 drops.

## 6. Plan

1. `TaskProtocol`: a lead and executors over a channel that duplicates,
   reorders and delays; the lease invariant of R3; a cancel that overtakes its
   offer; an abstract task (offered, accepted, ended once) it refines.
2. The center's side of a takeover, and the reports of the new lead.
3. The cache of artifact verdicts of the lead and the staging in `drain`.
4. The leading half of the v1 session, and rpc.
5. Proofs about `TaskProtocol`, and abstract specifications (a fenced slot, a
   claim with generations) that the executor and the claims refine.

## 7. Not modelled

Canonical JSON, hashing and signatures (pure data transformations; the model
starts after verification and has a Boolean for its outcome), git and file
artifacts, the command line and process set-up, the console, SQLite itself (a
transaction is an atomic step), the owner lock and the schema migrations, the
ledger of imported data, registration of users, and the HTTP and TLS plumbing
of the servers.

-------------------------- MODULE DurableExecutor --------------------------
(***************************************************************************)
(* DurableExecutor (packages/node/src/runtime/executor.ts) with the driver *)
(* it fences (driver/fenced-driver.ts), the persisted run handle           *)
(* (runtime/run-handles.ts) and the pump that drives it (runtime/node.ts). *)
(* One slot: an accepted offer is prepared, started, heartbeats, stopped   *)
(* and ended by exactly one terminal message, across crashes.              *)
(*                                                                         *)
(* Each action is one synchronous segment of the event loop: a transaction *)
(* and the code up to the next await.  job is the settle() in progress     *)
(* (or the recover() of a starting node), late the continuation a timed-   *)
(* out start leaves behind.  A pass of settle that continues is one more   *)
(* call of the pump, so the bound of four passes is left out.              *)
(*                                                                         *)
(* Abstractions.                                                           *)
(*  - A fence is its generation: the slot's fence is always <<its task,    *)
(*    its attempt, gen>>.  leaseDeadline and heartbeatAt are countdowns.   *)
(*  - The gates on an offer (policy, capabilities, expiry, shape) are one  *)
(*    Boolean.  Workspace and publisher are present; releasing a workspace *)
(*    has no state.  The executor.run effect rows are never read back.     *)
(*  - closed of FencedProcessDriver never rejects and delivers a valid     *)
(*    outcome, so closedFault, which settle treats as unknown, stays FALSE.*)
(*  - Of seq and lastRenewalSeq only zero and non-zero are told apart: they*)
(*    stay at MaxSeq, while heartbeats and renewals go on for ever.        *)
(*  - A storage failure is the action Fault: it may happen at any step.    *)
(***************************************************************************)
EXTENDS Integers, FiniteSets

CONSTANTS
  Offers,    \* the <<task, attempt>> pairs this node may be offered
  LeaseMs,   \* the confirmed lease
  MaxSeq     \* where the counters of heartbeats and renewals saturate

ASSUME ExecutorConstants ==
  /\ IsFiniteSet(Offers)
  /\ \A o \in Offers : o = <<o[1], o[2]>> /\ o[2] \in Nat \ {0}
  /\ LeaseMs \in Nat \ {0}
  /\ MaxSeq \in Nat \ {0}

VARIABLES
  gen,        \* state.generation: the fence of the newest accepted run
  slot,       \* state.slot
  last,       \* state.last: the newest ended run
  handle,     \* runhandle:v2: generation whose pid is persisted, 0 = tombstone
  consumed,   \* node_dedup rows of the executor: [type, offer]
  sent,       \* envelopes sealed (accept, reject and terminal messages)
  up,         \* the process runs
  ready,      \* recover() has ended
  closing,    \* node.stop() was called
  faulted,    \* executor's fail-closed latch
  halted,     \* node's fail-closed latch: timers and intake stopped
  starting,   \* a driver.start is outstanding
  live,       \* generation of the attached RunHandle, 0 = none
  job,        \* settle() in progress: [pc, gen]
  late,       \* late-start continuation: [pc, gen]
  proc,       \* the driver's process of each generation
  outcome,    \* what its closed promise delivered
  signalled,  \* generations told to end: handle.stop() or the hard limit
  starts      \* driver.start invocations of each generation

durable == <<gen, slot, last, consumed, sent>>
memory == <<up, ready, closing, faulted, halted>>
flow == <<starting, live, job, late>>
driver == <<handle, proc, outcome, signalled, starts>>
vars == <<durable, memory, flow, driver>>

Gens == 1..Cardinality(Offers)

Phases == {"prepared", "starting", "running", "stopping", "recovery_required"}
StopReasons == {"cancel", "lease_expired", "shutdown", "execution_interrupted",
                "driver_start_timeout"}

NoOffer == <<>>

Run ==
  [phase : Phases \cup {"empty"}, offer : Offers \cup {NoOffer}, mayHaveStarted : BOOLEAN,
   lease : Nat, heartbeat : Nat, seq : Nat, lastRenewalSeq : Nat, progress : BOOLEAN,
   cancelled : BOOLEAN, stopReason : StopReasons \cup {"none"}]

NoRun ==
  [phase |-> "empty", offer |-> NoOffer, mayHaveStarted |-> FALSE, lease |-> 0,
   heartbeat |-> 0, seq |-> 0, lastRenewalSeq |-> 0, progress |-> FALSE,
   cancelled |-> FALSE, stopReason |-> "none"]

Ended == [gen : Nat, offer : Offers \cup {NoOffer}, result : BOOLEAN]

NoLast == [gen |-> 0, offer |-> NoOffer, result |-> FALSE]

Terminals == {"result", "fail", "cancel.ack"}
Messages == [type : Terminals \cup {"accept", "reject"}, offer : Offers, gen : Nat]

Occupied == slot.phase # "empty"

(* The process of a run: not started, start invoked, running, SIGKILLed    *)
(* because its handle could not be persisted, spawn error, running without *)
(* its node, exited.                                                       *)
ProcStates == {"none", "invoked", "alive", "killed", "failed", "orphan", "dead"}
Quiet == {"none", "failed", "dead"}

TypeOK ==
  /\ gen \in Nat /\ slot \in Run /\ last \in Ended
  /\ handle \in Nat
  /\ consumed \subseteq [type : {"offer", "cancel"}, offer : Offers]
  /\ sent \subseteq Messages
  /\ up \in BOOLEAN /\ ready \in BOOLEAN /\ closing \in BOOLEAN
  /\ faulted \in BOOLEAN /\ halted \in BOOLEAN /\ starting \in BOOLEAN
  /\ live \in Nat
  /\ job \in [pc : {"idle", "recover", "prepare", "start", "quiesce", "publish"}, gen : Nat]
  /\ late \in [pc : {"none", "handle", "quiesce"}, gen : Nat]
  /\ proc \in [Gens -> ProcStates]
  /\ outcome \in [Gens -> {"none", "result", "failed"}]
  /\ signalled \subseteq Gens
  /\ starts \in [Gens -> Nat]

(* What a persisted run must satisfy to be read back.                      *)
ValidRun(r) ==
  /\ r.phase = "prepared" => ~r.mayHaveStarted
  /\ r.phase \notin {"prepared", "stopping"} => r.mayHaveStarted
  /\ ~r.mayHaveStarted => r.seq = 0 /\ r.lastRenewalSeq = 0
  /\ r.seq = 0 => r.lastRenewalSeq = 0
  /\ r.seq > 0 /\ ~r.progress => r.lastRenewalSeq > 0
  /\ r.progress => r.seq > 0
  /\ r.cancelled <=> r.stopReason = "cancel"
  /\ r.phase \in {"stopping", "recovery_required"} <=> r.stopReason # "none"

(* decode(): the slot is of the newest generation, the last run of the one *)
(* before it.                                                              *)
Decodes ==
  /\ Occupied => ValidRun(slot)
  /\ last.gen = gen - (IF Occupied THEN 1 ELSE 0)

-----------------------------------------------------------------------------
(* Transactions of the slot.                                               *)

Idle == [pc |-> "idle", gen |-> 0]
NoLate == [pc |-> "none", gen |-> 0]
Awaits(pc) == job' = [pc |-> pc, gen |-> gen]
JobDone == job' = Idle

HeartbeatMs == IF LeaseMs \div 3 > 1 THEN LeaseMs \div 3 ELSE 1

Accepted(o) ==
  [NoRun EXCEPT !.phase = "prepared", !.offer = o, !.lease = LeaseMs,
                !.heartbeat = HeartbeatMs]

Counted(n) == IF n < MaxSeq THEN n + 1 ELSE n

(* tick: an expired lease stops the run, a due heartbeat sends progress.   *)
Ticked(s) ==
  CASE s.phase \notin {"prepared", "starting", "running"} -> s
    [] s.phase \in {"prepared", "starting", "running"} /\ s.lease = 0 ->
         [s EXCEPT !.phase = "stopping", !.stopReason = "lease_expired"]
    [] s.phase \in {"starting", "running"} /\ s.lease > 0 /\ s.heartbeat = 0 ->
         [s EXCEPT !.seq = Counted(@), !.progress = TRUE, !.heartbeat = HeartbeatMs]
    [] OTHER -> s

(* unknown: the run's external work cannot be proved quiet; onFault halts  *)
(* the node.                                                               *)
Unknown(s, g, reason) ==
  /\ slot' = IF Occupied /\ gen = g
             THEN [s EXCEPT !.phase = "recovery_required",
                            !.stopReason = IF @ = "none" THEN reason ELSE @]
             ELSE s
  /\ halted' = TRUE

(* Fault: the driver's outcome is delivered although the run was stopped.  *)
FinishIgnoresStop(s, g, kind) ==
  /\ IF Occupied /\ gen = g
     THEN LET type == IF kind = "result" THEN "result" ELSE "fail"
          IN  /\ sent' = sent \cup {[type |-> type, offer |-> s.offer, gen |-> g]}
              /\ last' = [gen |-> g, offer |-> s.offer, result |-> kind = "result"]
              /\ slot' = NoRun
     ELSE slot' = s /\ UNCHANGED <<sent, last>>
  /\ live' = IF live = g THEN 0 ELSE live

(* finish: the terminal message and the release of the slot commit         *)
(* together, if the slot still holds that fence; a stop reason overrides   *)
(* the outcome of the driver, a cancel is acknowledged.                    *)
Finish(s, g, kind) ==
  /\ IF Occupied /\ gen = g
     THEN LET ok == kind = "result" /\ s.stopReason = "none"
              type == IF s.cancelled THEN "cancel.ack" ELSE IF ok THEN "result" ELSE "fail"
          IN  /\ sent' = sent \cup {[type |-> type, offer |-> s.offer, gen |-> g]}
              /\ last' = [gen |-> g, offer |-> s.offer, result |-> ok]
              /\ slot' = NoRun
     ELSE slot' = s /\ UNCHANGED <<sent, last>>
  /\ live' = IF live = g THEN 0 ELSE live

(* handle.stop(): a child that has exited is left alone.                   *)
Stop(g) ==
  signalled' = IF g \in Gens /\ proc[g] = "alive" THEN signalled \cup {g} ELSE signalled

-----------------------------------------------------------------------------
Init ==
  /\ gen = 0 /\ slot = NoRun /\ last = NoLast /\ handle = 0
  /\ consumed = {} /\ sent = {}
  /\ up = TRUE /\ ready = FALSE /\ closing = FALSE /\ faulted = FALSE /\ halted = FALSE
  /\ starting = FALSE /\ live = 0 /\ job = Idle /\ late = NoLate
  /\ proc = [g \in Gens |-> "none"]
  /\ outcome = [g \in Gens |-> "none"]
  /\ signalled = {}
  /\ starts = [g \in Gens |-> 0]

(* The timers of the pump run between start() and stop(), until a fault    *)
(* halts the node.                                                         *)
Serving == up /\ ready /\ ~closing /\ ~halted /\ ~faulted

(* executor.consume only asserts its own health.  The drain looks at the   *)
(* node's latches before it awaits a verification and not after it, so an  *)
(* envelope may be consumed on a node that has halted or is stopping.      *)
Consuming == up /\ ready /\ ~faulted

-----------------------------------------------------------------------------
(* consume.  R1: an offer and a cancel of an attempt are applied once.     *)

(* Fault: no R1 dedup.                                                     *)
FreshAlways(type, o) == consumed' = consumed \cup {[type |-> type, offer |-> o]}

Fresh(type, o) ==
  /\ [type |-> type, offer |-> o] \notin consumed
  /\ consumed' = consumed \cup {[type |-> type, offer |-> o]}

Stale(o) == last.offer # NoOffer /\ last.offer[1] = o[1] /\ o[2] <= last.offer[2]

Offer(o, gatesPass) ==
  /\ Consuming /\ Fresh("offer", o)
  /\ IF gatesPass /\ ~Occupied /\ ~closing /\ ~Stale(o)
     THEN /\ gen' = gen + 1
          /\ slot' = Accepted(o)
          /\ sent' = sent \cup {[type |-> "accept", offer |-> o, gen |-> gen + 1]}
     ELSE /\ sent' = sent \cup {[type |-> "reject", offer |-> o, gen |-> 0]}
          /\ UNCHANGED <<gen, slot>>
  /\ UNCHANGED <<last, memory, flow, driver>>

(* A cancel of the ended run is acknowledged at once, one of the current   *)
(* run marks it; any other is consumed without effect.                     *)
Cancel(o) ==
  /\ Consuming /\ Fresh("cancel", o)
  /\ slot' = IF slot.offer = o
             THEN [slot EXCEPT !.cancelled = TRUE, !.stopReason = "cancel",
                     !.phase = IF @ = "recovery_required" THEN @ ELSE "stopping"]
             ELSE slot
  /\ sent' = IF ~Occupied /\ last.offer = o
             THEN sent \cup {[type |-> "cancel.ack", offer |-> o, gen |-> last.gen]}
             ELSE sent
  /\ UNCHANGED <<gen, last, memory, flow, driver>>

(* A task.lease.renew answers the outstanding progress of this run, with a *)
(* newer renewal_seq; an expired lease is not revived, and a renewal runs  *)
(* for at most leaseMs.                                                    *)
CanApplyLeaseRenewal(left) == slot.progress /\ slot.lease > 0 /\ left <= LeaseMs

(* With a later deadline; any other renewal is ignored.                    *)
Renew(left) ==
  /\ Consuming
  /\ slot.phase \in {"starting", "running"}
  /\ CanApplyLeaseRenewal(left) /\ left > slot.lease
  /\ slot' = [slot EXCEPT !.lease = left, !.lastRenewalSeq = Counted(@), !.progress = FALSE]
  /\ UNCHANGED <<gen, last, consumed, sent, memory, flow, driver>>

Tick ==
  /\ Serving
  /\ slot' = Ticked(slot)
  /\ UNCHANGED <<gen, last, consumed, sent, memory, flow, driver>>

-----------------------------------------------------------------------------
(* settle: a tick, then the next step of the slot.  Its awaits are the job *)
(* states.  The pump starts it, the drain after an envelope, and close();  *)
(* a loop under way makes its next pass whether or not the node has halted.*)

CanSettle == up /\ ready /\ ~faulted /\ job = Idle /\ Occupied

SettleOutcome ==
  /\ CanSettle
  /\ live \in Gens /\ live = gen /\ outcome[live] # "none"
  /\ LET s == Ticked(slot)
     IN  IF outcome[live] = "result" /\ s.stopReason = "none"
         THEN slot' = s /\ Awaits("publish") /\ UNCHANGED <<sent, last, live>>
         ELSE Finish(s, gen, outcome[live]) /\ UNCHANGED job
  /\ UNCHANGED <<gen, consumed, memory, starting, late, driver>>

SettlePrepare ==
  /\ CanSettle /\ Ticked(slot).phase = "prepared"
  /\ Awaits("prepare")
  /\ UNCHANGED <<durable, memory, starting, live, late, driver>>

SettleStop ==
  /\ CanSettle
  /\ live # 0 => outcome[live] = "none"
  /\ LET s == Ticked(slot)
     IN  /\ s.phase = "stopping"
         /\ \/ /\ ~s.mayHaveStarted
               /\ Finish(s, gen, "failed")
               /\ UNCHANGED <<halted, job, signalled>>
            \/ /\ s.mayHaveStarted /\ live # 0
               /\ slot' = s /\ Awaits("quiesce") /\ Stop(live)
               /\ UNCHANGED <<sent, last, live, halted>>
            \/ /\ s.mayHaveStarted /\ live = 0
               /\ Unknown(s, gen, "execution_interrupted")
               /\ UNCHANGED <<sent, last, live, job, signalled>>
  /\ UNCHANGED <<gen, consumed, up, ready, closing, faulted, starting, late,
                 handle, proc, outcome, starts>>

(* workspace.prepare resolves: commit 'starting' before the driver is      *)
(* invoked.  It fails: the run ends in task.fail without having started.   *)
PrepareOk ==
  /\ up /\ job.pc = "prepare"
  /\ LET g == job.gen
         current == gen = g /\ slot.phase = "prepared"
         begun == [slot EXCEPT !.phase = "starting", !.mayHaveStarted = TRUE]
     IN  \/ /\ ~current /\ JobDone
            /\ UNCHANGED <<slot, halted, starting, proc, starts>>
         \/ /\ current /\ faulted /\ JobDone
            /\ Unknown(begun, g, "execution_interrupted")
            /\ UNCHANGED <<starting, proc, starts>>
         \/ /\ current /\ ~faulted /\ Awaits("start")
            /\ slot' = begun /\ starting' = TRUE
            /\ proc' = [proc EXCEPT ![g] = "invoked"]
            /\ starts' = [starts EXCEPT ![g] = @ + 1]
            /\ UNCHANGED halted
  /\ UNCHANGED <<gen, last, consumed, sent, up, ready, closing, faulted, live, late,
                 handle, outcome, signalled>>

PrepareFails ==
  /\ up /\ job.pc = "prepare"
  /\ Finish(slot, job.gen, "failed") /\ JobDone
  /\ UNCHANGED <<gen, consumed, memory, starting, late, driver>>

(* driver.start resolves within driverTimeoutMs: the handle is attached.   *)
StartReturns ==
  /\ up /\ job.pc = "start" /\ proc[job.gen] \in {"alive", "failed", "dead"}
  /\ live' = job.gen /\ starting' = FALSE /\ JobDone
  /\ slot' = IF ~faulted /\ gen = job.gen /\ slot.phase = "starting"
             THEN [slot EXCEPT !.phase = "running"] ELSE slot
  /\ IF faulted THEN Stop(job.gen) ELSE UNCHANGED signalled
  /\ UNCHANGED <<gen, last, consumed, sent, memory, late, handle, proc, outcome, starts>>

StartRejects ==
  /\ up /\ job.pc = "start" /\ proc[job.gen] = "killed"
  /\ Unknown(slot, job.gen, "execution_interrupted")
  /\ starting' = FALSE /\ JobDone
  /\ UNCHANGED <<gen, last, consumed, sent, up, ready, closing, faulted, live, late, driver>>

(* It does not: the run needs recovery, the latch stays until the          *)
(* invocation settles.                                                     *)
StartTimesOut ==
  /\ up /\ job.pc = "start"
  /\ Unknown(slot, job.gen, "driver_start_timeout")
  /\ late' = [pc |-> "handle", gen |-> job.gen] /\ JobDone
  /\ UNCHANGED <<gen, last, consumed, sent, up, ready, closing, faulted, starting, live, driver>>

LateReturns ==
  /\ up /\ late.pc = "handle" /\ proc[late.gen] \in {"alive", "failed", "dead"}
  /\ live' = late.gen /\ Stop(late.gen)
  /\ late' = [late EXCEPT !.pc = "quiesce"]
  /\ UNCHANGED <<durable, memory, starting, job, handle, proc, outcome, starts>>

LateRejects ==
  /\ up /\ late.pc = "handle" /\ proc[late.gen] = "killed"
  /\ late' = NoLate /\ starting' = FALSE
  /\ UNCHANGED <<durable, memory, live, job, driver>>

LateQuiesced ==
  /\ up /\ late.pc = "quiesce" /\ outcome[late.gen] # "none"
  /\ IF faulted THEN UNCHANGED <<slot, sent, last, live>>
                ELSE Finish(slot, late.gen, outcome[late.gen])
  /\ late' = NoLate /\ starting' = FALSE
  /\ UNCHANGED <<gen, consumed, memory, job, driver>>

LateTimesOut ==
  /\ up /\ late.pc = "quiesce"
  /\ IF faulted THEN UNCHANGED <<slot, halted>>
                ELSE Unknown(slot, late.gen, "driver_start_timeout")
  /\ late' = NoLate /\ starting' = FALSE
  /\ UNCHANGED <<gen, last, consumed, sent, up, ready, closing, faulted, live, job, driver>>

(* handle.stop() resolves once the process has exited, or the wait ends.   *)
Quiesced ==
  /\ up /\ job.pc = "quiesce" /\ outcome[job.gen] # "none"
  /\ Finish(slot, job.gen, outcome[job.gen]) /\ JobDone
  /\ UNCHANGED <<gen, consumed, memory, starting, late, driver>>

(* Fault: a stop that timed out counts as stopped.                         *)
QuiesceTimesOutQuiet ==
  /\ up /\ job.pc = "quiesce"
  /\ Finish(slot, job.gen, "failed") /\ JobDone
  /\ UNCHANGED <<gen, consumed, memory, starting, late, driver>>

QuiesceTimesOut ==
  /\ up /\ job.pc = "quiesce"
  /\ Unknown(slot, job.gen, "execution_interrupted") /\ JobDone
  /\ UNCHANGED <<gen, last, consumed, sent, up, ready, closing, faulted,
                 starting, live, late, driver>>

(* publisher.publish resolves or fails; finish rechecks the slot.          *)
Published(kind) ==
  /\ up /\ job.pc = "publish"
  /\ Finish(slot, job.gen, kind) /\ JobDone
  /\ UNCHANGED <<gen, consumed, memory, starting, late, driver>>

-----------------------------------------------------------------------------
(* recover: a starting node asks the driver about a run that may have      *)
(* started.  A persisted pid that is gone proves it stopped; a pid in use  *)
(* (perhaps by another process) and a missing handle prove nothing.        *)

RecoverBegins ==
  /\ up /\ ~ready /\ ~faulted /\ ~halted /\ job = Idle /\ Decodes
  /\ IF slot.mayHaveStarted THEN Awaits("recover") /\ UNCHANGED ready
                            ELSE ready' = TRUE /\ UNCHANGED job
  /\ UNCHANGED <<durable, up, closing, faulted, halted, starting, live, late, driver>>

(* Fault: a run without a persisted handle counts as stopped.              *)
ProvedStoppedWithoutHandle(g) == handle = g => proc[g] = "dead"

ProvedStopped(g) == handle = g /\ proc[g] = "dead"

RecoverStopped ==
  /\ up /\ job.pc = "recover" /\ ~faulted /\ ProvedStopped(job.gen)
  /\ Finish(slot, job.gen, "failed")
  /\ ready' = TRUE /\ JobDone
  /\ UNCHANGED <<gen, consumed, up, closing, faulted, halted, starting, late, driver>>

(* Fault: a run that may have started is started again.                    *)
RecoverUnknownReplays ==
  /\ up /\ job.pc = "recover" /\ ~faulted
  /\ slot' = [slot EXCEPT !.phase = "prepared", !.mayHaveStarted = FALSE]
  /\ ready' = TRUE /\ JobDone
  /\ UNCHANGED <<gen, last, consumed, sent, up, closing, faulted, halted,
                 starting, live, late, driver>>

RecoverUnknown ==
  /\ up /\ job.pc = "recover" /\ ~faulted
  /\ Unknown(slot, job.gen, "execution_interrupted")
  /\ ready' = TRUE /\ JobDone
  /\ UNCHANGED <<gen, last, consumed, sent, up, closing, faulted, starting, live, late, driver>>

-----------------------------------------------------------------------------
(* Shutdown, faults, crashes.                                              *)

(* Fault: a shutdown overwrites the stop reason of a cancelled run.        *)
CloseOverwritesReason ==
  /\ up /\ ready /\ ~closing
  /\ closing' = TRUE
  /\ slot' = IF ~faulted /\ Occupied /\ slot.phase # "recovery_required"
             THEN [slot EXCEPT !.phase = "stopping", !.stopReason = "shutdown"] ELSE slot
  /\ IF faulted THEN Stop(live) ELSE UNCHANGED signalled
  /\ UNCHANGED <<gen, last, consumed, sent, up, ready, faulted, halted, flow,
                 handle, proc, outcome, starts>>

(* stop() and close(): intake ends, the current run is stopped.            *)
Close ==
  /\ up /\ ready /\ ~closing
  /\ closing' = TRUE
  /\ slot' = IF ~faulted /\ Occupied /\ slot.phase # "recovery_required"
             THEN [slot EXCEPT !.phase = "stopping",
                               !.stopReason = IF @ = "none" THEN "shutdown" ELSE @]
             ELSE slot
  /\ IF faulted THEN Stop(live) ELSE UNCHANGED signalled
  /\ UNCHANGED <<gen, last, consumed, sent, up, ready, faulted, halted, flow,
                 handle, proc, outcome, starts>>

(* failClosed: no SQL, only a stop of the known handle.                    *)
Fault ==
  /\ up /\ ~faulted
  /\ faulted' = TRUE /\ ready' = FALSE /\ halted' = TRUE
  /\ Stop(live)
  /\ UNCHANGED <<durable, up, closing, flow, handle, proc, outcome, starts>>

(* failClosed of the node, called by the lead, the gateway client, the     *)
(* reporter or the retention sweep: timers and intake stop, the executor   *)
(* is not told.                                                            *)
Halt ==
  /\ up /\ ready /\ ~halted
  /\ halted' = TRUE
  /\ UNCHANGED <<durable, up, ready, closing, faulted, flow, driver>>

(* The process of the node ends at any point.  A child outlives it; one    *)
(* being spawned may or may not exist.                                     *)
Crash ==
  /\ up
  /\ up' = FALSE /\ ready' = FALSE /\ closing' = FALSE /\ faulted' = FALSE /\ halted' = FALSE
  /\ starting' = FALSE /\ live' = 0 /\ job' = Idle /\ late' = NoLate
  /\ \E spawned \in BOOLEAN :
       proc' = [g \in Gens |->
                  CASE proc[g] = "alive" -> "orphan"
                    [] proc[g] = "invoked" -> IF spawned THEN "orphan" ELSE "none"
                    [] OTHER -> proc[g]]
  /\ outcome' = [g \in Gens |-> "none"]
  /\ signalled' = {}
  /\ UNCHANGED <<durable, handle, starts>>

Restart ==
  /\ ~up /\ up' = TRUE
  /\ UNCHANGED <<durable, ready, closing, faulted, halted, flow, driver>>

-----------------------------------------------------------------------------
(* FencedProcessDriver: one child process per fence.                       *)

(* spawn and record run in one turn, before start returns.                 *)
Spawn(g) ==
  /\ up /\ proc[g] = "invoked"
  /\ \/ proc' = [proc EXCEPT ![g] = "alive"] /\ handle' = g /\ UNCHANGED outcome
     \/ proc' = [proc EXCEPT ![g] = "killed"] /\ UNCHANGED <<handle, outcome>>
     \/ /\ proc' = [proc EXCEPT ![g] = "failed"]
        /\ outcome' = [outcome EXCEPT ![g] = "failed"]
        /\ UNCHANGED handle
  /\ UNCHANGED <<durable, memory, flow, signalled, starts>>

(* The child exits: its handle is released, then closed resolves.          *)
Exit(g, kind) ==
  /\ up /\ proc[g] = "alive"
  /\ proc' = [proc EXCEPT ![g] = "dead"]
  /\ handle' = IF handle = g THEN 0 ELSE handle
  /\ outcome' = [outcome EXCEPT ![g] = IF g \in signalled THEN "failed" ELSE kind]
  /\ signalled' = signalled \ {g}
  /\ UNCHANGED <<durable, memory, flow, starts>>

(* Fault: the hard limit only counts once the lease has run out.           *)
TaskTimeoutAfterLease(g) ==
  /\ up /\ proc[g] = "alive" /\ g \notin signalled /\ slot.lease = 0
  /\ signalled' = signalled \cup {g}
  /\ UNCHANGED <<durable, memory, flow, handle, proc, outcome, starts>>

(* The kill timer that start arms: after taskTimeoutMs the child is sent   *)
(* SIGTERM and then SIGKILL, whatever the lease, the latches and the slot. *)
TaskTimeout(g) ==
  /\ up /\ proc[g] = "alive" /\ g \notin signalled
  /\ signalled' = signalled \cup {g}
  /\ UNCHANGED <<durable, memory, flow, handle, proc, outcome, starts>>

OrphanExits(g) ==
  /\ proc[g] = "orphan"
  /\ proc' = [proc EXCEPT ![g] = "dead"]
  /\ UNCHANGED <<durable, memory, flow, handle, outcome, signalled, starts>>

Advance ==
  /\ slot.lease > 0
  /\ slot' = [slot EXCEPT !.lease = @ - 1,
                          !.heartbeat = IF @ > 0 THEN @ - 1 ELSE 0]
  /\ UNCHANGED <<gen, last, consumed, sent, memory, flow, driver>>

-----------------------------------------------------------------------------
Consume ==
  \/ \E o \in Offers, gatesPass \in BOOLEAN : Offer(o, gatesPass)
  \/ \E o \in Offers : Cancel(o)
  \/ \E left \in 1..LeaseMs : Renew(left)

Settle == SettleOutcome \/ SettlePrepare \/ SettleStop

StartEnds == StartReturns \/ StartRejects \/ StartTimesOut
Resume ==
  \/ PrepareOk \/ PrepareFails \/ StartEnds \/ Quiesced \/ QuiesceTimesOut
  \/ \E kind \in {"result", "failed"} : Published(kind)

Late == LateReturns \/ LateRejects \/ LateQuiesced \/ LateTimesOut

Recover == RecoverBegins \/ RecoverStopped \/ RecoverUnknown

Child ==
  \E g \in Gens : \/ Spawn(g)
                  \/ \E kind \in {"result", "failed"} : Exit(g, kind)
                  \/ TaskTimeout(g)
                  \/ OrphanExits(g)

Next ==
  \/ Consume \/ Tick \/ Settle \/ Resume \/ Late \/ Recover
  \/ Close \/ Fault \/ Halt \/ Crash \/ Restart \/ Child \/ Advance

Spec == Init /\ [][Next]_vars

(* The passes somebody owes the slot: the pump's on a node that has not    *)
(* halted, and those of close().                                           *)
OwedSettle == (~halted \/ closing) /\ Settle

(* SIGKILL ends a child that SIGTERM did not.                              *)
KilledExits ==
  \E g \in signalled : \E kind \in {"result", "failed"} : Exit(g, kind)

(* The pump keeps calling tick and settle, every driver wait is bounded,   *)
(* time passes, a starting node recovers, the kill timer of a child fires  *)
(* in the end (taskTimeoutMs, half an hour unless configured) and kills.   *)
(* That workspace.prepare and publisher.publish end is assumed: the code   *)
(* does not bound them.  No child is assumed to exit by itself, the lead   *)
(* may renew for ever, nobody restarts the node.                           *)
Fairness ==
  /\ WF_vars(Tick) /\ WF_vars(OwedSettle) /\ WF_vars(Resume) /\ WF_vars(Recover)
  /\ WF_vars(Advance)
  /\ WF_vars(\E g \in Gens : TaskTimeout(g)) /\ WF_vars(KilledExits)

FairSpec == Spec /\ Fairness

-----------------------------------------------------------------------------
(* Properties.                                                             *)

(* Whatever the order of offers, cancels, renewals, timers, driver answers, *)
(* shutdowns and crashes, the persisted state passes decode(), the checks  *)
(* the next event makes before it is applied.                              *)
PersistedRunDecodes == TypeOK /\ Decodes

(* The fence: at most one run of this node can have a process, orphans of  *)
(* earlier incarnations and starts still in flight included.               *)
OneProcess ==
  \A g, h \in Gens : proc[g] \notin Quiet /\ proc[h] \notin Quiet => g = h

(* A terminal message is a proof of quiescence: the lead may redispatch    *)
(* because nothing of that run is or will be running.                      *)
QuiescedBeforeTerminal ==
  \A m \in sent : m.type \in Terminals => proc[m.gen] \in Quiet

(* An attempt is started at most once in its life, across duplicate        *)
(* offers, crashes between commit and start, and restarts.                 *)
StartOnce ==
  /\ \A g \in Gens : starts[g] <= 1
  /\ \A m, n \in sent : m.type = "accept" /\ n.type = "accept" /\ m.offer = n.offer => m = n

(* The lead hears one story: one answer to an offer, one end of an         *)
(* accepted run, and a cancel of an ended run only repeats its end.        *)
OneVerdict ==
  /\ \A m, n \in sent : m.type \in {"accept", "reject"} /\ n.type \in {"accept", "reject"}
                          /\ m.offer = n.offer => m = n
  /\ \A m, n \in sent : m.type \in {"result", "fail"} /\ n.type \in {"result", "fail"}
                          /\ m.gen = n.gen => m = n
  /\ \A m \in sent : m.type \in Terminals =>
                       [type |-> "accept", offer |-> m.offer, gen |-> m.gen] \in sent

(* A result is only delivered for a run nothing has stopped: a cancel, an  *)
(* expiry or a shutdown that lands while artifacts are being published     *)
(* wins over the driver's success.                                         *)
NoResultAfterStop ==
  [][\A m \in sent' \ sent : m.type = "result" => slot.stopReason = "none"]_vars

(* An accepted run does not hold the slot for ever, however its child      *)
(* behaves and however long its lead renews the lease: the lease bounds a  *)
(* run nobody renews (tick), the kill timer of the driver every other.  It *)
(* ends, or the node halts for recovery or goes down.                      *)
SlotIsReleased ==
  /\ (slot.phase = "running" /\ slot.lease = 0) ~> (slot.phase # "running" \/ halted \/ ~up)
  /\ Occupied ~> (~Occupied \/ halted \/ ~up)

(* R3 (docs/QLONG_DESIGN_01_MSG_PROTOCOL.md): the executor's own timer     *)
(* stops the run when its lease runs out, for as long as the node is up.   *)
LeaseEndsRun ==
  (slot.phase = "running" /\ slot.lease = 0) ~> (slot.phase # "running" \/ ~up \/ faulted)

(* The comment on the release of the persisted handle (fenced-driver.ts):  *)
(* recover() needs the handle only before the run's process has settled.   *)
(* So a run whose start had returned and whose process is gone is provable.*)
HandleOnlyNeededBeforeExit ==
  job.pc = "recover" /\ slot.phase = "running" /\ proc[job.gen] = "dead"
    => handle = job.gen
=============================================================================

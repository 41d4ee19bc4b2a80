-------------------------------- MODULE NodePump --------------------------------
(***************************************************************************)
(* The life of a durable node and its inbox pump                           *)
(* (packages/node/src/runtime/node.ts): start() recovers, drains what is   *)
(* pending, connects and starts the timers; drain() authorises pending     *)
(* envelopes again, one by one with an await each, and consumes them;      *)
(* stop() closes the executor, flushes, disconnects and closes the store.  *)
(*                                                                         *)
(* The code is one thread: what happens between two awaits is one action.  *)
(* Pump steps interleave with arrivals, timers, stop(), faults and         *)
(* crashes.  Abstracted: whether the executor or the lead consumes         *)
(* (DurableExecutor, DurableLead), the connection (Claims, Custody), and   *)
(* time: a retry that is due fires at some later moment.                   *)
(***************************************************************************)
EXTENDS Naturals, Sequences, FiniteSets

CONSTANTS
  Envelope,    \* envelopes that may arrive
  PumpBatch,   \* PUMP_BATCH (16 in the code)
  MaxRevoked   \* bound: envelopes whose sender loses its authority

ASSUME PumpAssumption ==
  /\ IsFiniteSet(Envelope)
  /\ PumpBatch \in Nat \ {0}
  /\ MaxRevoked \in Nat

VARIABLES
  inbox,       \* node_inbox: pending envelopes, oldest first
  done,        \* envelopes consumed
  registryUp,  \* the registry answers
  revoked,     \* envelopes that the registry would not authorise
  phase,       \* where start() or stop() is
  faulted,
  step,        \* of drain(): "idle" iff not draining
  batch,       \* rest of the batch
  full,        \* the batch had PumpBatch envelopes
  skipped,
  triggered,   \* drainTriggers > 0
  retry,       \* nextVerifyRetryAt # 0
  failed       \* history: envelopes that this drain() failed to authorise

world == <<registryUp, revoked>>
pump == <<step, batch, full, skipped, triggered, retry, failed>>
pumpVars == <<inbox, done, world, phase, faulted, pump>>

Starting == {"recovering", "draining", "opening"}
Stopped == {"stopping", "flushing", "reporting", "closed"}
Phases == {"new", "serving", "rejected"} \union Starting \union Stopped

PumpInit ==
  /\ inbox = <<>> /\ done = {}
  /\ registryUp = TRUE /\ revoked = {}
  /\ phase = "new" /\ faulted = FALSE
  /\ step = "idle" /\ batch = <<>> /\ full = FALSE /\ skipped = FALSE
  /\ triggered = FALSE /\ retry = FALSE /\ failed = {}

Halts == phase \in Stopped \/ faulted
Serves == phase = "serving" /\ ~faulted
Authorised(e) == registryUp /\ e \notin revoked

--------------------------------------------------------------------------------
(* drain() *)

\* A call of drain(): nothing if one is under way.
Begin ==
  IF step = "idle"
  THEN /\ step' = "fetch" /\ failed' = {}
       /\ UNCHANGED <<batch, full, skipped>>
  ELSE UNCHANGED <<step, batch, full, skipped, failed>>

\* onInboxReady
Trigger == triggered' = TRUE /\ Begin /\ UNCHANGED retry

\* Fault: what was triggered meanwhile is forgotten.
EndForgets ==
  /\ batch' = <<>>
  /\ step' = "idle"
  /\ UNCHANGED <<triggered, failed>>
  /\ phase' = IF phase = "draining" THEN "opening" ELSE phase

\* drain() returns; the finally block runs it again if it was triggered
\* meanwhile.  start() goes on when its own drain() returns.
End ==
  /\ batch' = <<>>
  /\ IF triggered /\ ~Halts
     THEN step' = "fetch" /\ triggered' = FALSE /\ failed' = {}
     ELSE step' = "idle" /\ UNCHANGED <<triggered, failed>>
  /\ phase' = IF phase # "draining" THEN phase ELSE IF faulted THEN "rejected" ELSE "opening"

\* pending(PUMP_BATCH): the oldest pending envelopes.
Oldest == SubSeq(inbox, 1, IF Len(inbox) < PumpBatch THEN Len(inbox) ELSE PumpBatch)

Fetch ==
  /\ step = "fetch"
  /\ IF Halts
     THEN End /\ UNCHANGED <<full, skipped>>
     ELSE /\ batch' = Oldest
          /\ full' = (Len(inbox) >= PumpBatch)
          /\ skipped' = FALSE
          /\ step' = "verify"
          /\ UNCHANGED <<triggered, failed, phase>>
  /\ UNCHANGED <<inbox, done, world, faulted, retry>>

VerifyBegins ==
  /\ step = "verify" /\ batch # <<>>
  /\ IF Halts
     THEN End
     ELSE step' = "await" /\ UNCHANGED <<batch, triggered, failed, phase>>
  /\ UNCHANGED <<inbox, done, world, faulted, full, skipped, retry>>

\* The registry does not authorise the head: it stays pending.
VerifyRefused ==
  /\ step = "await" /\ ~Authorised(Head(batch))
  /\ skipped' = TRUE
  /\ failed' = failed \union {Head(batch)}
  /\ batch' = Tail(batch) /\ step' = "verify"
  /\ UNCHANGED <<inbox, done, world, phase, faulted, full, triggered, retry>>

\* The inbox without its i-th row.
Without(i) == SubSeq(inbox, 1, i - 1) \o SubSeq(inbox, i + 1, Len(inbox))

\* It does, and the head is consumed; whether the node was stopped or has
\* faulted meanwhile is not asked again.
Consume ==
  /\ step = "await" /\ Authorised(Head(batch))
  /\ phase # "closed"
  /\ \E i \in DOMAIN inbox : inbox[i] = Head(batch) /\ inbox' = Without(i)
  /\ done' = done \union {Head(batch)}
  /\ batch' = Tail(batch) /\ step' = "verify"
  /\ UNCHANGED <<world, phase, faulted, full, skipped, triggered, retry, failed>>

\* consume() throws: storage, an executor or lead that faulted before, or a
\* store closed meanwhile.
ConsumeFaults ==
  /\ step = "await" /\ Authorised(Head(batch))
  /\ faulted' = TRUE
  /\ batch' = <<>> /\ step' = "idle"
  /\ phase' = IF phase = "draining" THEN "rejected" ELSE phase
  /\ UNCHANGED <<inbox, done, world, full, skipped, triggered, retry, failed>>

\* The end of a batch plans the retry; after a full batch comes another.
BatchEnds ==
  /\ step = "verify" /\ batch = <<>>
  /\ retry' = skipped
  /\ IF full
     THEN step' = "fetch" /\ UNCHANGED <<batch, triggered, failed, phase>>
     ELSE End
  /\ UNCHANGED <<inbox, done, world, faulted, full, skipped>>

--------------------------------------------------------------------------------
(* start(), stop() and what happens meanwhile *)

Start ==
  /\ phase = "new"
  /\ phase' = "recovering"
  /\ UNCHANGED <<inbox, done, world, faulted, pump>>

\* executor.recover(): on to the first drain, or a fault.
Recover ==
  /\ phase = "recovering"
  /\ \/ /\ phase' = "draining" /\ Begin
        /\ UNCHANGED <<faulted, triggered, retry>>
     \/ phase' = "rejected" /\ faulted' = TRUE /\ UNCHANGED pump
  /\ UNCHANGED <<inbox, done, world>>

\* client.open() and, on auth_ok, onInboxReady for what is pending.
OpenAuthed ==
  /\ phase = "opening"
  /\ IF faulted THEN phase' = "rejected" ELSE phase' = "serving"
  /\ IF inbox # <<>> /\ ~faulted THEN Trigger ELSE UNCHANGED pump
  /\ UNCHANGED <<inbox, done, world, faulted>>

\* It fails, and the client goes on trying, or it is refused for good.
OpenFails ==
  /\ phase = "opening"
  /\ phase' \in {"serving", "rejected"}
  /\ faulted => phase' = "rejected"
  /\ UNCHANGED <<inbox, done, world, faulted, pump>>

Reconnected ==
  /\ Serves /\ inbox # <<>>
  /\ Trigger
  /\ UNCHANGED <<inbox, done, world, phase, faulted>>

\* The client has received and stored a new envelope.
Arrive(e) ==
  /\ Serves
  /\ e \notin done /\ \A i \in DOMAIN inbox : inbox[i] # e
  /\ inbox' = Append(inbox, e)
  /\ Trigger
  /\ UNCHANGED <<done, world, phase, faulted>>

\* Fault: every tick plans the retry again.
RetryTickPlans ==
  /\ Serves /\ retry
  /\ retry' = TRUE
  /\ UNCHANGED <<inbox, done, world, phase, faulted, step, batch, full, skipped, triggered, failed>>

\* pumpTick when nextVerifyRetryAt has come.
RetryTick ==
  /\ Serves /\ retry
  /\ retry' = FALSE
  /\ Begin
  /\ UNCHANGED <<inbox, done, world, phase, faulted, triggered>>

\* failClosed() after any other fault of the store, executor or lead.
FailClosed ==
  /\ phase \notin {"new", "closed"} /\ ~faulted
  /\ faulted' = TRUE
  /\ UNCHANGED <<inbox, done, world, phase, pump>>

\* stop() and its stages; each goes on whatever the one before met, and a
\* start() under way comes to nothing.
Stop ==
  /\ phase \notin Stopped
  /\ phase' = "stopping"
  /\ UNCHANGED <<inbox, done, world, faulted, pump>>

StopStage ==
  /\ phase \in Stopped \ {"closed"}
  /\ phase' = CASE phase = "stopping" -> "flushing"
                [] phase = "flushing" -> "reporting"
                [] phase = "reporting" -> "closed"
  /\ UNCHANGED <<inbox, done, world, faulted, pump>>

\* The process ends, in any state, and is started again by its operator.
Restart ==
  /\ phase # "new"
  /\ phase' = "new" /\ faulted' = FALSE
  /\ step' = "idle" /\ batch' = <<>> /\ full' = FALSE /\ skipped' = FALSE
  /\ triggered' = FALSE /\ retry' = FALSE /\ failed' = {}
  /\ UNCHANGED <<inbox, done, world>>

RegistryChanges ==
  /\ registryUp' = ~registryUp
  /\ UNCHANGED <<inbox, done, revoked, phase, faulted, pump>>

Revoke(e) ==
  /\ e \notin revoked /\ Cardinality(revoked) < MaxRevoked
  /\ revoked' = revoked \union {e}
  /\ UNCHANGED <<inbox, done, registryUp, phase, faulted, pump>>

PumpStep == Fetch \/ VerifyBegins \/ VerifyRefused \/ Consume \/ ConsumeFaults \/ BatchEnds

PumpNext ==
  \/ PumpStep
  \/ Start \/ Recover \/ OpenAuthed \/ OpenFails \/ Reconnected \/ RetryTick
  \/ FailClosed \/ Stop \/ StopStage \/ Restart \/ RegistryChanges
  \/ \E e \in Envelope : Arrive(e) \/ Revoke(e)

PumpSpec == PumpInit /\ [][PumpNext]_pumpVars

\* The pump goes on, the timer fires, and start() is called and goes on.
PumpFairSpec ==
  PumpSpec /\ WF_pumpVars(PumpStep) /\ WF_pumpVars(RetryTick)
           /\ WF_pumpVars(Start) /\ WF_pumpVars(Recover) /\ WF_pumpVars(OpenAuthed \/ OpenFails)

--------------------------------------------------------------------------------
\* Every variable keeps its type.
PumpTypeOK ==
  /\ inbox \in Seq(Envelope) /\ done \subseteq Envelope
  /\ registryUp \in BOOLEAN /\ revoked \subseteq Envelope
  /\ phase \in Phases /\ faulted \in BOOLEAN
  /\ step \in {"idle", "fetch", "verify", "await"}
  /\ batch \in Seq(Envelope) /\ Len(batch) <= PumpBatch
  /\ full \in BOOLEAN /\ skipped \in BOOLEAN
  /\ triggered \in BOOLEAN /\ retry \in BOOLEAN /\ failed \subseteq Envelope

\* While the node serves, an envelope is never left pending with nobody to
\* look at it again: the pump is at work, or a retry is planned.
NoStranded ==
  /\ PumpTypeOK
  /\ Serves /\ step = "idle" /\ inbox # <<>> => retry

\* An envelope that may be consumed is consumed, or the node stops serving.
LegalIsConsumed ==
  \A e \in Envelope :
    (Serves /\ \E i \in DOMAIN inbox : inbox[i] = e) ~> (e \in done \/ e \in revoked \/ ~Serves)

\* A batch has room for an envelope that may be consumed.
BatchHasRoom == Cardinality({i \in DOMAIN inbox : inbox[i] \in revoked}) < PumpBatch

\* When the registry answers again and for good, a pending envelope of a
\* sender in authority is consumed, or the node stops serving, provided that
\* envelopes which are never authorised do not fill a batch.
PendingIsConsumed == <>[](registryUp /\ BatchHasRoom) => LegalIsConsumed

\* node.ts: an outage of the registry never becomes the permanent refusal of a
\* lawful envelope.
OutageIsNotRefusal == <>[]registryUp => LegalIsConsumed

\* node.ts: an envelope that fails to be authorised stays pending for a timed
\* retry; drain() does not ask for it again.
RetryIsTimed == step = "await" => Head(batch) \notin failed
================================================================================

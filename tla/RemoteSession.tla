----------------------------- MODULE RemoteSession -----------------------------
(***************************************************************************)
(* The executing half of a v1 remote session: the executor machine         *)
(* (executor/machine.ts), the session that feeds it envelopes, timers and  *)
(* acknowledgements (remote/session.ts), and the driver that runs one      *)
(* child process per accepted offer (driver/harness-driver.ts).            *)
(*                                                                         *)
(* One lead node offers and cancels attempts of several tasks.  The        *)
(* channel delivers at least once and in any order, and the lead may have  *)
(* sent everything long ago: any of its envelopes may arrive at any        *)
(* moment, and again.  Every handler is synchronous and hence one action.  *)
(* Timers fire some time after they were armed.  What the gates, the pause *)
(* switch, the rate limit and the exp of an offer amount to is a free      *)
(* choice.  A signal is modelled by its effect: SIGTERM permits an exit    *)
(* that a child may make anyway, SIGKILL compels it, SIGSTOP holds it (and *)
(* does nothing on Windows).  The fields driverCompleted and               *)
(* cancelReceived are left out: no handler leaves them set in a running    *)
(* record.  No workspace manager is configured.                            *)
(***************************************************************************)
EXTENDS Naturals, Sequences, FiniteSets

CONSTANTS
  Task,
  None,          \* no task
  Key,           \* bound: the attempts <<task, attempt>> that the lead makes
  Revoked,       \* bound: those of them that it cancels
  MaxRuns,       \* bound: children started
  MaxForgotten   \* bound: R1 keys that outlive their retention

ASSUME SessionAssumption ==
  /\ IsFiniteSet(Task) /\ None \notin Task
  /\ Key \subseteq Task \X (Nat \ {0}) /\ Revoked \subseteq Key
  /\ {MaxRuns, MaxForgotten} \subseteq Nat

Attempt == {k[2] : k \in Key}

VARIABLES
  seen,        \* DedupStore: keys <<type, task, attempt>>
  forgotten,   \* history: keys that evict() dropped
  rec,         \* ExecutorMachine.rec
  decided,     \* history: verdicts sent per attempt
  heartbeats,  \* execTimers: tasks with a heartbeat timer
  leases,      \* execTimers: tasks with a lease_self timer
  unacked,     \* lastProgressMsgId is set
  driver       \* the driver's fields and its children, oldest first

dedup == <<seen, forgotten>>
timers == <<heartbeats, leases, unacked>>
sessionVars == <<dedup, rec, decided, timers, driver>>

States == {"idle", "running", "result_sent", "fail_sent", "rejected", "stopped"}
Record ==
  [state : States, task : Task \union {None}, attempt : Attempt \union {0},
   paused : BOOLEAN]
Blank(state) == [state |-> state, task |-> None, attempt |-> 0, paused |-> FALSE]
For(state, t, a) == [state |-> state, task |-> t, attempt |-> a, paused |-> FALSE]

Child ==
  [task : Task, attempt : Attempt,
   status : {"alive", "held", "killed", "gone"},
   told : BOOLEAN]   \* history: it lives and stop() was called for it

SessionInit ==
  /\ seen = {} /\ forgotten = {}
  /\ rec = Blank("idle")
  /\ decided = [k \in Key |-> 0]
  /\ heartbeats = {} /\ leases = {} /\ unacked = FALSE
  /\ driver = [stopped |-> FALSE, limit |-> FALSE, reapers |-> 0, runs |-> <<>>]

Current == Len(driver.runs)                  \* this.proc is the last one spawned
execCtx == driver.runs[Current].task
Running(t, a) == rec.state = "running" /\ rec.task = t /\ rec.attempt = a
Decided == {"result_sent", "fail_sent", "stopped"}

--------------------------------------------------------------------------------
(* DeepSeekHarnessDriver *)

DriverStart(d, t, a) ==
  [d EXCEPT !.stopped = FALSE, !.limit = TRUE,
            !.runs = Append(@, [task |-> t, attempt |-> a,
                                status |-> "alive", told |-> FALSE])]

\* SIGTERM now, SIGKILL to this.proc in three seconds.
DriverStop(d) ==
  [d EXCEPT !.stopped = TRUE, !.limit = FALSE, !.reapers = @ + 1,
            !.runs[Len(d.runs)].told = TRUE]

\* A signal to this.proc: a child in one of the states moves to another.
Signal(d, states, status) ==
  IF d.runs[Len(d.runs)].status \in states
  THEN [d EXCEPT !.runs[Len(d.runs)].status = status]
  ELSE d

\* taskTimeoutMs: SIGTERM now, SIGKILL to this.proc in five seconds.
LimitTimer ==
  /\ driver.limit
  /\ driver' = [driver EXCEPT !.limit = FALSE,
                              !.reapers = IF driver.stopped THEN @ ELSE @ + 1]
  /\ UNCHANGED <<dedup, rec, decided, timers>>

ReapTimer ==
  /\ driver.reapers > 0
  /\ driver' = Signal([driver EXCEPT !.reapers = @ - 1], {"alive", "held"}, "killed")
  /\ UNCHANGED <<dedup, rec, decided, timers>>

--------------------------------------------------------------------------------
(* ExecutorMachine and processExec *)

\* result, fail, reject or cancel.ack is sent for the attempt of the record.
Verdict == decided' = [decided EXCEPT ![<<rec.task, rec.attempt>>] = @ + 1]

\* Timers are keyed by the task of the context in which the actions run.
CancelTimers(t) ==
  /\ heartbeats' = heartbeats \ {t}
  /\ leases' = leases \ {t}

\* startDriver, of driver d.
StartDriver(d, t, a) ==
  /\ Len(d.runs) < MaxRuns
  /\ driver' = DriverStart(d, t, a)

\* evaluateOffer, with driver d and the timers hs and ls left armed.
EvaluateOffer(t, a, d, hs, ls) ==
  \/ /\ rec' \in {Blank("rejected"), For("rejected", t, a)}
     /\ driver' = d /\ heartbeats' = hs /\ leases' = ls
  \/ /\ StartDriver(d, t, a)
     /\ rec' = For("running", t, a)
     /\ heartbeats' = hs \union {t}
     /\ leases' = ls \union {t}

\* Fault: the record is not consulted.
AlreadyDecidedNever(t, a) == FALSE

\* A decided attempt that is offered again, or an older one.
AlreadyDecided(t, a) == rec.task = t /\ rec.state \in Decided /\ a <= rec.attempt

\* Fault: a running executor takes the offer of another task.
OnOfferOverwrites(t, a) ==
  IF AlreadyDecided(t, a) \/ Running(t, a)
  THEN UNCHANGED <<rec, decided, driver, heartbeats, leases>>
  ELSE EvaluateOffer(t, a, driver, heartbeats, leases) /\ UNCHANGED decided

OnOffer(t, a) ==
  \/ /\ \/ AlreadyDecided(t, a)
        \/ rec.state = "running" /\ ~(rec.task = t /\ a > rec.attempt)
     /\ UNCHANGED <<rec, decided, driver, heartbeats, leases>>
  \/ /\ ~AlreadyDecided(t, a)    \* its exp has passed
     /\ rec' = IF rec.state \in {"idle", "rejected"} THEN Blank("rejected") ELSE rec
     /\ UNCHANGED <<decided, driver, heartbeats, leases>>
  \/ /\ rec.state = "running" /\ rec.task = t /\ a > rec.attempt
     /\ Verdict
     /\ EvaluateOffer(t, a, DriverStop(driver), heartbeats \ {t}, leases \ {t})
  \/ /\ rec.state # "running" /\ ~AlreadyDecided(t, a)
     /\ EvaluateOffer(t, a, driver, heartbeats, leases)
     /\ UNCHANGED decided

\* The task of the cancel is not compared: onCancel knows sender and attempt.
OnCancel(t, a) ==
  IF rec.state = "running" /\ rec.attempt = a
  THEN /\ rec' = [rec EXCEPT !.state = "stopped"]
       /\ driver' = DriverStop(driver)
       /\ CancelTimers(t)
       /\ Verdict
  ELSE UNCHANGED <<rec, decided, driver, heartbeats, leases>>

HeartbeatDue(t) ==
  /\ t \in heartbeats
  /\ IF rec.state = "running" /\ ~rec.paused
     THEN unacked' = TRUE /\ UNCHANGED heartbeats
     ELSE heartbeats' = heartbeats \ {t} /\ UNCHANGED unacked
  /\ UNCHANGED <<dedup, rec, decided, leases, driver>>

\* onGatewayAck: "delivered" for the last progress sent.
GatewayAck == unacked /\ unacked' = FALSE

HeartbeatAcked ==
  /\ GatewayAck
  /\ IF rec.state = "running"
     THEN /\ rec' = [rec EXCEPT !.paused = FALSE]
          /\ driver' = IF rec.paused THEN Signal(driver, {"held"}, "alive") ELSE driver
          /\ leases' = leases \union {execCtx}
     ELSE UNCHANGED <<rec, driver, leases>>
  /\ UNCHANGED <<dedup, decided, heartbeats>>

\* A timer that fires before the deadline is armed again: no step.
LeaseSelfTimeout(t) ==
  /\ t \in leases
  /\ leases' = leases \ {t}
  /\ IF rec.state = "running"
     THEN /\ rec' = [rec EXCEPT !.paused = TRUE]
          /\ driver' \in {driver, Signal(driver, {"alive"}, "held")}
     ELSE UNCHANGED <<rec, driver>>
  /\ UNCHANGED <<dedup, decided, heartbeats, unacked>>

\* onDriverCompleted and onDriverFailed.
DriverVerdict(done) ==
  IF ~done THEN "fail_sent" ELSE IF rec.paused THEN "stopped" ELSE "result_sent"

\* Fault: a child that ends after its lease is ignored.
OnDriverEndUnpaused(t, done) ==
  IF rec.state = "running" /\ ~rec.paused
  THEN /\ rec' = [rec EXCEPT !.state = DriverVerdict(done)]
       /\ Verdict /\ CancelTimers(t)
  ELSE UNCHANGED <<rec, decided, heartbeats, leases>>

OnDriverEnd(t, done) ==
  IF rec.state = "running"
  THEN /\ rec' = [rec EXCEPT !.state = DriverVerdict(done)]
       /\ Verdict /\ CancelTimers(t)
  ELSE UNCHANGED <<rec, decided, heartbeats, leases>>

\* The "close" event of child r: stopped is the driver's, not the child's.
Closes(r, done) ==
  /\ driver' = [driver EXCEPT !.limit = FALSE,
                              !.runs[r] = [@ EXCEPT !.status = "gone", !.told = FALSE]]
  /\ IF driver.stopped
     THEN UNCHANGED <<rec, decided, heartbeats, leases>>
     ELSE OnDriverEnd(driver.runs[r].task, done)
  /\ UNCHANGED <<dedup, unacked>>

Exits(r) ==
  /\ driver.runs[r].status = "alive"
  /\ \E done \in BOOLEAN : Closes(r, done)

DiesKilled(r) ==
  /\ driver.runs[r].status = "killed"
  /\ Closes(r, FALSE)

--------------------------------------------------------------------------------
(* onEnvelope.  A duplicate is dropped without a step. *)

First(type, t, a) ==
  /\ <<type, t, a>> \notin seen
  /\ seen' = seen \union {<<type, t, a>>}

\* Refused before the machine sees it: the pause switch or the rate limit.
ReceiveOffer(t, a) ==
  /\ First("offer", t, a)
  /\ \/ UNCHANGED <<rec, decided, driver, heartbeats, leases>>
     \/ OnOffer(t, a)
  /\ UNCHANGED <<forgotten, unacked>>

ReceiveCancel(t, a) ==
  /\ First("cancel", t, a)
  /\ OnCancel(t, a)
  /\ UNCHANGED <<forgotten, unacked>>

\* evict(): the retention of a key is over.
Evict(key) ==
  /\ key \in seen /\ Cardinality(forgotten \union {key}) <= MaxForgotten
  /\ seen' = seen \ {key}
  /\ forgotten' = forgotten \union {key}
  /\ UNCHANGED <<rec, decided, timers, driver>>

--------------------------------------------------------------------------------
SessionNext ==
  \/ LimitTimer \/ ReapTimer \/ HeartbeatAcked
  \/ \E t \in Task :
       HeartbeatDue(t) \/ LeaseSelfTimeout(t)
  \/ \E r \in 1..Current : Exits(r) \/ DiesKilled(r)
  \/ \E k \in Key : ReceiveOffer(k[1], k[2])
  \/ \E k \in Revoked : ReceiveCancel(k[1], k[2])
  \/ \E key \in seen : Evict(key)

SessionSpec == SessionInit /\ [][SessionNext]_sessionVars

\* Timers fire and a killed child ends; nothing else is assumed: neither
\* that a child finishes, nor that a message or an acknowledgement arrives.
SessionFairness ==
  /\ WF_sessionVars(LimitTimer)
  /\ WF_sessionVars(ReapTimer)
  /\ \A r \in 1..MaxRuns : WF_sessionVars(r <= Current /\ DiesKilled(r))

SessionFairSpec == SessionSpec /\ SessionFairness

--------------------------------------------------------------------------------
(* Properties *)

\* The session's fields have their types; every stop() and every hard limit
\* schedules one delayed SIGKILL, so no more than two per child are pending.
SessionTypeOK ==
  /\ seen \subseteq ({"offer", "cancel"} \X Task \X Attempt)
  /\ forgotten \subseteq ({"offer", "cancel"} \X Task \X Attempt)
  /\ rec \in Record
  /\ decided \in [Key -> 0..MaxRuns]
  /\ heartbeats \subseteq Task /\ leases \subseteq Task
  /\ unacked \in BOOLEAN
  /\ driver.stopped \in BOOLEAN /\ driver.limit \in BOOLEAN
  /\ driver.reapers \in 0..2 * MaxRuns
  /\ Len(driver.runs) <= MaxRuns
  /\ \A r \in 1..Current : driver.runs[r] \in Child

\* R6, no silence: an attempt that was accepted is running or has been
\* answered, exactly once per acceptance, whatever offers, cancels and
\* exits of older children arrive meanwhile.
NoSilentDrop ==
  /\ SessionTypeOK
  /\ \A k \in Key :
       Cardinality({r \in 1..Current :
                      <<driver.runs[r].task, driver.runs[r].attempt>> = k})
         = decided[k] + (IF Running(k[1], k[2]) THEN 1 ELSE 0)

\* The two guards against running an attempt twice, the R1 keys and the
\* machine's record, together: a second child of an attempt is started only
\* when the key has outlived its retention and the record is about
\* something else.
RerunOnlyWhenForgotten ==
  [][ \A r \in 1..Current :
        LET c == driver.runs[r]
            next == driver'.runs[Len(driver'.runs)]
        IN  (/\ Len(driver'.runs) > Current
             /\ next.task = c.task /\ next.attempt = c.attempt)
            => /\ <<"offer", c.task, c.attempt>> \in forgotten
               /\ rec.task # c.task \/ rec.state = "rejected" \/ rec.attempt < c.attempt ]_sessionVars

\* The one execution slot is always freed again, even when a child hangs, is
\* held by SIGSTOP and no acknowledgement comes any more: with NoSilentDrop,
\* every accepted attempt is answered in the end.
SlotIsFreed == (rec.state = "running") ~> (rec.state # "running")

\* After stop() a child reports neither success nor failure: its exit leaves
\* the record alone.
StoppedRunIsSilent ==
  [][ \A r \in 1..Current :
        (/\ driver.runs[r].told
         /\ driver.runs[r].status # "gone"
         /\ driver'.runs[r].status = "gone") => rec' = rec ]_sessionVars

================================================================================

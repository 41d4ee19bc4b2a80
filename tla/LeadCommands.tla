---------------------------- MODULE LeadCommands ----------------------------
(***************************************************************************)
(* DurableLead and the owner's commands.  A cancel or a redispatch of a    *)
(* task the center knows is queued there (registry/http.ts,                *)
(* command-store.ts); the lead pulls pending commands, applies each in a   *)
(* transaction of its own and acknowledges it (runtime/node.ts             *)
(* pullCommands).  An acknowledgement may be late or lost, and the process *)
(* may die at any point: the command is then pulled and applied again.     *)
(*                                                                         *)
(* acks is a growing set whose members arrive at any time.  The projection *)
(* is reduced to whether it exists (LeadReports has the rest).             *)
(* The guard that CenterGated adds to DurableLead's Cancel and Redispatch  *)
(* is not used here: that the queue establishes it is a result.            *)
(* Left out: created_at ties (two commands of one millisecond may be       *)
(* pulled in either order) and command-store.ts prune, which has no caller.*)
(***************************************************************************)
EXTENDS DurableLead, Sequences

CONSTANTS
  MaxCommands,  \* bound: commands the owner issues
  PullLimit     \* COMMAND_PULL_LIMIT

ASSUME LeadCommandsConstants ==
  /\ MaxCommands \in Nat
  /\ PullLimit \in Nat \ {0}

VARIABLES
  projected,  \* the center has a projection of the task
  commands,   \* the center's queue: [kind, status], in order of arrival
  batch,      \* the pulled commands not applied yet (indices of commands)
  acks,       \* commands whose acknowledgement has been sent
  revoked     \* history: commands whose application sealed a task.cancel

queueVars == <<projected, commands, batch, acks, revoked>>
commandVars == <<vars, queueVars>>

CommandRecord == [kind : {"cancel", "redispatch"}, status : {"pending", "acked"}]

CommandsTypeOK ==
  /\ TypeOK
  /\ projected \in BOOLEAN
  /\ commands \in Seq(CommandRecord)
  /\ batch \in Seq(1..Len(commands))
  /\ acks \subseteq 1..Len(commands)
  /\ revoked \subseteq 1..Len(commands)

CommandsInit ==
  /\ Init
  /\ projected = FALSE
  /\ commands = <<>>
  /\ batch = <<>>
  /\ acks = {}
  /\ revoked = {}

(* Everything the lead does without its owner.  TickFault and Restart are  *)
(* left out: no record that does not decode is reachable (Implements).     *)
LeadStep ==
  /\ \/ Originate
     \/ \E n \in Nodes : Dispatch(n)
     \/ \E o \in Offers : \E m \in Answers(o), applies \in BOOLEAN : Consume(m, applies)
     \/ TickTimer
     \/ TickRedispatch
     \/ Advance
  /\ UNCHANGED queueVars

(* reportTask, the first time.                                             *)
Project ==
  /\ lastReport # NoReport /\ ~projected
  /\ projected' = TRUE
  /\ UNCHANGED <<vars, commands, batch, acks, revoked>>

-----------------------------------------------------------------------------
(* The center.                                                             *)

(* Fault: a command is accepted for a task the center has no record of.    *)
EnqueueUnprojected(kind) ==
  /\ Len(commands) < MaxCommands
  /\ commands' = Append(commands, [kind |-> kind, status |-> "pending"])
  /\ UNCHANGED <<vars, projected, batch, acks, revoked>>

(* POST tasks/:id/cancel or redispatch: 404 without a projection.          *)
Enqueue(kind) ==
  /\ projected
  /\ Len(commands) < MaxCommands
  /\ commands' = Append(commands, [kind |-> kind, status |-> "pending"])
  /\ UNCHANGED <<vars, projected, batch, acks, revoked>>

Pending(i) == commands[i].status = "pending"

(* pendingFor: the oldest pending commands, at most PullLimit.             *)
PendingFor ==
  LET all == SelectSeq([i \in 1..Len(commands) |-> i], Pending)
  IN  SubSeq(all, 1, IF Len(all) < PullLimit THEN Len(all) ELSE PullLimit)

(* ack: fenced on status = 'pending', so a late repetition does nothing.   *)
Ack(i) ==
  /\ i \in acks /\ Pending(i)
  /\ commands' = [commands EXCEPT ![i].status = "acked"]
  /\ UNCHANGED <<vars, projected, batch, acks, revoked>>

-----------------------------------------------------------------------------
(* The node: pullCommands.                                                 *)

(* Fault: commands are acknowledged when they are pulled.                  *)
PullAcknowledges ==
  /\ ~faulted /\ batch = <<>> /\ PendingFor # <<>>
  /\ batch' = PendingFor
  /\ acks' = acks \cup {PendingFor[i] : i \in 1..Len(PendingFor)}
  /\ UNCHANGED <<vars, projected, commands, revoked>>

(* Up to the answer of the GET; it is not reentrant.                       *)
Pull ==
  /\ ~faulted /\ batch = <<>> /\ PendingFor # <<>>
  /\ batch' = PendingFor
  /\ UNCHANGED <<vars, projected, commands, acks, revoked>>

(* Fault: a cancel is dropped while an attempt is being reclaimed.         *)
ApplyCommandNotReclaiming(i) ==
  /\ Decodes
  /\ IF rec.state = "reclaiming" THEN UNCHANGED <<rec, task_seq, outbox, lastReport>>
     ELSE IF commands[i].kind = "cancel" THEN RunEvent(CancelByUser(rec))
                                         ELSE Commit(RedispatchByOwner(rec))
  /\ KeepSeen(seen)
  /\ UNCHANGED <<originated, faulted>>

(* lead.cancel or lead.redispatch, one transaction.                        *)
ApplyCommand(i) ==
  /\ Decodes
  /\ IF commands[i].kind = "cancel" THEN RunEvent(CancelByUser(rec))
                                    ELSE Commit(RedispatchByOwner(rec))
  /\ KeepSeen(seen)
  /\ UNCHANGED <<originated, faulted>>

Cancels(sent) == {o \in sent : o.type = "cancel"}

(* ackCommand: best effort; sent = FALSE if the process dies or the        *)
(* request fails before the acknowledgement is out.                        *)
AckCommand(i, sent) == acks' = IF sent THEN acks \cup {i} ELSE acks

(* One command of the batch.                                               *)
Apply(i, sent) ==
  /\ batch # <<>> /\ i = Head(batch)
  /\ ApplyCommand(i)
  /\ AckCommand(i, sent)
  /\ revoked' = IF Cancels(outbox') # Cancels(outbox) THEN revoked \cup {i} ELSE revoked
  /\ batch' = Tail(batch)
  /\ UNCHANGED <<projected, commands>>

(* The node's process dies and starts again: the pulled batch is lost.     *)
CrashRestart ==
  /\ batch # <<>>
  /\ batch' = <<>>
  /\ UNCHANGED <<vars, projected, commands, acks, revoked>>

-----------------------------------------------------------------------------
CommandsNext ==
  \/ LeadStep
  \/ Project
  \/ \E kind \in {"cancel", "redispatch"} : Enqueue(kind)
  \/ Pull
  \/ \E i \in 1..Len(commands), sent \in BOOLEAN : Apply(i, sent)
  \/ \E i \in 1..Len(commands) : Ack(i)
  \/ CrashRestart

CommandsSpec == CommandsInit /\ [][CommandsNext]_commandVars

TickStep == (TickTimer \/ TickRedispatch) /\ UNCHANGED queueVars

(* The pump, the command timer and the clock of a node that is up keep     *)
(* running; a node that pulls a command again and again gets to apply and  *)
(* acknowledge it once; an acknowledgement that is sent arrives, if only   *)
(* because it is sent again.                                               *)
CommandsFairness ==
  /\ WF_commandVars(TickStep)
  /\ WF_commandVars(Advance /\ UNCHANGED queueVars)
  /\ WF_commandVars(Pull)
  /\ \A i \in 1..MaxCommands :
       /\ SF_commandVars(i <= Len(commands) /\ Apply(i, TRUE))
       /\ WF_commandVars(i <= Len(commands) /\ Ack(i))

CommandsFairSpec == CommandsSpec /\ CommandsFairness

-----------------------------------------------------------------------------
(* Properties.                                                             *)

(* The composition implements the lead whose commands are gated: the 404   *)
(* for a task the center does not know is what keeps a command away from a *)
(* fresh draft, whose cancellation would persist a record that does not    *)
(* decode (http.ts, lead.ts validTask).  Meant for CenterGated = TRUE.     *)
Implements == Spec

(* An acknowledged cancel has taken effect: once the center stops offering *)
(* the command, the task is being cancelled or is over, whatever crashed   *)
(* or was repeated in between (command-store.ts, node.ts pullCommands).    *)
AckedCancelHolds ==
  \A i \in 1..Len(commands) :
     commands[i].kind = "cancel" /\ ~Pending(i) => rec.state = "cancelling" \/ IsTerminal(rec)

(* An accepted cancel ends the task, through crashes and lost requests.    *)
CancelEndsTask ==
  (\E i \in 1..Len(commands) : commands[i].kind = "cancel") ~> IsTerminal(rec)

(* node.ts pullCommands says that a command applied again after a lost     *)
(* acknowledgement has no second side effect.  Here: a command that has    *)
(* revoked an attempt revokes no other.                                    *)
RepeatRevokesNothing ==
  [][\A i \in revoked :
        batch # <<>> /\ Head(batch) = i /\ batch' = Tail(batch)
          => Cancels(outbox') = Cancels(outbox)]_commandVars
=============================================================================

---------------------------- MODULE LeadReports ----------------------------
(***************************************************************************)
(* DurableLead and the reports that keep the center's projection of the    *)
(* task up to date.  Every change of state appends a task.report intent to *)
(* the node's effects, in the transaction of the event (runtime/lead.ts);  *)
(* a pump posts the intents in order and completes one when the center     *)
(* answers (runtime/report.ts); the center keeps the newest revision       *)
(* (registry/task-projection.ts, directory.ts reportTask).                 *)
(*                                                                         *)
(* A POST that timed out may still arrive, and one that was sent again     *)
(* arrives twice: posts is a growing set whose members arrive at any time  *)
(* and any number of times.  A POST that is lost is one that never does.   *)
(* Owner commands are DurableLead's; LeadCommands has their queue.         *)
(***************************************************************************)
EXTENDS DurableLead, Sequences

VARIABLES
  intents,     \* pending task.report effects, in insertion order
  posts,       \* reports that have been posted
  projection   \* the center's record of the task

reportVars == <<vars, intents, posts, projection>>

ReportsTypeOK ==
  /\ TypeOK
  /\ intents \in Seq(Reports)
  /\ posts \subseteq Reports
  /\ projection \in Reports

ReportsInit ==
  /\ Init
  /\ intents = <<>>
  /\ posts = {}
  /\ projection = NoReport

(* Fault: only the newest intent is kept.                                  *)
AppendIntentSuperseding ==
  intents' = IF lastReport' = lastReport THEN intents ELSE <<lastReport'>>

(* runEvent and taskReportEffect: the intent is part of the transaction.   *)
AppendIntent ==
  intents' = IF lastReport' = lastReport THEN intents ELSE Append(intents, lastReport')

ReportingStep == Next /\ AppendIntent /\ UNCHANGED <<posts, projection>>

(* parseTaskReport and parseTaskProjection: a report has an attempt.       *)
Parses(r) == r.attempt >= 1

(* pendingEffects: in the order in which they were inserted.               *)
Oldest == Head(intents)

(* flush: the oldest intent is posted; later ones wait for its answer.     *)
Post ==
  /\ ~faulted /\ intents # <<>> /\ Parses(Oldest)
  /\ posts' = posts \cup {Oldest}
  /\ UNCHANGED <<vars, intents, projection>>

(* Fault: the order of arrival decides.                                    *)
SupersedesByAttempt(r) == r.attempt >= projection.attempt

(* reportTask: a revision is recorded if it is newer and of no earlier     *)
(* attempt; the same revision again is answered 200, an older one 409.     *)
Supersedes(r) == r.task_seq > projection.task_seq /\ r.attempt >= projection.attempt

(* Fault: a repeated revision is not taken for an answer.                  *)
CompletesIfRecorded(r, answered) ==
  answered /\ intents # <<>> /\ Head(intents) = r /\ Supersedes(r)

(* The pump completes on 200 and on 409, for the intent it waits for.      *)
Completes(r, answered) == answered /\ intents # <<>> /\ Head(intents) = r

(* completeEffect: the row is done; to complete it again changes nothing.  *)
CompleteEffect == Tail(intents)

(* The center handles a posted report; answered = FALSE if the answer does *)
(* not reach the pump in time.                                             *)
ReportTask(r, answered) ==
  /\ r \in posts
  /\ projection' = IF Supersedes(r) THEN r ELSE projection
  /\ intents' = IF Completes(r, answered) THEN CompleteEffect ELSE intents
  /\ UNCHANGED <<vars, posts>>

ReportsNext ==
  \/ ReportingStep
  \/ Post
  \/ \E r \in posts, answered \in BOOLEAN : ReportTask(r, answered)

ReportsSpec == ReportsInit /\ [][ReportsNext]_reportVars

(* The answer to the intent the pump is waiting for.                       *)
AnswerHead == intents # <<>> /\ ReportTask(Head(intents), TRUE)

ReportingTick == Tick /\ AppendIntent /\ UNCHANGED <<posts, projection>>

(* The pump of a node that is up posts in every round and ticks, and a     *)
(* request that is repeated for ever is answered in the end; no executor   *)
(* owes an answer.                                                         *)
ReportsFairSpec ==
  /\ ReportsSpec
  /\ WF_reportVars(Post) /\ WF_reportVars(AnswerHead)
  /\ WF_reportVars(ReportingTick)
  /\ WF_reportVars(Advance /\ UNCHANGED <<intents, posts, projection>>)

-----------------------------------------------------------------------------
(* Properties.                                                             *)

(* No revision is skipped: the center has seen every revision before the   *)
(* oldest pending intent, in order, whatever answers were lost or late,    *)
(* and what it has not seen is still pending (report.ts flush).            *)
NothingSkipped ==
  IF intents = <<>> THEN projection = lastReport
  ELSE /\ intents[Len(intents)] = lastReport
       /\ projection.task_seq \in {Head(intents).task_seq - 1, Head(intents).task_seq}
       /\ \A i \in 1..Len(intents) : intents[i].task_seq = Head(intents).task_seq + i - 1

(* The center's projection never goes back to an older revision or         *)
(* attempt, and a task shown as over stays so, although posts arrive late  *)
(* and repeatedly (directory.ts reportTask).                               *)
ProjectionNeverGoesBack ==
  [][/\ projection'.task_seq >= projection.task_seq
     /\ projection'.attempt >= projection.attempt
     /\ projection.status \in Terminal => projection' = projection]_reportVars

(* No pending report is one the parsers refuse, which would fail the node  *)
(* closed (parseTaskReport) or be refused by the center for ever.          *)
ReportsParse == \A i \in 1..Len(intents) : Parses(intents[i])

(* However a task ends, the center learns of it.                           *)
OutcomeReachesCenter == IsTerminal(rec) ~> projection = lastReport
=============================================================================

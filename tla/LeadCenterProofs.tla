-------------------------- MODULE LeadCenterProofs --------------------------
(***************************************************************************)
(* Proofs about the lead and the center.  Reports: the center sees every   *)
(* revision of a task in order, its projection never goes back, and what   *)
(* is pending parses.  Owner commands: the composition implements the      *)
(* gated lead, so what DurableLeadProofs shows of that lead carries over,  *)
(* and an acknowledged cancel has taken effect.                            *)
(***************************************************************************)
EXTENDS LeadReports, LeadCommands, DurableLeadProofs

-----------------------------------------------------------------------------
(* Reports.                                                                *)

(* What one event may do to the newest report.                             *)
Reported ==
  /\ lastReport'.status = rec'.state
  /\ rec'.attempt >= rec.attempt
  /\ \/ lastReport' = lastReport
     \/ /\ lastReport'.task_seq = lastReport.task_seq + 1
        /\ lastReport'.attempt = rec'.attempt
        /\ ~IsTerminal(rec)

(* The newest report names the state, and no attempt beyond the current.   *)
Told == lastReport.status = rec.state /\ lastReport.attempt <= rec.attempt

LEMMA RunEventReports ==
  ASSUME Core, Told, NEW e, RunEvent(e), e.rec \in LeadRecord, e.rec.attempt >= rec.attempt,
         IsTerminal(rec) => rec' = rec
  PROVE  Reported
<1>1. rec' = e.rec /\ task_seq \in Nat /\ lastReport.task_seq = task_seq
  BY DEF RunEvent, Core, ReportIsCurrent
<1>2. CASE e.rec.state # rec.state
  <2>1. /\ lastReport'.task_seq = task_seq + 1 /\ lastReport'.status = rec'.state
        /\ lastReport'.attempt = rec'.attempt
    BY <1>1, <1>2 DEF RunEvent
  <2>2. ~IsTerminal(rec) BY <1>1, <1>2
  <2> QED BY <1>1, <2>1, <2>2 DEF Reported
<1>3. CASE e.rec.state = rec.state
  <2>1. lastReport' = lastReport BY <1>3 DEF RunEvent
  <2> QED BY <1>1, <1>3, <2>1 DEF Reported, Told
<1> QED BY <1>2, <1>3

LEMMA CommitReports ==
  ASSUME Core, Told, NEW e, Keeps(rec, e), Commit(e), Effect
  PROVE  Reported
<1>1. PICK t \in Selection(e.rec) : RunEvent(DriveRedispatch(e, t)) BY DEF Commit
<1>2. /\ e.rec \in LeadRecord /\ e.rec.attempt = rec.attempt /\ rec.attempt \in Nat
      /\ IsTerminal(rec) => rec' = rec
  BY DEF Keeps, Typed, Effect, Core, Sound, LeadRecord
<1>3. CASE ~e.request \/ t = NoNode
  BY <1>1, <1>2, <1>3, RunEventReports DEF DriveRedispatch
<1>4. CASE e.request /\ t # NoNode
  <2>1. PICK f : f = DriveRedispatch(e, t) OBVIOUS
  <2>2. e.rec.state = "drafting" BY <1>4 DEF Keeps
  <2>3. PICK d \in LeadRecord : d = e.rec BY <1>2
  <2>4. f.rec.attempt = rec.attempt + 1
    <3>1. f.rec = Offer(d, t, d.attempt + 1).rec
      BY <1>4, <2>1, <2>2, <2>3 DEF DriveRedispatch, RedispatchTo
    <3>2. f.rec.attempt = d.attempt + 1 BY <3>1 DEF Offer, Goes, LeadRecord
    <3> QED BY <1>2, <2>3, <3>2
  <2>5. RunEvent(f) /\ f.rec = rec' BY <1>1, <2>1 DEF RunEvent
  <2>6. f.rec \in LeadRecord BY <2>5 DEF Effect, Core, Sound
  <2> QED BY <1>2, <2>4, <2>5, <2>6, RunEventReports
<1> QED BY <1>3, <1>4

LEMMA OfferReports ==
  ASSUME Core, Told, NEW n, RunEvent(Offer(rec, n, rec.attempt + 1)), Effect
  PROVE  Reported
<1>1. PICK f : f = Offer(rec, n, rec.attempt + 1) OBVIOUS
<1>2. rec \in LeadRecord /\ rec.attempt \in Nat BY DEF Core, Sound, LeadRecord
<1>3. f.rec.attempt = rec.attempt + 1 BY <1>1, <1>2 DEF Offer, Goes, LeadRecord
<1>4. RunEvent(f) /\ rec' = f.rec BY <1>1 DEF RunEvent
<1>5. f.rec \in LeadRecord /\ (IsTerminal(rec) => rec' = rec)
  BY <1>4 DEF Effect, Core, Sound
<1> QED BY <1>2, <1>3, <1>4, <1>5, RunEventReports

(* Every step of the lead reports what it did.                             *)
LEMMA NextReports ==
  ASSUME Inv, Told, Next
  PROVE  Reported
<1>0. Core /\ Sound(rec) /\ rec \in LeadRecord /\ rec.attempt \in Nat
  BY DEF Inv, Core, Sound, LeadRecord
<1>1. Effect BY NextEffect
<1>2. CASE Originate \/ TickFault \/ Restart
  BY <1>0, <1>2 DEF Originate, TickFault, Restart, Reported, Told
<1>3. ASSUME NEW n \in Nodes, Dispatch(n) PROVE Reported
  <2>1. rec.attempt = 0 /\ rec.state = "drafting" /\ RunEvent(DispatchTo(rec, n))
    BY <1>3 DEF Dispatch, Decodes, ValidTask
  <2>2. DispatchTo(rec, n) = Offer(rec, n, rec.attempt + 1) BY <2>1 DEF DispatchTo
  <2> QED BY <1>0, <1>1, <2>1, <2>2, OfferReports
<1>4. CASE Cancel
  <2>1. PICK e : e = CancelByUser(rec) OBVIOUS
  <2>2. Keeps(rec, e) /\ RunEvent(e) BY <1>0, <1>4, <2>1, CancelByUserKeeps DEF Cancel
  <2>3. e.rec \in LeadRecord /\ e.rec.attempt >= rec.attempt
    BY <1>0, <2>2 DEF Keeps, Typed
  <2>4. IsTerminal(rec) => rec' = rec BY <1>1 DEF Effect
  <2> QED BY <1>0, <2>2, <2>3, <2>4, RunEventReports
<1>5. CASE Redispatch
  <2>1. Keeps(rec, RedispatchByOwner(rec)) BY <1>0, RedispatchByOwnerKeeps
  <2> QED BY <1>0, <1>1, <1>5, <2>1, CommitReports DEF Redispatch
<1>6. ASSUME NEW o \in Offers, NEW m \in Answers(o), NEW applies \in BOOLEAN,
             Consume(m, applies)
      PROVE  Reported
  <2>1. CASE applies
    <3>1. m \in Received BY <1>0 DEF Received, Offers, Core
    <3>2. Keeps(rec, OnMessage(rec, m)) BY <1>0, <3>1, OnMessageKeeps
    <3>3. Commit(OnMessage(rec, m)) BY <1>6, <2>1 DEF Consume
    <3> QED BY <1>0, <1>1, <3>2, <3>3, CommitReports
  <2>2. CASE ~applies BY <1>0, <1>6, <2>2 DEF Consume, Reported, Told
  <2> QED BY <2>1, <2>2
<1>7. CASE TickTimer
  <2>1. Commit(OnTimer(rec, TimerOf(rec.state))) BY <1>7 DEF TickTimer
  <2>2. Keeps(rec, OnTimer(rec, TimerOf(rec.state))) BY <1>0, OnTimerKeeps
  <2> QED BY <1>0, <1>1, <2>1, <2>2, CommitReports
<1>8. CASE TickRedispatch
  <2>1. PICK n \in Candidates(rec) : RunEvent(RedispatchTo(rec, n))
    BY <1>8 DEF TickRedispatch
  <2>2. RedispatchTo(rec, n) = Offer(rec, n, rec.attempt + 1)
    BY <1>8 DEF TickRedispatch, RedispatchTo
  <2> QED BY <1>0, <1>1, <2>1, <2>2, OfferReports
<1>9. CASE Advance
  <2>1. rec'.state = rec.state /\ rec'.attempt = rec.attempt /\ lastReport' = lastReport
    BY <1>0, <1>9 DEF Advance, LeadRecord
  <2> QED BY <1>0, <2>1 DEF Reported, Told
<1> QED
  BY <1>2, <1>3, <1>4, <1>5, <1>6, <1>7, <1>8, <1>9 DEF Next, Tick

-----------------------------------------------------------------------------
(* The pending intents are the last revisions, in order; the projection is *)
(* the revision before the oldest of them, or that one; nothing beyond it  *)
(* has been posted; attempts never decrease; only the last revision can be *)
(* a terminal one.                                                         *)
Newer == lastReport.task_seq - Len(intents)

PipeInv ==
  /\ intents \in Seq(Reports) /\ posts \subseteq Reports /\ projection \in Reports
  /\ \A i \in 1..Len(intents) :
       /\ intents[i].task_seq = Newer + i
       /\ intents[i].attempt <= lastReport.attempt
       /\ projection.attempt <= intents[i].attempt
       /\ i = Len(intents) => intents[i] = lastReport
       /\ intents[i].status \in Terminal => i = Len(intents)
       /\ \A j \in i..Len(intents) : intents[i].attempt <= intents[j].attempt
  /\ IF Len(intents) = 0 THEN projection = lastReport
     ELSE projection.task_seq = Newer \/ projection = intents[1]
  /\ projection.attempt <= lastReport.attempt
  /\ projection.status \in Terminal => projection = lastReport
  /\ \A r \in posts : \/ r.task_seq <= Newer
                      \/ Len(intents) > 0 /\ r = intents[1]

AllInv == Inv /\ Told /\ PipeInv

LEMMA PipeInit == ReportsInit => AllInv
<1> SUFFICES ASSUME ReportsInit PROVE AllInv OBVIOUS
<1>1. Inv BY InitInv DEF ReportsInit
<1>2. Told BY DEF ReportsInit, Init, Told, NewRecord, NoReport
<1>3. NoReport \in Reports BY <1>1 DEF ReportsInit, Init, Inv, TypeOK
<1>4. PipeInv BY <1>3 DEF ReportsInit, Init, PipeInv, NoReport
<1> QED BY <1>1, <1>2, <1>4 DEF AllInv

(* The lead moves: at most one revision is appended.                       *)
LEMMA LeadStepPipe ==
  ASSUME AllInv, ReportingStep
  PROVE  AllInv'
<1>0. Inv /\ Told /\ PipeInv /\ Next BY DEF AllInv, ReportingStep
<1>1. Inv' BY <1>0, StepInv
<1>2. Reported BY <1>0, NextReports
<1>3. /\ lastReport \in Reports /\ lastReport' \in Reports
      /\ rec \in LeadRecord /\ rec' \in LeadRecord
      /\ rec.attempt \in Nat /\ rec'.attempt \in Nat
  BY <1>0, <1>1 DEF Inv, TypeOK, LeadRecord
<1>4. /\ lastReport.attempt \in Nat /\ lastReport'.attempt \in Nat
      /\ lastReport.task_seq \in Nat /\ lastReport'.task_seq \in Nat
  BY <1>3 DEF Reports
<1>5. Told' BY <1>0, <1>2, <1>3, <1>4 DEF Told, Reported
<1>6. UNCHANGED <<posts, projection>> BY DEF ReportingStep
<1>7. CASE lastReport' = lastReport
  <2>1. intents' = intents BY <1>7 DEF ReportingStep, AppendIntent
  <2>2. PipeInv' BY <1>0, <1>6, <1>7, <2>1 DEF PipeInv, Newer
  <2> QED BY <1>1, <1>5, <2>2 DEF AllInv
<1>8. CASE lastReport' # lastReport
  <2>1. /\ intents' = Append(intents, lastReport') /\ intents \in Seq(Reports)
        /\ lastReport'.task_seq = lastReport.task_seq + 1
        /\ lastReport'.attempt >= lastReport.attempt /\ lastReport.status \notin Terminal
    BY <1>0, <1>2, <1>3, <1>4, <1>8
       DEF ReportingStep, AppendIntent, PipeInv, Reported, Told, IsTerminal
  <2>2. /\ intents' \in Seq(Reports) /\ Len(intents') = Len(intents) + 1
        /\ Len(intents) \in Nat
        /\ \A i \in 1..Len(intents) : intents'[i] = intents[i]
        /\ intents'[Len(intents) + 1] = lastReport'
    BY <1>3, <2>1
  <2>3. Newer' = Newer /\ Newer \in Int BY <1>4, <2>1, <2>2 DEF Newer
  <2>4. \A i \in 1..Len(intents') : i \in 1..Len(intents) \/ i = Len(intents) + 1
    BY <2>2
  <2>5. \A i \in 1..Len(intents) : intents[i].attempt \in Nat /\ intents[i].status \notin Terminal
    <3>1. \A i \in 1..Len(intents) : intents[i] \in Reports BY <2>1
    <3>2. \A i \in 1..Len(intents) : intents[i].attempt \in Nat BY <3>1 DEF Reports
    <3>3. ASSUME NEW i \in 1..Len(intents) PROVE intents[i].status \notin Terminal
      BY <1>0, <2>1 DEF PipeInv
    <3> QED BY <3>2, <3>3
  <2>6. projection.attempt \in Nat /\ projection.task_seq \in Nat
    BY <1>0 DEF PipeInv, Reports
  <2>7. ASSUME NEW i \in 1..Len(intents')
        PROVE  /\ intents'[i].task_seq = Newer' + i
               /\ intents'[i].attempt <= lastReport'.attempt
               /\ projection'.attempt <= intents'[i].attempt
               /\ i = Len(intents') => intents'[i] = lastReport'
               /\ intents'[i].status \in Terminal => i = Len(intents')
               /\ \A j \in i..Len(intents') : intents'[i].attempt <= intents'[j].attempt
    <3>1. CASE i \in 1..Len(intents)
      <4>1. /\ intents[i].task_seq = Newer + i /\ intents[i].attempt <= lastReport.attempt
            /\ projection.attempt <= intents[i].attempt /\ intents[i].attempt \in Nat
            /\ \A j \in i..Len(intents) : intents[i].attempt <= intents[j].attempt
        BY <1>0, <2>5, <3>1 DEF PipeInv
      <4>2. intents[i].attempt <= lastReport'.attempt BY <1>4, <2>1, <4>1
      <4>3. \A j \in i..Len(intents') : j \in i..Len(intents) \/ j = Len(intents) + 1
        BY <2>2
      <4>4. \A j \in i..Len(intents) : j \in 1..Len(intents) BY <2>2
      <4>5. \A j \in i..Len(intents') : intents'[i].attempt <= intents'[j].attempt
        BY <2>2, <3>1, <4>1, <4>2, <4>3, <4>4
      <4> QED BY <1>6, <2>2, <2>3, <2>5, <3>1, <4>1, <4>2, <4>5
    <3>2. CASE i = Len(intents) + 1
      <4>1. intents'[i] = lastReport' /\ i = Len(intents') BY <2>2, <3>2
      <4>2. lastReport'.task_seq = Newer' + i
        BY <1>4, <2>1, <2>2, <2>3, <3>2 DEF Newer
      <4>3. projection.attempt <= lastReport'.attempt
        BY <1>0, <1>4, <2>1, <2>6 DEF PipeInv
      <4>4. \A j \in i..Len(intents') : j = i BY <2>2, <3>2
      <4> QED BY <1>4, <1>6, <4>1, <4>2, <4>3, <4>4
    <3> QED BY <2>4, <3>1, <3>2
  <2>8. Len(intents') # 0 /\ (projection'.task_seq = Newer' \/ projection' = intents'[1])
    <3>1. CASE Len(intents) = 0
      BY <1>0, <1>4, <1>6, <2>2, <2>3, <3>1 DEF PipeInv, Newer
    <3>2. CASE Len(intents) # 0
      BY <1>0, <1>6, <2>2, <2>3, <3>2 DEF PipeInv
    <3> QED BY <3>1, <3>2
  <2>9. projection'.attempt <= lastReport'.attempt
    BY <1>0, <1>4, <1>6, <2>1, <2>6 DEF PipeInv
  <2>10. projection'.status \notin Terminal
    BY <1>0, <1>6, <2>1 DEF PipeInv
  <2>11. \A r \in posts' : \/ r.task_seq <= Newer'
                           \/ Len(intents') > 0 /\ r = intents'[1]
    BY <1>0, <1>6, <2>2, <2>3 DEF PipeInv
  <2>12. posts' \subseteq Reports /\ projection' \in Reports BY <1>0, <1>6 DEF PipeInv
  <2>13. PipeInv' BY <2>2, <2>7, <2>8, <2>9, <2>10, <2>11, <2>12 DEF PipeInv
  <2> QED BY <1>1, <1>5, <2>13 DEF AllInv
<1> QED BY <1>7, <1>8

LEMMA PostPipe ==
  ASSUME AllInv, Post
  PROVE  AllInv'
<1>1. /\ UNCHANGED vars /\ UNCHANGED <<intents, projection>>
      /\ intents # <<>> /\ intents \in Seq(Reports)
      /\ posts' = posts \cup {intents[1]}
  BY DEF AllInv, PipeInv, Post, Oldest
<1>2. UNCHANGED <<rec, lastReport>> BY <1>1 DEF vars
<1>3. Inv' /\ Told' BY <1>1, <1>2, StepInv DEF AllInv, Told
<1>4. Len(intents) > 0 /\ intents[1] \in Reports BY <1>1
<1>5. PipeInv' BY <1>1, <1>2, <1>4 DEF AllInv, PipeInv, Newer
<1> QED BY <1>3, <1>5 DEF AllInv

-----------------------------------------------------------------------------
(* A report that supersedes the projection is the oldest pending one.      *)
LEMMA OnlyHeadSupersedes ==
  ASSUME PipeInv, lastReport.task_seq \in Nat, NEW r \in posts, Supersedes(r)
  PROVE  Len(intents) > 0 /\ r = intents[1] /\ projection.task_seq = Newer
<1>1. /\ r.task_seq > projection.task_seq
      /\ projection.task_seq \in Nat /\ r.task_seq \in Nat /\ Len(intents) \in Nat
  BY DEF Supersedes, PipeInv, Reports
<1>2. Newer \in Int BY <1>1 DEF Newer
<1>3. Len(intents) = 0 => projection.task_seq = Newer BY <1>1 DEF PipeInv, Newer
<1>4. Len(intents) > 0 => intents[1].task_seq = Newer + 1 BY <1>1 DEF PipeInv
<1>5. projection.task_seq >= Newer BY <1>1, <1>2, <1>3, <1>4 DEF PipeInv
<1>6. Len(intents) > 0 /\ r = intents[1] BY <1>1, <1>2, <1>5 DEF PipeInv
<1> QED BY <1>1, <1>2, <1>4, <1>6 DEF PipeInv

(* An intent is only completed once the center has recorded it.            *)
LEMMA CompletedIsRecorded ==
  ASSUME PipeInv, lastReport.task_seq \in Nat, NEW r \in posts, NEW answered,
         ReportTask(r, answered), Completes(r, answered)
  PROVE  Len(intents) > 0 /\ r = intents[1] /\ projection' = r
<1>1. Len(intents) > 0 /\ r = intents[1] /\ Len(intents) \in Nat /\ r \in Reports
  BY DEF Completes, PipeInv
<1>2. r.task_seq = Newer + 1 /\ projection.attempt <= r.attempt
      /\ r.task_seq \in Nat /\ r.attempt \in Nat
      /\ projection.task_seq \in Nat /\ projection.attempt \in Nat
      /\ Newer \in Int
  BY <1>1 DEF PipeInv, Reports, Newer
<1>3. CASE projection = r BY <1>1, <1>2, <1>3 DEF ReportTask, Supersedes
<1>4. CASE projection # r
  <2>1. projection.task_seq = Newer BY <1>1, <1>4 DEF PipeInv
  <2> QED BY <1>1, <1>2, <2>1 DEF ReportTask, Supersedes
<1> QED BY <1>3, <1>4

LEMMA ReportTaskPipe ==
  ASSUME AllInv, NEW r \in posts, NEW answered \in BOOLEAN, ReportTask(r, answered)
  PROVE  AllInv'
<1>0. Inv /\ Told /\ PipeInv /\ lastReport.task_seq \in Nat
  BY DEF AllInv, Inv, TypeOK, Reports
<1>1. UNCHANGED vars /\ posts' = posts /\ UNCHANGED <<rec, lastReport>>
  BY DEF ReportTask, vars
<1>2. Inv' /\ Told' BY <1>0, <1>1, StepInv DEF Told
<1>3. CASE Completes(r, answered)
  <2>1. Len(intents) > 0 /\ r = intents[1] /\ projection' = r
        /\ intents' = Tail(intents) /\ intents \in Seq(Reports) /\ intents # <<>>
    BY <1>0, <1>3, CompletedIsRecorded DEF ReportTask, CompleteEffect, PipeInv
  <2>2. /\ Len(intents') = Len(intents) - 1 /\ intents' \in Seq(Reports)
        /\ Len(intents) \in Nat
        /\ \A i \in 1..Len(intents') : i + 1 \in 1..Len(intents) /\ intents'[i] = intents[i + 1]
    BY <2>1
  <2>3. Newer' = Newer + 1 /\ Newer \in Int BY <1>0, <1>1, <2>2 DEF Newer
  <2>4. /\ r \in Reports /\ r.task_seq = Newer' /\ r.attempt <= lastReport.attempt
        /\ r.status \in Terminal => Len(intents) = 1
        /\ Len(intents) = 1 => r = lastReport
        /\ \A j \in 1..Len(intents) : r.attempt <= intents[j].attempt
    <3>1. 1 \in 1..Len(intents) /\ r \in Reports BY <2>1, <2>2
    <3>2. r.task_seq = Newer' BY <1>0, <2>1, <2>3, <3>1 DEF PipeInv
    <3> QED BY <1>0, <2>1, <3>1, <3>2 DEF PipeInv
  <2>5. ASSUME NEW i \in 1..Len(intents')
        PROVE  /\ intents'[i].task_seq = Newer' + i
               /\ intents'[i].attempt <= lastReport'.attempt
               /\ projection'.attempt <= intents'[i].attempt
               /\ i = Len(intents') => intents'[i] = lastReport'
               /\ intents'[i].status \in Terminal => i = Len(intents')
               /\ \A j \in i..Len(intents') : intents'[i].attempt <= intents'[j].attempt
    <3>1. i + 1 \in 1..Len(intents) /\ intents'[i] = intents[i + 1] BY <2>2
    <3>2. /\ intents[i + 1].task_seq = Newer + (i + 1)
          /\ intents[i + 1].attempt <= lastReport.attempt
          /\ i + 1 = Len(intents) => intents[i + 1] = lastReport
          /\ intents[i + 1].status \in Terminal => i + 1 = Len(intents)
          /\ \A j \in (i + 1)..Len(intents) : intents[i + 1].attempt <= intents[j].attempt
      BY <1>0, <3>1 DEF PipeInv
    <3>3. \A j \in i..Len(intents') : /\ j + 1 \in (i + 1)..Len(intents)
                                      /\ intents'[j] = intents[j + 1]
      BY <2>2
    <3>4. \A j \in i..Len(intents') : intents'[i].attempt <= intents'[j].attempt
      BY <3>1, <3>2, <3>3
    <3>5. i + 1 = Len(intents) <=> i = Len(intents') BY <2>2
    <3>6. Newer + (i + 1) = Newer' + i BY <2>3
    <3> QED BY <1>1, <2>1, <2>4, <3>1, <3>2, <3>4, <3>5, <3>6
  <2>6. IF Len(intents') = 0 THEN projection' = lastReport'
        ELSE projection'.task_seq = Newer' \/ projection' = intents'[1]
    BY <1>1, <2>1, <2>2, <2>4
  <2>7. projection'.attempt <= lastReport'.attempt
        /\ (projection'.status \in Terminal => projection' = lastReport')
    BY <1>1, <2>1, <2>4
  <2>8. \A q \in posts' : q.task_seq <= Newer'
    <3>1. \A q \in posts : q.task_seq \in Nat BY <1>0 DEF PipeInv, Reports
    <3>2. \A q \in posts : q.task_seq <= Newer \/ q = r BY <1>0, <2>1 DEF PipeInv
    <3>3. r.task_seq <= Newer' BY <2>3, <2>4
    <3> QED BY <1>1, <2>3, <3>1, <3>2, <3>3
  <2>9. posts' \subseteq Reports /\ projection' \in Reports BY <1>0, <1>1, <2>1, <2>4 DEF PipeInv
  <2>10. PipeInv' BY <2>2, <2>5, <2>6, <2>7, <2>8, <2>9 DEF PipeInv
  <2> QED BY <1>2, <2>10 DEF AllInv
<1>4. CASE ~Completes(r, answered)
  <2>1. intents' = intents /\ Newer' = Newer BY <1>1, <1>4 DEF ReportTask, Newer
  <2>2. CASE ~Supersedes(r)
    <3>1. projection' = projection BY <2>2 DEF ReportTask
    <3>2. PipeInv' BY <1>0, <1>1, <2>1, <3>1 DEF PipeInv
    <3> QED BY <1>2, <3>2 DEF AllInv
  <2>3. CASE Supersedes(r)
    <3>1. /\ projection' = r /\ Len(intents) > 0 /\ Len(intents) \in Nat /\ r = intents[1]
          /\ r \in Reports
      BY <1>0, <2>3, OnlyHeadSupersedes DEF ReportTask, PipeInv
    <3>2. /\ r.attempt <= lastReport.attempt
          /\ \A j \in 1..Len(intents) : r.attempt <= intents[j].attempt
          /\ r.status \in Terminal => r = lastReport
      BY <1>0, <3>1 DEF PipeInv
    <3>3. PipeInv' BY <1>0, <1>1, <2>1, <3>1, <3>2 DEF PipeInv
    <3> QED BY <1>2, <3>3 DEF AllInv
  <2> QED BY <2>2, <2>3
<1> QED BY <1>3, <1>4

-----------------------------------------------------------------------------
(* AllInv holds in every reachable state.                                  *)
THEOREM ReportsInvariance == ReportsSpec => []AllInv
<1>1. AllInv /\ [ReportsNext]_reportVars => AllInv'
  <2> SUFFICES ASSUME AllInv, [ReportsNext]_reportVars PROVE AllInv' OBVIOUS
  <2>1. CASE UNCHANGED reportVars
    <3>1. /\ UNCHANGED vars /\ UNCHANGED <<intents, posts, projection>>
          /\ UNCHANGED <<rec, lastReport>>
      BY <2>1 DEF reportVars, vars
    <3>2. Inv' /\ Told' BY <3>1, StepInv DEF AllInv, Told
    <3>3. PipeInv' BY <3>1 DEF AllInv, PipeInv, Newer
    <3> QED BY <3>2, <3>3 DEF AllInv
  <2> QED BY <2>1, LeadStepPipe, PostPipe, ReportTaskPipe DEF ReportsNext
<1> QED BY <1>1, PipeInit, PTL DEF ReportsSpec

(* The center sees every revision of a task, in order, whatever posts and  *)
(* answers are lost, late or repeated (flush, reportTask).                 *)
THEOREM NoRevisionSkipped == ReportsSpec => []NothingSkipped
<1>1. AllInv => NothingSkipped
  <2> SUFFICES ASSUME AllInv PROVE NothingSkipped OBVIOUS
  <2>1. /\ PipeInv /\ lastReport.task_seq \in Nat /\ intents \in Seq(Reports)
        /\ Len(intents) \in Nat /\ projection \in Reports /\ Newer \in Int
    BY DEF AllInv, Inv, TypeOK, PipeInv, Reports, Newer
  <2>2. CASE intents = <<>> BY <2>1, <2>2 DEF NothingSkipped, PipeInv
  <2>3. CASE intents # <<>>
    <3>1. Len(intents) > 0 /\ Head(intents) = intents[1] BY <2>1, <2>3
    <3>2. \A i \in 1..Len(intents) : intents[i].task_seq = Newer + i BY <2>1 DEF PipeInv
    <3>3. intents[1].task_seq = Newer + 1 BY <2>1, <3>1, <3>2
    <3>4. \A i \in 1..Len(intents) : intents[i].task_seq = intents[1].task_seq + i - 1
      BY <2>1, <3>2, <3>3
    <3>5. intents[Len(intents)] = lastReport BY <2>1, <3>1 DEF PipeInv
    <3>6. projection.task_seq \in {intents[1].task_seq - 1, intents[1].task_seq}
      BY <2>1, <3>1, <3>3 DEF PipeInv
    <3> QED BY <2>3, <3>1, <3>4, <3>5, <3>6 DEF NothingSkipped
  <2> QED BY <2>2, <2>3
<1> QED BY <1>1, ReportsInvariance, PTL

(* The projection never goes back, and a task shown as over stays so       *)
(* (reportTask).                                                           *)
THEOREM ProjectionMonotonic == ReportsSpec => ProjectionNeverGoesBack
<1>1. AllInv /\ [ReportsNext]_reportVars =>
        [/\ projection'.task_seq >= projection.task_seq
         /\ projection'.attempt >= projection.attempt
         /\ projection.status \in Terminal => projection' = projection]_reportVars
  <2> SUFFICES ASSUME AllInv, ReportsNext
               PROVE  /\ projection'.task_seq >= projection.task_seq
                      /\ projection'.attempt >= projection.attempt
                      /\ projection.status \in Terminal => projection' = projection
    OBVIOUS
  <2>1. PipeInv /\ lastReport.task_seq \in Nat /\ projection \in Reports /\ posts \subseteq Reports
        /\ projection.task_seq \in Nat /\ projection.attempt \in Nat /\ Len(intents) \in Nat
    BY DEF AllInv, Inv, TypeOK, PipeInv, Reports
  <2>2. CASE ReportingStep \/ Post BY <2>1, <2>2 DEF ReportingStep, Post
  <2>3. ASSUME NEW r \in posts, NEW answered \in BOOLEAN, ReportTask(r, answered)
        PROVE  /\ projection'.task_seq >= projection.task_seq
               /\ projection'.attempt >= projection.attempt
               /\ projection.status \in Terminal => projection' = projection
    <3>1. CASE ~Supersedes(r) BY <2>1, <2>3, <3>1 DEF ReportTask
    <3>2. CASE Supersedes(r)
      <4>1. projection' = r /\ r.task_seq \in Nat /\ r.attempt \in Nat
        BY <2>1, <2>3, <3>2 DEF ReportTask, Reports
      <4>2. Len(intents) > 0 /\ projection.task_seq = Newer
        BY <2>1, <3>2, OnlyHeadSupersedes
      <4>3. projection # lastReport BY <2>1, <4>2 DEF Newer
      <4>4. projection.status \notin Terminal BY <2>1, <4>3 DEF PipeInv
      <4> QED BY <2>1, <3>2, <4>1, <4>4 DEF Supersedes
    <3> QED BY <3>1, <3>2
  <2> QED BY <2>2, <2>3 DEF ReportsNext
<1> QED BY <1>1, ReportsInvariance, PTL DEF ReportsSpec, ProjectionNeverGoesBack

(* Every pending report parses when owner commands pass the center         *)
(* (parseTaskReport, parseTaskProjection).                                 *)
THEOREM GatedReportsParse == CenterGated => (ReportsSpec => []ReportsParse)
<1> SUFFICES ASSUME CenterGated PROVE ReportsSpec => []ReportsParse OBVIOUS
<1>1. ReportsInit => Gate /\ ReportsParse
  BY DEF ReportsInit, Init, Gate, NewRecord, NoReport, ReportsParse
<1>2. AllInv /\ Gate /\ ReportsParse /\ [ReportsNext]_reportVars => Gate' /\ ReportsParse'
  <2> SUFFICES ASSUME AllInv, Gate, ReportsParse, [ReportsNext]_reportVars
               PROVE  Gate' /\ ReportsParse'
    OBVIOUS
  <2>0. intents \in Seq(Reports) /\ Inv /\ Told BY DEF AllInv, PipeInv
  <2>1. CASE ReportingStep
    <3>1. Next BY <2>1 DEF ReportingStep
    <3>2. Gate' BY <2>0, <3>1, GatedStep
    <3>3. Reported BY <2>0, <3>1, NextReports
    <3>4. Inv' BY <2>0, <3>1, StepInv
    <3>5. CASE lastReport' = lastReport
      BY <2>1, <3>2, <3>5 DEF ReportingStep, AppendIntent, ReportsParse, Parses
    <3>6. CASE lastReport' # lastReport
      <4>1. /\ lastReport.task_seq \in Nat /\ lastReport'.task_seq = lastReport.task_seq + 1
            /\ lastReport'.attempt = rec'.attempt /\ rec'.attempt \in Nat
            /\ lastReport' \in Reports
        BY <2>0, <3>3, <3>4, <3>6 DEF Inv, TypeOK, Reports, LeadRecord, Reported
      <4>2. lastReport' # NoReport BY <4>1 DEF NoReport
      <4>3. lastReport'.attempt >= 1 BY <3>2, <4>1, <4>2 DEF Gate
      <4>4. intents' = Append(intents, lastReport') BY <2>1, <3>6 DEF ReportingStep, AppendIntent
      <4>5. /\ Len(intents') = Len(intents) + 1 /\ Len(intents) \in Nat
            /\ \A i \in 1..Len(intents) : intents'[i] = intents[i]
            /\ intents'[Len(intents) + 1] = lastReport'
        BY <2>0, <4>1, <4>4
      <4>6. \A i \in 1..Len(intents') : i \in 1..Len(intents) \/ i = Len(intents) + 1
        BY <4>5
      <4> QED BY <3>2, <4>3, <4>5, <4>6 DEF ReportsParse, Parses
    <3> QED BY <3>5, <3>6
  <2>2. CASE Post \/ UNCHANGED reportVars
    <3>1. UNCHANGED <<rec, task_seq, lastReport, intents>>
      BY <2>2 DEF Post, reportVars, vars
    <3> QED BY <3>1 DEF Gate, ReportsParse, Parses
  <2>3. ASSUME NEW r \in posts, NEW answered \in BOOLEAN, ReportTask(r, answered)
        PROVE  Gate' /\ ReportsParse'
    <3>1. UNCHANGED <<rec, task_seq, lastReport>> BY <2>3 DEF ReportTask, vars
    <3>2. CASE intents' = intents BY <3>1, <3>2 DEF Gate, ReportsParse, Parses
    <3>3. CASE intents' # intents
      <4>1. intents' = Tail(intents) /\ intents # <<>>
        BY <2>3, <3>3 DEF ReportTask, CompleteEffect, Completes
      <4>2. \A i \in 1..Len(intents') : i + 1 \in 1..Len(intents) /\ intents'[i] = intents[i + 1]
        BY <2>0, <4>1
      <4> QED BY <3>1, <4>2 DEF Gate, ReportsParse, Parses
    <3> QED BY <3>2, <3>3
  <2> QED BY <2>1, <2>2, <2>3 DEF ReportsNext
<1> QED BY <1>1, <1>2, ReportsInvariance, PTL DEF ReportsSpec

-----------------------------------------------------------------------------
(* Owner commands.                                                         *)

Stopped(r) == r.state = "cancelling" \/ IsTerminal(r)

(* The queue holds commands of a reported task only, a command has left it *)
(* only after an acknowledgement, and an acknowledgement is only sent      *)
(* after the command was applied.                                          *)
QueueInv ==
  /\ commands \in Seq(CommandRecord)
  /\ acks \subseteq 1..Len(commands)
  /\ projected => lastReport # NoReport
  /\ Len(commands) > 0 => projected
  /\ \A i \in 1..Len(commands) : ~Pending(i) => i \in acks
  /\ \A i \in acks : commands[i].kind = "cancel" => Stopped(rec)

LEMMA StaysReported ==
  ASSUME task_seq \in Nat, lastReport # NoReport, NEW e, RunEvent(e)
  PROVE  lastReport' # NoReport
BY DEF RunEvent, NoReport

(* A reported task stays reported, and a stopped one stopped.              *)
LEMMA LeadKeeps ==
  ASSUME Inv, [Next]_vars
  PROVE  /\ lastReport # NoReport => lastReport' # NoReport
         /\ Stopped(rec) => Stopped(rec')
<1>1. task_seq \in Nat BY DEF Inv, TypeOK
<1>2. Stopped(rec) => Stopped(rec')
  <2>1. CASE Next
    BY <2>1, NextEffect DEF Effect, Stopped, IsTerminal, Terminal
  <2>2. CASE UNCHANGED vars BY <2>2 DEF vars, Stopped
  <2> QED BY <2>1, <2>2
<1>3. ASSUME lastReport # NoReport PROVE lastReport' # NoReport
  <2>1. ASSUME NEW e, Commit(e) PROVE lastReport' # NoReport
    BY <1>1, <1>3, <2>1, StaysReported DEF Commit
  <2>2. CASE Originate \/ TickFault \/ Restart \/ Advance \/ UNCHANGED vars
    BY <1>3, <2>2 DEF Originate, TickFault, Restart, Advance, vars
  <2>3. ASSUME NEW n \in Nodes, Dispatch(n) PROVE lastReport' # NoReport
    BY <1>1, <1>3, <2>3, StaysReported DEF Dispatch
  <2>4. CASE Cancel BY <1>1, <1>3, <2>4, StaysReported DEF Cancel
  <2>5. CASE Redispatch BY <2>1, <2>5 DEF Redispatch
  <2>6. ASSUME NEW o \in Offers, NEW m \in Answers(o), NEW applies \in BOOLEAN,
               Consume(m, applies)
        PROVE  lastReport' # NoReport
    BY <1>3, <2>1, <2>6 DEF Consume
  <2>7. CASE TickTimer BY <2>1, <2>7 DEF TickTimer
  <2>8. CASE TickRedispatch BY <1>1, <1>3, <2>8, StaysReported DEF TickRedispatch
  <2> QED BY <2>2, <2>3, <2>4, <2>5, <2>6, <2>7, <2>8 DEF Next, Tick
<1> QED BY <1>2, <1>3

-----------------------------------------------------------------------------
(* Every step of the composition is a step of the gated lead.              *)
LEMMA StepImplements ==
  ASSUME QueueInv, [CommandsNext]_commandVars
  PROVE  [Next]_vars
<1>1. CASE LeadStep BY <1>1 DEF LeadStep, Next, Tick
<1>2. CASE Project \/ Pull \/ CrashRestart \/ UNCHANGED commandVars
  BY <1>2 DEF Project, Pull, CrashRestart, commandVars, vars
<1>3. CASE \E kind \in {"cancel", "redispatch"} : Enqueue(kind)
  BY <1>3 DEF Enqueue, vars
<1>4. CASE \E i \in 1..Len(commands) : Ack(i)
  BY <1>4 DEF Ack, vars
<1>5. ASSUME NEW i \in 1..Len(commands), NEW sent \in BOOLEAN, Apply(i, sent) PROVE Next
  <2>1. Commanded
    <3>1. Len(commands) \in Nat BY DEF QueueInv
    <3>2. Len(commands) > 0 BY <1>5, <3>1
    <3> QED BY <3>2 DEF QueueInv, Commanded
  <2>2. CASE commands[i].kind = "cancel"
    BY <1>5, <2>1, <2>2 DEF Apply, ApplyCommand, Next, Cancel
  <2>3. CASE commands[i].kind # "cancel"
    BY <1>5, <2>1, <2>3 DEF Apply, ApplyCommand, Next, Redispatch
  <2> QED BY <2>2, <2>3
<1> QED BY <1>1, <1>2, <1>3, <1>4, <1>5 DEF CommandsNext

LEMMA QueueInit == CommandsInit => QueueInv
BY DEF CommandsInit, QueueInv, Init, NoReport

(* The center's steps and the node's steps other than Apply.               *)
LEMMA EnqueueKeeps ==
  ASSUME QueueInv, NEW kind \in {"cancel", "redispatch"}, Enqueue(kind)
  PROVE  QueueInv'
<1>1. PICK c \in CommandRecord : c = [kind |-> kind, status |-> "pending"]
  BY DEF CommandRecord
<1>2. commands' = Append(commands, c) /\ commands \in Seq(CommandRecord) /\ projected
  BY <1>1 DEF Enqueue, QueueInv
<1>3. /\ commands' \in Seq(CommandRecord) /\ Len(commands') = Len(commands) + 1
      /\ Len(commands) \in Nat
      /\ \A i \in 1..Len(commands) : commands'[i] = commands[i]
      /\ commands'[Len(commands) + 1] = c
  BY <1>2
<1>4. UNCHANGED <<lastReport, rec, projected, acks>> BY DEF Enqueue, vars
<1>5. \A i \in 1..Len(commands') : i \in 1..Len(commands) \/ i = Len(commands) + 1
  BY <1>3
<1>6. \A i \in 1..Len(commands') : ~Pending(i)' => i \in acks'
  BY <1>1, <1>3, <1>4, <1>5 DEF Pending, QueueInv
<1>7. acks' \subseteq 1..Len(commands') BY <1>3, <1>4 DEF QueueInv
<1>8. \A i \in acks' : commands'[i].kind = "cancel" => Stopped(rec')
  BY <1>3, <1>4 DEF QueueInv
<1> QED BY <1>2, <1>3, <1>4, <1>6, <1>7, <1>8 DEF QueueInv

LEMMA AckKeeps ==
  ASSUME QueueInv, NEW i \in 1..Len(commands), Ack(i)
  PROVE  QueueInv'
<1>1. /\ commands \in Seq(CommandRecord) /\ i \in acks
      /\ commands' = [commands EXCEPT ![i].status = "acked"]
      /\ UNCHANGED <<lastReport, rec, projected, acks>>
  BY DEF Ack, QueueInv, vars
<1>2. commands[i] \in CommandRecord BY <1>1
<1>3. [commands[i] EXCEPT !.status = "acked"] \in CommandRecord BY <1>2 DEF CommandRecord
<1>4. commands' \in Seq(CommandRecord) /\ Len(commands') = Len(commands) BY <1>1, <1>3
<1>5. \A j \in 1..Len(commands) : j # i => commands'[j] = commands[j] BY <1>1
<1>6. commands'[i].kind = commands[i].kind BY <1>1, <1>2 DEF CommandRecord
<1>7. \A j \in 1..Len(commands') : ~Pending(j)' => j \in acks'
  BY <1>1, <1>4, <1>5 DEF Pending, QueueInv
<1>8. \A j \in acks' : commands'[j].kind = "cancel" => Stopped(rec')
  BY <1>1, <1>5, <1>6 DEF QueueInv
<1> QED BY <1>1, <1>4, <1>7, <1>8 DEF QueueInv

(* The lead moves on its own, or applies a command.                        *)
LEMMA LeadStepKeeps ==
  ASSUME Inv, QueueInv, [Next]_vars, UNCHANGED <<projected, commands>>,
         NEW i, acks' \subseteq acks \cup {i},
         acks \subseteq acks',
         i \in acks' => i \in 1..Len(commands),
         i \in acks' \ acks /\ commands[i].kind = "cancel" => Stopped(rec')
  PROVE  QueueInv'
<1>1. /\ lastReport # NoReport => lastReport' # NoReport
      /\ Stopped(rec) => Stopped(rec')
  BY LeadKeeps
<1>2. \A j \in 1..Len(commands') : ~Pending(j)' => j \in acks'
  BY DEF QueueInv, Pending
<1>3. \A j \in acks' : commands'[j].kind = "cancel" => Stopped(rec')
  BY <1>1 DEF QueueInv
<1> QED BY <1>1, <1>2, <1>3 DEF QueueInv

LEMMA CancelStops ==
  ASSUME Inv, RunEvent(CancelByUser(rec))
  PROVE  Stopped(rec')
<1>1. rec \in LeadRecord BY DEF Inv, TypeOK
<1>2. rec' = CancelByUser(rec).rec BY DEF RunEvent
<1> QED BY <1>1, <1>2 DEF CancelByUser, Stay, Goes, Stopped, LeadRecord

LEMMA QueueStep ==
  ASSUME Inv, QueueInv, [CommandsNext]_commandVars
  PROVE  QueueInv'
<1>0. [Next]_vars BY StepImplements
<1>1. ASSUME UNCHANGED <<projected, commands, acks>> PROVE QueueInv'
  BY <1>0, <1>1, LeadStepKeeps DEF QueueInv
<1>2. CASE LeadStep BY <1>1, <1>2 DEF LeadStep, queueVars
<1>3. CASE Project
  BY <1>3 DEF Project, vars, QueueInv, Pending
<1>4. CASE Pull \/ CrashRestart \/ UNCHANGED commandVars
  BY <1>1, <1>4 DEF Pull, CrashRestart, commandVars, queueVars
<1>5. ASSUME NEW i \in 1..Len(commands), NEW sent \in BOOLEAN, Apply(i, sent) PROVE QueueInv'
  <2>1. /\ UNCHANGED <<projected, commands>>
        /\ acks' = acks \/ acks' = acks \cup {i}
    BY <1>5 DEF Apply, AckCommand
  <2>2. commands[i].kind = "cancel" => Stopped(rec')
    BY <1>5, CancelStops DEF Apply, ApplyCommand
  <2> QED BY <1>0, <2>1, <2>2, LeadStepKeeps
<1> QED BY <1>2, <1>3, <1>4, <1>5, EnqueueKeeps, AckKeeps DEF CommandsNext

-----------------------------------------------------------------------------
(* Inv and QueueInv hold in every reachable state of the composition.      *)
THEOREM QueueInvariance == CommandsSpec => [](Inv /\ QueueInv)
<1>1. CommandsInit => Inv /\ QueueInv
  BY InitInv, QueueInit DEF CommandsInit
<1>2. Inv /\ QueueInv /\ [CommandsNext]_commandVars => (Inv /\ QueueInv)'
  BY StepImplements, StepInv, QueueStep
<1> QED BY <1>1, <1>2, PTL DEF CommandsSpec

(* Commands that come through the center's queue never meet a task that    *)
(* was not reported: the composition implements the gated lead (http.ts,   *)
(* pullCommands), whatever is lost, late, repeated or crashes.             *)
THEOREM CommandsImplementLead == CommandsSpec => Implements
<1>1. CommandsInit => Init BY DEF CommandsInit
<1>2. QueueInv /\ [CommandsNext]_commandVars => [Next]_vars BY StepImplements
<1> QED BY <1>1, <1>2, QueueInvariance, PTL DEF CommandsSpec, Implements, Spec

(* So no owner can make the lead persist a record that it cannot decode.   *)
THEOREM CommandedRecordsDecode ==
  CenterGated => (CommandsSpec => []PersistedDecodes)
BY CommandsImplementLead, GatedRecordsDecode, PTL DEF Implements

(* A cancel whose acknowledgement the center has recorded is in force.     *)
THEOREM AckedCancelsHold == CommandsSpec => []AckedCancelHolds
<1>1. QueueInv => AckedCancelHolds BY DEF QueueInv, AckedCancelHolds, Stopped
<1> QED BY <1>1, QueueInvariance, PTL
=============================================================================

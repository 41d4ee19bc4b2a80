------------------------- MODULE LeadTakeoverProofs -------------------------
(***************************************************************************)
(* Proofs about LeadTakeover, for any machines, executors, leases and      *)
(* budgets, any number of exports, imports and breaches of the procedure,  *)
(* and both generations of the lead (v1 and v2).                           *)
(*                                                                         *)
(* What holds whatever the operator does is about one machine: its attempt *)
(* never goes back, for the fence skips what is not above it, so a bundle  *)
(* stays fenced where it came from and where it went.  As long as the      *)
(* procedure is kept, only the leader runs and nothing offered or reported *)
(* is newer than its checkpoint: by the first part an orderly import that  *)
(* passes the fence is that of the stopped leader's checkpoint.            *)
(***************************************************************************)
EXTENDS LeadTakeover, TLAPS

Offers == [lead : Leads, to : Nodes, attempt : Nat]

HistoryTyped == offered \in Seq(Offers) /\ reported \in Seq(Nat)

(* No offer of a machine is newer than its checkpoint.                     *)
MachinesGoOn ==
  \A i \in DOMAIN offered :
    LET o == offered[i] IN row[o.lead] # NoRow /\ o.attempt <= row[o.lead].rec.attempt

(* The machines of its transfer know all that is in a bundle.              *)
BundlesAreFenced ==
  \A b \in bundles : \A l \in {b.from, b.to} \cap Leads :
    row[l] # NoRow /\ b.task.rec.attempt <= row[l].rec.attempt

(* Whatever the operator does.                                             *)
LocalInv ==
  TakeoverTypeOK /\ HistoryTyped /\ MachinesGoOn /\ BundlesAreFenced /\ LocalHighWater

(* As long as the procedure is kept.                                       *)
OneLeads == row[leader] # NoRow /\ \A l \in Leads : up[l] => l = leader

LeaderIsNewest ==
  /\ \A i \in DOMAIN offered : offered[i].attempt <= row[leader].rec.attempt
  /\ Len(reported) = row[leader].task_seq

ReportsInOrder == \A n \in DOMAIN reported : reported[n] = n

OrderlyInv == OneLeads /\ LeaderIsNewest /\ HighWaterIsBackstop /\ ReportsInOrder

(* The inductive invariant.                                                *)
TInv == LocalInv /\ (kept => OrderlyInv)

-----------------------------------------------------------------------------
(* Lemmas on LeadMachine.  A method that is not a dispatch keeps the       *)
(* attempt, sends no offer and asks for a dispatch only in drafting.       *)

Follows(r, e) ==
  /\ e.rec \in LeadRecord /\ e.rec.attempt = r.attempt
  /\ \A o \in e.sent : o.type # "offer"
  /\ e.request => e.rec.state = "drafting"

LEMMA StayFollows ==
  ASSUME NEW r, NEW q \in LeadRecord, q.attempt = r.attempt
  PROVE  Follows(r, Stay(q))
BY DEF Follows, Stay

LEMMA FinishFollows ==
  ASSUME NEW r \in LeadRecord, NEW s \in Terminal
  PROVE  Follows(r, Finish(r, s))
<1>1. PICK q : q = [r EXCEPT !.state = s, !.left = 0] OBVIOUS
<1>2. q \in LeadRecord /\ q.attempt = r.attempt
  BY <1>1 DEF LeadRecord, LeadStates
<1>3. Finish(r, s) = Stay(q)
  BY <1>1 DEF Finish
<1> QED BY <1>2, <1>3, StayFollows

LEMMA ExcludeTyped ==
  ASSUME NEW r \in LeadRecord, NEW scope \in {"once", "permanent"}
  PROVE  Exclude(r, scope) \in LeadRecord /\ Exclude(r, scope).attempt = r.attempt
<1>1. CASE r.target \in Nodes
  <2> DEFINE x == [r.excluded EXCEPT ![r.target] = scope]
  <2>1. x \in [Nodes -> {"none", "once", "permanent"}]
    BY DEF LeadRecord
  <2>2. Exclude(r, scope) = [r EXCEPT !.excluded = x]
    BY <1>1 DEF Exclude, LeadRecord
  <2> HIDE DEF x
  <2> QED BY <2>1, <2>2 DEF LeadRecord
<1>2. CASE r.target \notin Nodes
  BY <1>2 DEF Exclude
<1> QED BY <1>1, <1>2

LEMMA ReclaimFollows ==
  ASSUME NEW r, NEW q \in LeadRecord, q.attempt = r.attempt
  PROVE  Follows(r, BeginReclaim(q))
<1>1. PICK z : z = [q EXCEPT !.state = "reclaiming", !.drainClosed = FALSE, !.left = DrainMs]
  OBVIOUS
<1>2. z \in LeadRecord /\ z.attempt = q.attempt /\ z.target = q.target
  BY <1>1, LeadConstants DEF LeadRecord, LeadStates
<1>3. BeginReclaim(q) = Goes(z, IF z.target \in Nodes THEN {Out("cancel", z)} ELSE {})
  BY <1>1 DEF BeginReclaim
<1>4. Out("cancel", z).type # "offer"
  BY DEF Out
<1> QED BY <1>2, <1>3, <1>4 DEF Follows, Goes

LEMMA BudgetFollows ==
  ASSUME NEW r, NEW q \in LeadRecord, q.attempt = r.attempt, NEW accepted \in BOOLEAN
  PROVE  Follows(r, BudgetOrEscalate(q, accepted))
<1> DEFINE paid == IF accepted THEN [q EXCEPT !.acceptedFailedBudget = @ + 1]
                               ELSE [q EXCEPT !.dispatchRounds = @ + 1]
<1>1. paid \in LeadRecord /\ paid.attempt = r.attempt
  BY DEF LeadRecord
<1>2. PICK p \in LeadRecord : p = paid /\ p.attempt = r.attempt
  BY <1>1
<1>3. \/ BudgetOrEscalate(q, accepted) = Finish(p, "escalated")
      \/ BudgetOrEscalate(q, accepted) = Requests([p EXCEPT !.state = "drafting", !.left = 0])
  BY <1>2 DEF BudgetOrEscalate
<1>4. Follows(r, Finish(p, "escalated"))
  BY <1>2, FinishFollows DEF Follows, Terminal
<1>5. PICK d : d = [p EXCEPT !.state = "drafting", !.left = 0] OBVIOUS
<1>6. d \in LeadRecord /\ d.attempt = p.attempt /\ d.state = "drafting"
  BY <1>5 DEF LeadRecord, LeadStates
<1>7. Follows(r, Requests(d))
  BY <1>2, <1>6 DEF Follows, Requests
<1> QED BY <1>3, <1>4, <1>5, <1>7

(* What an executor answers an offer.                                      *)
LEMMA AnswerIs ==
  ASSUME NEW o \in Offers, NEW m \in Answers(o)
  PROVE  /\ m.from \in Nodes /\ m.attempt \in Nat
         /\ m.type = "accept" => m.lease_ms \in Nat
         /\ m.type = "reject" => m.code \in RejectCodes
BY LeadConstants DEF Answers, Offers

LEMMA LogTyped ==
  ASSUME NEW r \in LeadRecord, r.target \in Nodes, NEW outcome \in {"accepted", "rejected"}
  PROVE  Log(r, outcome) \in LeadRecord /\ Log(r, outcome).attempt = r.attempt
<1> DEFINE h == [node |-> r.target, attempt |-> r.attempt, outcome |-> outcome]
<1>1. h \in HistoryEntry
  BY DEF HistoryEntry, LeadRecord
<1>2. PICK x \in SUBSET HistoryEntry : x = r.history \cup {h}
  BY <1>1 DEF LeadRecord
<1>3. Log(r, outcome) = [r EXCEPT !.history = x]
  BY <1>2 DEF Log
<1> QED BY <1>3 DEF LeadRecord

LEMMA OnMessageFollows ==
  ASSUME NEW r \in LeadRecord, NEW o \in Offers,
         NEW m \in Answers(o), m.type # "progress"
  PROVE  Follows(r, OnMessage(r, m))
<1>1. Follows(r, Stay(r)) BY StayFollows
<1>2. Follows(r, Goes(r, {Out("reject", r)})) BY DEF Follows, Goes, Out
<1>3. \A s \in Terminal : Follows(r, Finish(r, s)) BY FinishFollows
<1>4. Follows(r, BeginReclaim(r)) BY ReclaimFollows
<1>5. Follows(r, CloseDrain(r))
  <2>1. PICK q : q = [r EXCEPT !.drainClosed = TRUE] OBVIOUS
  <2>2. q \in LeadRecord /\ q.attempt = r.attempt /\ r.acceptedThisAttempt \in BOOLEAN
    BY <2>1 DEF LeadRecord
  <2> QED BY <2>1, <2>2, BudgetFollows DEF CloseDrain
<1>6. ASSUME m.from = r.target, r.state = "offered"
      PROVE  Follows(r, OnOfferedMessage(r, m))
  <2>0. r.target \in Nodes
    BY <1>6, AnswerIs
  <2>1. CASE m.type = "accept"
    <3>1. PICK l \in LeadRecord : l = Log(r, "accepted") /\ l.attempt = r.attempt
      BY <2>0, LogTyped
    <3>2. PICK t \in Nat : t = LostAfterMs(m.lease_ms)
      <4>1. m.lease_ms \in Nat /\ GraceMs \in Nat
        BY <2>1, AnswerIs, LeadConstants
      <4>2. m.lease_ms \div 3 \in Nat
        BY <4>1
      <4> QED BY <4>1, <4>2 DEF LostAfterMs
    <3>3. PICK z : z = [l EXCEPT !.acceptedThisAttempt = TRUE, !.state = "running",
                                 !.leaseMs = m.lease_ms, !.left = t]
      OBVIOUS
    <3>4. z \in LeadRecord /\ z.attempt = l.attempt
      BY <2>1, <3>3, AnswerIs DEF LeadRecord, LeadStates
    <3>5. OnOfferedMessage(r, m) = Stay(z)
      BY <2>1, <3>1, <3>2, <3>3 DEF OnOfferedMessage
    <3> QED BY <3>1, <3>4, <3>5, StayFollows
  <2>2. CASE m.type = "reject"
    <3>1. PICK l \in LeadRecord : l = Log(r, "rejected") /\ l.attempt = r.attempt
      BY <2>0, LogTyped
    <3>2. PICK q \in LeadRecord : q = ApplyExclusion(l, m.code) /\ q.attempt = r.attempt
      <4>1. ApplyExclusion(l, m.code) \in {l, Exclude(l, "once"), Exclude(l, "permanent")}
        BY DEF ApplyExclusion
      <4>2. /\ Exclude(l, "once") \in LeadRecord /\ Exclude(l, "once").attempt = l.attempt
            /\ Exclude(l, "permanent") \in LeadRecord /\ Exclude(l, "permanent").attempt = l.attempt
        BY ExcludeTyped
      <4> QED BY <3>1, <4>1, <4>2
    <3>3. OnOfferedMessage(r, m) = BudgetOrEscalate(q, FALSE)
      BY <2>2, <3>1, <3>2 DEF OnOfferedMessage
    <3> QED BY <3>2, <3>3, BudgetFollows
  <2>3. CASE m.type \notin {"accept", "reject"}
    BY <1>1, <2>3 DEF OnOfferedMessage
  <2> QED BY <2>1, <2>2, <2>3
<1>7. OnRunningMessage(r, m) \in {Stay(r), BeginReclaim(r), Finish(r, "done"), Finish(r, "failed")}
  BY DEF OnRunningMessage
<1>8. OnReclaimingMessage(r, m) \in {Stay(r), CloseDrain(r), Finish(r, "done"), Finish(r, "failed")}
  BY DEF OnReclaimingMessage
<1>9. OnCancellingMessage(r, m) \in {Stay(r), Finish(r, "done"), Finish(r, "closed")}
  BY DEF OnCancellingMessage
<1>10. Follows(r, OnRunningMessage(r, m)) /\ Follows(r, OnReclaimingMessage(r, m))
       /\ Follows(r, OnCancellingMessage(r, m))
  <2>1. /\ Follows(r, Finish(r, "done")) /\ Follows(r, Finish(r, "failed"))
        /\ Follows(r, Finish(r, "closed"))
    BY <1>3 DEF Terminal
  <2> QED BY <1>1, <1>4, <1>5, <1>7, <1>8, <1>9, <2>1
<1> QED BY <1>1, <1>2, <1>6, <1>10 DEF OnMessage

LEMMA OnTimerFollows ==
  ASSUME NEW r \in LeadRecord, NEW timer \in Timers
  PROVE  Follows(r, OnTimer(r, timer))
<1>1. Follows(r, Stay(r)) BY StayFollows
<1>2. Follows(r, Finish(r, "closed")) BY FinishFollows DEF Terminal
<1>3. Follows(r, BeginReclaim(Exclude(r, "once")))
  <2>1. Exclude(r, "once") \in LeadRecord /\ Exclude(r, "once").attempt = r.attempt
    BY ExcludeTyped
  <2> QED BY <2>1, ReclaimFollows
<1>4. Follows(r, CloseDrain(r))
  <2>1. PICK q : q = [r EXCEPT !.drainClosed = TRUE] OBVIOUS
  <2>2. q \in LeadRecord /\ q.attempt = r.attempt /\ r.acceptedThisAttempt \in BOOLEAN
    BY <2>1 DEF LeadRecord
  <2> QED BY <2>1, <2>2, BudgetFollows DEF CloseDrain
<1> QED BY <1>1, <1>2, <1>3, <1>4 DEF OnTimer

LEMMA CancelFollows ==
  ASSUME NEW r \in LeadRecord
  PROVE  Follows(r, CancelByUser(r))
<1>1. CASE IsTerminal(r) \/ r.state = "cancelling"
  BY <1>1, StayFollows DEF CancelByUser
<1>2. CASE ~(IsTerminal(r) \/ r.state = "cancelling")
  <2>1. PICK z : z = [r EXCEPT !.state = "cancelling", !.left = CancelWaitMs] OBVIOUS
  <2>2. z \in LeadRecord /\ z.attempt = r.attempt
    BY <2>1, LeadConstants DEF LeadRecord, LeadStates
  <2>3. CancelByUser(r) = Goes(z, IF z.target \in Nodes THEN {Out("cancel", z)} ELSE {})
    BY <1>2, <2>1 DEF CancelByUser
  <2>4. Out("cancel", z).type # "offer" BY DEF Out
  <2> QED BY <2>2, <2>3, <2>4 DEF Follows, Goes
<1> QED BY <1>1, <1>2

(* A dispatch opens a new attempt with one offer.                          *)
LEMMA OfferOpens ==
  ASSUME NEW r \in LeadRecord, NEW n \in Nodes, NEW k \in Nat
  PROVE  /\ Offer(r, n, k).rec \in LeadRecord /\ Offer(r, n, k).rec.attempt = k
         /\ \A o \in Offer(r, n, k).sent : o.to = n /\ o.attempt = k
<1>1. PICK z : z = [r EXCEPT !.attempt = k, !.target = n, !.acceptedThisAttempt = FALSE,
                             !.state = "offered", !.left = OfferTtlMs, !.drainClosed = FALSE]
  OBVIOUS
<1>2. z \in LeadRecord /\ z.attempt = k /\ z.target = n
  BY <1>1, LeadConstants DEF LeadRecord, LeadStates
<1>3. Offer(r, n, k) = Goes(z, {Out("offer", z)})
  BY <1>1 DEF Offer
<1> QED BY <1>2, <1>3 DEF Goes, Out

Opens(r, e) ==
  /\ e.rec \in LeadRecord /\ e.rec.attempt > r.attempt
  /\ \E n \in Nodes : \A o \in e.sent : o.to = n /\ o.attempt = e.rec.attempt

LEMMA DispatchOpens ==
  ASSUME NEW r \in LeadRecord, NEW n \in Nodes, NEW k \in Nat, k > r.attempt
  PROVE  Opens(r, Offer(r, n, k))
BY OfferOpens DEF Opens

-----------------------------------------------------------------------------
(* Checkpoints and histories.                                              *)

LEMMA KeptTyped ==
  ASSUME NEW r \in LeadRecord
  PROVE  Kept(r) \in LeadRecord /\ Kept(r).attempt = r.attempt
<1>1. CASE IsTerminal(r)
  <2>1. PICK z : z = [NewRecord EXCEPT !.state = r.state, !.attempt = r.attempt] OBVIOUS
  <2>2. z \in LeadRecord /\ z.attempt = r.attempt
    BY <2>1, LeadConstants DEF NewRecord, LeadRecord, LeadStates
  <2> QED BY <1>1, <2>1, <2>2 DEF Kept
<1>2. CASE ~IsTerminal(r)
  <2>1. PICK z : z = [r EXCEPT !.history = {}, !.left = 0] OBVIOUS
  <2>2. z \in LeadRecord /\ z.attempt = r.attempt
    BY <2>1 DEF LeadRecord
  <2> QED BY <1>2, <2>1, <2>2 DEF Kept
<1> QED BY <1>1, <1>2

LEMMA CheckpointIs ==
  ASSUME NEW c \in Checkpoint
  PROVE  /\ c # NoRow /\ c.rec \in LeadRecord /\ c.rec.attempt \in Nat /\ c.task_seq \in Nat
BY RowAssumption DEF Checkpoint, LeadRecord

LEMMA AppendIs ==
  ASSUME NEW S, NEW s \in Seq(S), NEW x \in S
  PROVE  /\ Append(s, x) \in Seq(S) /\ Len(Append(s, x)) = Len(s) + 1
         /\ DOMAIN Append(s, x) = DOMAIN s \cup {Len(s) + 1}
         /\ \A i \in DOMAIN s : Append(s, x)[i] = s[i] /\ i # Len(s) + 1
         /\ Append(s, x)[Len(s) + 1] = x
<1>1. Len(s) \in Nat /\ DOMAIN s = 1..Len(s)
  OBVIOUS
<1>2. Append(s, x) \in Seq(S) /\ Len(Append(s, x)) = Len(s) + 1
  OBVIOUS
<1>3. DOMAIN Append(s, x) = 1..(Len(s) + 1)
  BY <1>2
<1>4. 1..(Len(s) + 1) = (1..Len(s)) \cup {Len(s) + 1}
  BY <1>1
<1>5. \A i \in 1..Len(s) : Append(s, x)[i] = s[i] /\ i # Len(s) + 1
  BY <1>1
<1>6. Append(s, x)[Len(s) + 1] = x
  OBVIOUS
<1> QED BY <1>1, <1>2, <1>3, <1>4, <1>5, <1>6

(* The rows of the machines only go up.                                    *)
RowsGrow ==
  \A l \in Leads : row[l] # NoRow =>
    row'[l] # NoRow /\ row[l].rec.attempt <= row'[l].rec.attempt

LEMMA GrowKeeps ==
  ASSUME LocalInv, RowsGrow, row' \in [Leads -> Checkpoint \cup {NoRow}]
  PROVE  /\ offered' = offered => MachinesGoOn' /\ LocalHighWater'
         /\ bundles' = bundles => BundlesAreFenced'
<1>1. \A l \in Leads : row[l] # NoRow =>
        row[l].rec.attempt \in Nat /\ row'[l].rec.attempt \in Nat
  BY CheckpointIs DEF LocalInv, TakeoverTypeOK, RowsGrow
<1>2. ASSUME offered' = offered PROVE MachinesGoOn' /\ LocalHighWater'
  <2>1. \A i \in DOMAIN offered : offered[i] \in Offers
    BY DEF LocalInv, HistoryTyped
  <2>2. MachinesGoOn'
    BY <1>1, <1>2, <2>1 DEF LocalInv, MachinesGoOn, RowsGrow, Offers
  <2> QED BY <1>2, <2>2 DEF LocalInv, LocalHighWater
<1>3. ASSUME bundles' = bundles PROVE BundlesAreFenced'
  <2>1. \A b \in bundles : b.task.rec.attempt \in Nat
    BY CheckpointIs DEF LocalInv, TakeoverTypeOK, Bundle
  <2> QED BY <1>1, <1>3, <2>1 DEF LocalInv, BundlesAreFenced, RowsGrow
<1> QED BY <1>2, <1>3

-----------------------------------------------------------------------------
(* The steps of a machine that leads.                                      *)

(* Such a step keeps or raises the machine's attempt and revision; an      *)
(* offer is made at the raised attempt, a report at the raised revision.   *)
LEMMA PersistKeeps ==
  ASSUME TInv, NEW l \in Leads, Leading(l), NEW e, Persist(l, e),
         Follows(rec(l), e) \/ Opens(rec(l), e)
  PROVE  TInv'
<1> DEFINE changed == durable /\ e.rec.state # rec(l).state
           old == row[l]
           seq == old.task_seq + (IF changed THEN 1 ELSE 0)
           new == [rec |-> Kept(e.rec), task_seq |-> seq]
           offers == {m \in e.sent : m.type = "offer"}
           sealed == [lead |-> l, to |-> (CHOOSE m \in offers : TRUE).to,
                      attempt |-> (CHOOSE m \in offers : TRUE).attempt]
<1>1. /\ LocalInv /\ durable \in BOOLEAN /\ up[l]
      /\ row \in [Leads -> Checkpoint \cup {NoRow}]
      /\ old \in Checkpoint /\ old # NoRow /\ rec(l) = old.rec
      /\ rec(l).attempt \in Nat /\ old.task_seq \in Nat
  <2>1. /\ LocalInv /\ durable \in BOOLEAN /\ up[l]
        /\ row \in [Leads -> Checkpoint \cup {NoRow}] /\ old # NoRow
    BY DEF TInv, LocalInv, TakeoverTypeOK, Leading
  <2>2. old \in Checkpoint
    BY <2>1
  <2> QED BY <2>1, <2>2, CheckpointIs DEF rec
<1>2. e.rec \in LeadRecord /\ e.rec.attempt \in Nat /\ e.rec.attempt >= rec(l).attempt
  BY <1>1 DEF Follows, Opens, LeadRecord
<1>3. seq \in Nat /\ (changed => seq = old.task_seq + 1) /\ (~changed => seq = old.task_seq)
  BY <1>1
<1>4. Kept(e.rec) \in LeadRecord /\ Kept(e.rec).attempt = e.rec.attempt
  BY <1>2, KeptTyped
<1>5. /\ row' = [row EXCEPT ![l] = new]
      /\ offered' = IF offers = {} THEN offered ELSE Append(offered, sealed)
      /\ reported' = IF changed /\ kept THEN Append(reported, seq) ELSE reported
      /\ UNCHANGED <<durable, up, bundles, exports, leader, breaches>>
  BY DEF Persist, transfers, procedure
<1>6. /\ new \in Checkpoint /\ new # NoRow
      /\ new.rec = Kept(e.rec) /\ new.task_seq = seq
  BY <1>3, <1>4, RowAssumption DEF Checkpoint
<1>7. offers # {} => /\ sealed \in Offers /\ sealed.lead = l
                     /\ sealed.attempt = e.rec.attempt /\ sealed.attempt > rec(l).attempt
  <2> SUFFICES ASSUME offers # {}
               PROVE  /\ sealed \in Offers /\ sealed.lead = l
                      /\ sealed.attempt = e.rec.attempt /\ sealed.attempt > rec(l).attempt
    OBVIOUS
  <2>1. PICK c : c = CHOOSE m \in offers : TRUE
    OBVIOUS
  <2>2. c \in e.sent /\ c.type = "offer"
    BY <2>1
  <2>3. Opens(rec(l), e)
    BY <2>2 DEF Follows
  <2>4. c.to \in Nodes /\ c.attempt = e.rec.attempt /\ e.rec.attempt > rec(l).attempt
    BY <2>2, <2>3 DEF Opens
  <2>5. sealed = [lead |-> l, to |-> c.to, attempt |-> c.attempt]
    BY <2>1
  <2> HIDE DEF sealed
  <2> QED BY <1>2, <2>4, <2>5 DEF Offers
<1> HIDE DEF changed, seq, new, offers, sealed
<1>8. /\ row'[l] = new /\ row'[l].rec.attempt = e.rec.attempt /\ row'[l].task_seq = seq
      /\ \A k \in Leads \ {l} : row'[k] = row[k]
      /\ row' \in [Leads -> Checkpoint \cup {NoRow}]
  BY <1>1, <1>4, <1>5, <1>6
<1>9. RowsGrow
  <2> SUFFICES ASSUME NEW k \in Leads, row[k] # NoRow
               PROVE  row'[k] # NoRow /\ row[k].rec.attempt <= row'[k].rec.attempt
    BY DEF RowsGrow
  <2>1. row[k].rec.attempt \in Nat
    BY <1>1, CheckpointIs
  <2>2. CASE k = l BY <1>1, <1>2, <1>6, <1>8, <2>2
  <2>3. CASE k # l BY <1>8, <2>1, <2>3
  <2> QED BY <2>2, <2>3
<1>10. TakeoverTypeOK'
  BY <1>1, <1>5, <1>8 DEF LocalInv, TakeoverTypeOK
<1>11. BundlesAreFenced'
  BY <1>1, <1>5, <1>8, <1>9, GrowKeeps
<1>12. reported \in Seq(Nat) /\ offered \in Seq(Offers)
  BY <1>1 DEF LocalInv, HistoryTyped
<1>13. HistoryTyped'
  BY <1>3, <1>5, <1>7, <1>12, AppendIs DEF HistoryTyped
<1>14. /\ \A i \in DOMAIN offered : offered[i] \in Offers /\ offered[i].attempt \in Nat
       /\ \A i \in DOMAIN offered : offered[i].lead = l => offered[i].attempt <= rec(l).attempt
  <2>1. \A i \in DOMAIN offered : offered[i] \in Offers
    BY <1>12
  <2> QED BY <1>1, <2>1 DEF LocalInv, MachinesGoOn, Offers
<1>15. MachinesGoOn' /\ LocalHighWater'
  <2>1. CASE offers = {}
    BY <1>1, <1>5, <1>8, <1>9, <2>1, GrowKeeps
  <2>2. CASE offers # {}
    <3> DEFINE n == Len(offered) + 1
    <3>1. offered' = Append(offered, sealed) /\ sealed \in Offers /\ sealed.lead = l
          /\ sealed.attempt = e.rec.attempt /\ sealed.attempt > rec(l).attempt
      BY <1>5, <1>7, <2>2
    <3>2. /\ DOMAIN offered' = DOMAIN offered \cup {n} /\ offered'[n] = sealed
          /\ \A i \in DOMAIN offered : offered'[i] = offered[i] /\ i # n
      BY <1>12, <3>1, AppendIs
    <3> HIDE DEF n
    <3>3. MachinesGoOn'
      <4> SUFFICES ASSUME NEW i \in DOMAIN offered'
                   PROVE  /\ row'[offered'[i].lead] # NoRow
                          /\ offered'[i].attempt <= row'[offered'[i].lead].rec.attempt
        BY DEF MachinesGoOn
      <4>1. CASE i = n
        BY <1>2, <1>6, <1>8, <3>1, <3>2, <4>1
      <4>2. CASE i \in DOMAIN offered
        <5>1. offered[i].lead \in Leads /\ offered[i].attempt \in Nat
          BY <1>14, <4>2 DEF Offers
        <5>2. /\ row[offered[i].lead] # NoRow
              /\ offered[i].attempt <= row[offered[i].lead].rec.attempt
          BY <1>1, <4>2 DEF LocalInv, MachinesGoOn
        <5>3. /\ row'[offered[i].lead] # NoRow
              /\ row[offered[i].lead].rec.attempt <= row'[offered[i].lead].rec.attempt
          BY <1>9, <5>1, <5>2 DEF RowsGrow
        <5>4. row[offered[i].lead].rec.attempt \in Nat /\ row'[offered[i].lead].rec.attempt \in Nat
          BY <1>1, <1>8, <5>1, <5>2, <5>3, CheckpointIs
        <5> QED BY <3>2, <4>2, <5>1, <5>2, <5>3, <5>4
      <4> QED BY <3>2, <4>1, <4>2
    <3>4. LocalHighWater'
      <4>1. \A i \in DOMAIN offered : offered[i].lead = l => offered[i].attempt # sealed.attempt
        BY <1>1, <1>2, <1>14, <3>1
      <4> QED BY <1>1, <3>1, <3>2, <4>1 DEF LocalInv, LocalHighWater
    <3> QED BY <3>3, <3>4
  <2> QED BY <2>1, <2>2
<1>16. LocalInv'
  BY <1>10, <1>11, <1>13, <1>15 DEF LocalInv
<1>17. ASSUME kept PROVE OrderlyInv'
  <2>1. OneLeads /\ LeaderIsNewest /\ HighWaterIsBackstop /\ ReportsInOrder
    BY <1>17 DEF TInv, OrderlyInv
  <2>2. leader = l /\ leader' = l
    BY <1>1, <1>5, <2>1 DEF OneLeads
  <2>3. OneLeads'
    BY <1>5, <1>6, <1>8, <2>1, <2>2 DEF OneLeads
  <2>4. \A i \in DOMAIN offered : offered[i].attempt <= rec(l).attempt
    BY <2>1, <2>2 DEF LeaderIsNewest, rec
  <2>5. /\ \A i \in DOMAIN offered' : offered'[i].attempt <= row'[leader'].rec.attempt
        /\ HighWaterIsBackstop'
    <3>1. CASE offers = {}
      <4>1. offered' = offered BY <1>5, <3>1
      <4> QED BY <1>1, <1>2, <1>8, <1>14, <2>1, <2>2, <2>4, <4>1 DEF HighWaterIsBackstop
    <3>2. CASE offers # {}
      <4> DEFINE n == Len(offered) + 1
      <4>1. /\ offered' = Append(offered, sealed) /\ sealed \in Offers
            /\ sealed.attempt = e.rec.attempt /\ sealed.attempt > rec(l).attempt
        BY <1>5, <1>7, <3>2
      <4>2. /\ DOMAIN offered' = DOMAIN offered \cup {n} /\ offered'[n] = sealed
            /\ \A i \in DOMAIN offered : offered'[i] = offered[i] /\ i # n
        BY <1>12, <4>1, AppendIs
      <4> HIDE DEF n
      <4>3. \A i \in DOMAIN offered : /\ offered[i].attempt # sealed.attempt
                                      /\ offered[i].attempt <= e.rec.attempt
        BY <1>1, <1>2, <1>14, <2>4, <4>1
      <4>4. \A i \in DOMAIN offered' : offered'[i].attempt <= row'[leader'].rec.attempt
        BY <1>2, <1>8, <2>2, <4>1, <4>2, <4>3
      <4>5. HighWaterIsBackstop'
        BY <2>1, <4>2, <4>3 DEF HighWaterIsBackstop
      <4> QED BY <4>4, <4>5
    <3> QED BY <3>1, <3>2
  <2>6. Len(reported') = row'[leader'].task_seq /\ ReportsInOrder'
    <3>1. Len(reported) = old.task_seq
      BY <2>1, <2>2 DEF LeaderIsNewest
    <3>2. CASE changed
      <4>1. reported' = Append(reported, seq) /\ seq = Len(reported) + 1
        BY <1>3, <1>5, <1>17, <3>1, <3>2
      <4>2. /\ Len(reported') = Len(reported) + 1
            /\ DOMAIN reported' = DOMAIN reported \cup {Len(reported) + 1}
            /\ \A i \in DOMAIN reported : reported'[i] = reported[i]
            /\ reported'[Len(reported) + 1] = seq
        BY <1>3, <1>12, <4>1, AppendIs
      <4> QED BY <1>8, <2>1, <2>2, <4>1, <4>2 DEF ReportsInOrder
    <3>3. CASE ~changed
      BY <1>3, <1>5, <1>8, <2>1, <2>2, <3>1, <3>3 DEF ReportsInOrder
    <3> QED BY <3>2, <3>3
  <2> QED BY <2>3, <2>5, <2>6, <2>1 DEF OrderlyInv, LeaderIsNewest
<1>18. kept' <=> kept
  BY <1>5 DEF kept
<1> QED BY <1>16, <1>17, <1>18 DEF TInv

LEMMA LedRecord ==
  ASSUME TInv, NEW l \in Leads, Leading(l)
  PROVE  rec(l) \in LeadRecord /\ rec(l).attempt \in Nat
<1>1. row[l] \in Checkpoint
  BY DEF TInv, LocalInv, TakeoverTypeOK, Leading
<1> QED BY <1>1, CheckpointIs DEF rec

(* A dispatch that answers a request goes above the attempt it answers.    *)
LEMMA DeliverKeeps ==
  ASSUME TInv, NEW l \in Leads, Leading(l), NEW e, Follows(rec(l), e), Deliver(l, e)
  PROVE  TInv'
<1>1. CASE Persist(l, e)
  BY <1>1, PersistKeeps
<1>2. ASSUME NEW n \in Nodes, e.request, Persist(l, RedispatchTo(e.rec, n))
      PROVE  TInv'
  <2>1. /\ e.rec \in LeadRecord /\ e.rec.attempt = rec(l).attempt /\ rec(l).attempt \in Nat
        /\ e.rec.state = "drafting"
    BY <1>2, LedRecord DEF Follows
  <2>2. RedispatchTo(e.rec, n) = Offer(e.rec, n, rec(l).attempt + 1)
    BY <2>1 DEF RedispatchTo
  <2>3. Opens(e.rec, Offer(e.rec, n, rec(l).attempt + 1))
    BY <2>1, DispatchOpens
  <2>4. Opens(rec(l), RedispatchTo(e.rec, n))
    BY <2>1, <2>2, <2>3 DEF Opens
  <2> QED BY <1>2, <2>4, PersistKeeps
<1> QED BY <1>1, <1>2 DEF Deliver

LEMMA LeaderSteps ==
  ASSUME TInv,
         \/ \E l \in Leads, n \in Nodes : Dispatch(l, n) \/ Redispatch(l, n)
         \/ \E i \in DOMAIN offered : \E m \in Answers(offered[i]) : Consume(offered[i], m)
         \/ \E l \in Leads, timer \in Timers : TimerFires(l, timer)
         \/ \E l \in Leads : Cancel(l)
  PROVE  TInv'
<1>1. ASSUME NEW l \in Leads, NEW n \in Nodes, Dispatch(l, n) PROVE TInv'
  <2>1. Leading(l) /\ rec(l).attempt = 0 /\ Persist(l, Offer(rec(l), n, 1))
    BY <1>1 DEF Dispatch, DispatchTo
  <2>2. Opens(rec(l), Offer(rec(l), n, 1))
    BY <2>1, LedRecord, DispatchOpens
  <2> QED BY <2>1, <2>2, PersistKeeps
<1>2. ASSUME NEW l \in Leads, NEW n \in Nodes, Redispatch(l, n) PROVE TInv'
  <2>1. Leading(l) /\ Persist(l, Offer(rec(l), n, rec(l).attempt + 1))
    BY <1>2 DEF Redispatch, RedispatchTo
  <2>2. Opens(rec(l), Offer(rec(l), n, rec(l).attempt + 1))
    BY <2>1, LedRecord, DispatchOpens
  <2> QED BY <2>1, <2>2, PersistKeeps
<1>3. ASSUME NEW i \in DOMAIN offered, NEW m \in Answers(offered[i]), Consume(offered[i], m)
      PROVE TInv'
  <2>1. PICK o \in Offers : o = offered[i]
    BY DEF TInv, LocalInv, HistoryTyped
  <2>2. o.lead \in Leads /\ m \in Answers(o) /\ Consume(o, m)
    BY <1>3, <2>1 DEF Offers
  <2>3. Leading(o.lead) /\ m.type # "progress" /\ Deliver(o.lead, OnMessage(rec(o.lead), m))
    BY <2>2 DEF Consume
  <2>4. Follows(rec(o.lead), OnMessage(rec(o.lead), m))
    BY <2>2, <2>3, LedRecord, OnMessageFollows
  <2> QED BY <2>2, <2>3, <2>4, DeliverKeeps
<1>4. ASSUME NEW l \in Leads, NEW timer \in Timers, TimerFires(l, timer) PROVE TInv'
  <2>1. Leading(l) /\ Deliver(l, OnTimer(rec(l), timer))
    BY <1>4 DEF TimerFires
  <2>2. Follows(rec(l), OnTimer(rec(l), timer))
    BY <2>1, LedRecord, OnTimerFollows
  <2> QED BY <2>1, <2>2, DeliverKeeps
<1>5. ASSUME NEW l \in Leads, Cancel(l) PROVE TInv'
  <2>1. Leading(l) /\ Persist(l, CancelByUser(rec(l)))
    BY <1>5 DEF Cancel
  <2>2. Follows(rec(l), CancelByUser(rec(l)))
    BY <2>1, LedRecord, CancelFollows
  <2> QED BY <2>1, <2>2, PersistKeeps
<1> QED BY <1>1, <1>2, <1>3, <1>4, <1>5

-----------------------------------------------------------------------------
(* The operator's steps.                                                   *)

LEMMA StopKeeps ==
  ASSUME TInv, NEW l \in Leads, Stop(l) PROVE TInv'
<1>1. /\ up' = [up EXCEPT ![l] = FALSE]
      /\ UNCHANGED <<durable, row, bundles, exports, offered, reported, leader, breaches>>
  BY DEF Stop, transfers, procedure
<1>2. LocalInv'
  BY <1>1 DEF TInv, LocalInv, TakeoverTypeOK, HistoryTyped, MachinesGoOn, BundlesAreFenced,
              LocalHighWater
<1>3. kept => OrderlyInv'
  <2>1. up \in [Leads -> BOOLEAN]
    BY DEF TInv, LocalInv, TakeoverTypeOK
  <2> QED BY <1>1, <2>1 DEF TInv, OrderlyInv, OneLeads, LeaderIsNewest, HighWaterIsBackstop,
                            ReportsInOrder
<1> QED BY <1>1, <1>2, <1>3 DEF TInv, kept

(* A breach within the bound ends what is promised of the procedure.       *)
LEMMA BreachIs ==
  ASSUME exports \in Nat, breaches \in Nat, exports + breaches < MaxHandovers,
         breaches' = breaches + 1, reported' = <<>>
  PROVE  /\ reported' \in Seq(Nat) /\ breaches' \in Nat /\ exports + breaches' <= MaxHandovers
         /\ ~(kept')
<1>1. PICK n \in Nat : n = breaches OBVIOUS
<1>2. breaches' = n + 1 /\ n + 1 \in Nat /\ n + 1 # 0 /\ exports + (n + 1) <= MaxHandovers
  BY <1>1, TakeoverAssumption
<1>3. <<>> \in Seq(Nat) OBVIOUS
<1> QED BY <1>2, <1>3 DEF kept

(* While the procedure is kept, the machine started is the leader.         *)
LEMMA StartKeeps ==
  ASSUME TInv, NEW l \in Leads, Start(l) PROVE TInv'
<1>1. /\ up' = [up EXCEPT ![l] = TRUE] /\ KeepsIf(l = leader)
      /\ UNCHANGED <<durable, row, bundles, exports, offered, leader>>
  BY DEF Start, transfers
<1>2. /\ up \in [Leads -> BOOLEAN] /\ reported \in Seq(Nat) /\ breaches \in Nat /\ exports \in Nat
      /\ exports + breaches <= MaxHandovers
  BY DEF TInv, LocalInv, TakeoverTypeOK, HistoryTyped
<1>3. /\ reported' \in Seq(Nat) /\ breaches' \in Nat /\ exports' + breaches' <= MaxHandovers
      /\ kept' => kept /\ l = leader /\ reported' = reported
  <2>1. CASE l = leader
    BY <1>1, <1>2, <2>1 DEF KeepsIf, kept
  <2>2. CASE l # leader
    <3>1. exports + breaches < MaxHandovers /\ breaches' = breaches + 1 /\ reported' = <<>>
      BY <1>1, <2>2 DEF KeepsIf
    <3> QED BY <1>1, <1>2, <3>1, BreachIs
  <2> QED BY <2>1, <2>2
<1>4. LocalInv'
  BY <1>1, <1>3 DEF TInv, LocalInv, TakeoverTypeOK, HistoryTyped, MachinesGoOn, BundlesAreFenced,
                    LocalHighWater
<1>5. kept' => OrderlyInv'
  BY <1>1, <1>2, <1>3 DEF TInv, OrderlyInv, OneLeads, LeaderIsNewest, HighWaterIsBackstop,
                         ReportsInOrder
<1> QED BY <1>4, <1>5 DEF TInv

LEMMA ExportKeeps ==
  ASSUME TInv, NEW l \in Leads, Exported(l) PROVE TInv'
<1> DEFINE b == [task |-> row[l], from |-> l, to |-> NoLead]
<1>1. /\ row[l] # NoRow /\ exports + breaches < MaxHandovers
      /\ bundles' = bundles \cup {b} /\ exports' = exports + 1
      /\ UNCHANGED <<durable, row, up, offered, reported, leader, breaches>>
  BY DEF Exported, procedure
<1>2. row[l] \in Checkpoint
  BY <1>1 DEF TInv, LocalInv, TakeoverTypeOK
<1>3. b \in Bundle /\ b.task = row[l] /\ b.from = l /\ b.to \notin Leads
  BY <1>2, TakeoverAssumption DEF Bundle
<1> HIDE DEF b
<1>4. TakeoverTypeOK'
  BY <1>1, <1>3, TakeoverAssumption DEF TInv, LocalInv, TakeoverTypeOK
<1>5. BundlesAreFenced'
  <2>1. \A k \in {b.from, b.to} \cap Leads :
          row[k] # NoRow /\ b.task.rec.attempt <= row[k].rec.attempt
    BY <1>1, <1>2, <1>3, CheckpointIs
  <2> QED BY <1>1, <2>1 DEF TInv, LocalInv, BundlesAreFenced
<1>6. LocalInv'
  BY <1>1, <1>4, <1>5 DEF TInv, LocalInv, HistoryTyped, MachinesGoOn, LocalHighWater
<1>7. kept' => OrderlyInv'
  BY <1>1 DEF TInv, kept, OrderlyInv, OneLeads, LeaderIsNewest, HighWaterIsBackstop, ReportsInOrder
<1> QED BY <1>6, <1>7 DEF TInv

(* What an import installs is not behind what it takes over.               *)
LEMMA FencedGoesOn ==
  ASSUME NEW task \in Checkpoint
  PROVE  /\ Fenced(task) \in Checkpoint
         /\ Fenced(task).rec.attempt >= task.rec.attempt
         /\ Fenced(task).task_seq = task.task_seq
<1>1. task.rec \in LeadRecord /\ task.rec.attempt \in Nat /\ task.task_seq \in Nat
  BY CheckpointIs
<1>2. CASE durable /\ task.rec.attempt = 0
  BY <1>1, <1>2 DEF Fenced
<1>3. CASE ~(durable /\ task.rec.attempt = 0)
  <2>1. PICK k \in Nat : k = task.rec.attempt + 1
    BY <1>1
  <2>2. PICK z : z = [task.rec EXCEPT !.attempt = k, !.state = "drafting"] OBVIOUS
  <2>3. z \in LeadRecord /\ z.attempt = k
    BY <1>1, <2>2 DEF LeadRecord, LeadStates
  <2>4. Fenced(task) = [task EXCEPT !.rec = z]
    BY <1>1, <1>3, <2>1, <2>2 DEF Fenced, Checkpoint, LeadRecord
  <2>5. [task EXCEPT !.rec = z] = [rec |-> z, task_seq |-> task.task_seq]
    BY DEF Checkpoint
  <2> QED BY <1>1, <2>1, <2>3, <2>4, <2>5 DEF Checkpoint
<1> QED BY <1>2, <1>3

(* An import raises its machine.  If it is orderly, the machines of the    *)
(* bundle's transfer fence it, so it is the first import of what the       *)
(* stopped leader has, by a machine that does not run.                     *)
LEMMA ImportKeeps ==
  ASSUME TInv, NEW l \in Leads, NEW b \in bundles, Imported(l, b),
         up' = up \/ up' = [up EXCEPT ![l] = TRUE]
  PROVE  TInv'
<1> DEFINE new == IF IsTerminal(b.task.rec) THEN b.task ELSE Fenced(b.task)
           moved == [b EXCEPT !.to = l]
<1>1. /\ ~Fences(l, b.task) /\ KeepsIf(Orderly(l, b))
      /\ row' = [row EXCEPT ![l] = new] /\ leader' = l
      /\ bundles' = (bundles \ {b}) \cup {moved}
      /\ UNCHANGED <<durable, exports, offered>>
  BY DEF Imported
<1>2. /\ LocalInv /\ row \in [Leads -> Checkpoint \cup {NoRow}] /\ up \in [Leads -> BOOLEAN]
      /\ bundles \subseteq Bundle /\ b \in Bundle /\ b.task \in Checkpoint /\ b.from \in Leads
      /\ reported \in Seq(Nat) /\ breaches \in Nat /\ exports \in Nat
      /\ exports + breaches <= MaxHandovers
  BY DEF TInv, LocalInv, TakeoverTypeOK, HistoryTyped, Bundle
<1>3. b.task.rec.attempt \in Nat
  BY <1>2, CheckpointIs
<1>4. /\ new \in Checkpoint /\ new # NoRow /\ new.rec.attempt \in Nat
      /\ new.rec.attempt >= b.task.rec.attempt /\ new.task_seq = b.task.task_seq
  <2>1. new \in Checkpoint /\ new.rec.attempt >= b.task.rec.attempt
          /\ new.task_seq = b.task.task_seq
    BY <1>2, <1>3, FencedGoesOn
  <2> QED BY <2>1, CheckpointIs
<1>5. moved \in Bundle /\ moved.task = b.task /\ moved.from = b.from /\ moved.to = l
  BY <1>2 DEF Bundle
<1> HIDE DEF new, moved
<1>6. /\ row'[l] = new /\ \A k \in Leads \ {l} : row'[k] = row[k]
      /\ row' \in [Leads -> Checkpoint \cup {NoRow}]
  BY <1>1, <1>2, <1>4
<1>7. RowsGrow
  <2> SUFFICES ASSUME NEW k \in Leads, row[k] # NoRow
               PROVE  row'[k] # NoRow /\ row[k].rec.attempt <= row'[k].rec.attempt
    BY DEF RowsGrow
  <2>1. row[k].rec.attempt \in Nat
    BY <1>2, CheckpointIs
  <2>2. CASE k = l
    <3>1. row[l].rec.attempt < b.task.rec.attempt
      BY <1>1, <1>3, <2>1, <2>2 DEF Fences
    <3> QED BY <1>3, <1>4, <1>6, <2>1, <2>2, <3>1
  <2>3. CASE k # l BY <1>6, <2>1, <2>3
  <2> QED BY <2>2, <2>3
<1>8. /\ reported' \in Seq(Nat) /\ breaches' \in Nat /\ exports + breaches' <= MaxHandovers
      /\ kept' => kept /\ Orderly(l, b) /\ reported' = reported
  <2>1. CASE Orderly(l, b)
    BY <1>1, <1>2, <2>1 DEF KeepsIf, kept
  <2>2. CASE ~Orderly(l, b)
    <3>1. exports + breaches < MaxHandovers /\ breaches' = breaches + 1 /\ reported' = <<>>
      BY <1>1, <2>2 DEF KeepsIf
    <3> QED BY <1>2, <3>1, BreachIs
  <2> QED BY <2>1, <2>2
<1>9. TakeoverTypeOK'
  <2>1. up' \in [Leads -> BOOLEAN] /\ bundles' \subseteq Bundle
    BY <1>1, <1>2, <1>5
  <2> QED BY <1>1, <1>2, <1>6, <1>8, <2>1 DEF LocalInv, TakeoverTypeOK
<1>10. BundlesAreFenced'
  <2> SUFFICES ASSUME NEW c \in bundles', NEW k \in {c.from, c.to} \cap Leads
               PROVE  row'[k] # NoRow /\ c.task.rec.attempt <= row'[k].rec.attempt
    BY DEF BundlesAreFenced
  <2>1. c \in bundles => /\ row[k] # NoRow /\ c.task.rec.attempt <= row[k].rec.attempt
                         /\ c.task.rec.attempt \in Nat
    BY <1>2, CheckpointIs DEF LocalInv, BundlesAreFenced, Bundle
  <2>2. row[k] # NoRow =>
          /\ row'[k] # NoRow /\ row[k].rec.attempt <= row'[k].rec.attempt
          /\ row[k].rec.attempt \in Nat /\ row'[k].rec.attempt \in Nat
    BY <1>2, <1>6, <1>7, CheckpointIs DEF RowsGrow
  <2>3. CASE c \in bundles
    BY <2>1, <2>2, <2>3
  <2>4. CASE c = moved /\ k = l
    BY <1>4, <1>5, <1>6, <2>4
  <2>5. CASE c = moved /\ k = b.from
    <3>1. row[k] # NoRow /\ b.task.rec.attempt <= row[k].rec.attempt
      BY <1>2, <2>5 DEF LocalInv, BundlesAreFenced
    <3> QED BY <1>3, <1>5, <2>2, <2>5, <3>1
  <2> QED BY <1>1, <1>5, <2>3, <2>4, <2>5
<1>11. LocalInv'
  <2>1. MachinesGoOn' /\ LocalHighWater'
    BY <1>1, <1>2, <1>6, <1>7, GrowKeeps
  <2>2. HistoryTyped'
    BY <1>1, <1>2, <1>8 DEF LocalInv, HistoryTyped
  <2> QED BY <1>9, <1>10, <2>1, <2>2 DEF LocalInv
<1>12. ASSUME kept' PROVE OrderlyInv'
  <2>1. kept /\ Orderly(l, b) /\ reported' = reported /\ OrderlyInv
    BY <1>8, <1>12 DEF TInv
  <2>2. l \notin {b.from, b.to}
    <3>1. l \in {b.from, b.to} => row[l] # NoRow /\ b.task.rec.attempt <= row[l].rec.attempt
      BY <1>2 DEF LocalInv, BundlesAreFenced
    <3>2. row[l] # NoRow => row[l].rec.attempt \in Nat
      BY <1>2, CheckpointIs
    <3> QED BY <1>1, <1>3, <3>1, <3>2 DEF Fences
  <2>3. ~up[leader] /\ b.task = row[leader]
    BY <2>1, <2>2 DEF Orderly
  <2>4. OneLeads'
    <3>1. \A k \in Leads : ~up[k]
      BY <1>2, <2>1, <2>3 DEF OrderlyInv, OneLeads
    <3> QED BY <1>1, <1>2, <1>4, <1>6, <3>1 DEF OneLeads
  <2>5. LeaderIsNewest'
    <3>1. \A i \in DOMAIN offered : offered[i].attempt \in Nat
      <4>1. \A i \in DOMAIN offered : offered[i] \in Offers
        BY <1>2 DEF LocalInv, HistoryTyped
      <4> QED BY <4>1 DEF Offers
    <3>2. /\ \A i \in DOMAIN offered : offered[i].attempt <= b.task.rec.attempt
          /\ Len(reported) = b.task.task_seq
      BY <2>1, <2>3 DEF OrderlyInv, LeaderIsNewest
    <3>3. \A i \in DOMAIN offered : offered[i].attempt <= new.rec.attempt
      BY <1>3, <1>4, <3>1, <3>2
    <3> QED BY <1>1, <1>4, <1>6, <2>1, <3>2, <3>3 DEF LeaderIsNewest
  <2>6. HighWaterIsBackstop' /\ ReportsInOrder'
    BY <1>1, <2>1 DEF OrderlyInv, HighWaterIsBackstop, ReportsInOrder
  <2> QED BY <2>4, <2>5, <2>6 DEF OrderlyInv
<1> QED BY <1>11, <1>12 DEF TInv

-----------------------------------------------------------------------------
LEMMA TakeoverStarts ==
  ASSUME TakeoverInit PROVE TInv
<1> DEFINE first == [rec |-> NewRecord, task_seq |-> 0]
<1>1. NewRecord \in LeadRecord /\ NewRecord.attempt = 0
  BY LeadConstants DEF NewRecord, LeadRecord, LeadStates
<1>2. first \in Checkpoint /\ first # NoRow /\ first.task_seq = 0
  BY <1>1, RowAssumption DEF Checkpoint
<1> HIDE DEF first
<1>3. row = [l \in Leads |-> IF l = Origin THEN first ELSE NoRow]
  BY DEF TakeoverInit, first
<1>4. /\ durable \in BOOLEAN /\ leader = Origin /\ bundles = {} /\ exports = 0 /\ breaches = 0
      /\ up = [l \in Leads |-> l = Origin]
      /\ offered = <<>> /\ reported = <<>>
  BY DEF TakeoverInit
<1>5. TakeoverTypeOK
  BY <1>2, <1>3, <1>4, TakeoverAssumption DEF TakeoverTypeOK
<1>6. LocalInv
  BY <1>4, <1>5 DEF LocalInv, HistoryTyped, MachinesGoOn, BundlesAreFenced, LocalHighWater
<1>7. OrderlyInv
  <2>1. row[leader] = first
    BY <1>3, <1>4, TakeoverAssumption
  <2>2. OneLeads
    BY <1>2, <1>4, <2>1 DEF OneLeads
  <2>3. LeaderIsNewest
    BY <1>2, <1>4, <2>1 DEF LeaderIsNewest
  <2>4. HighWaterIsBackstop /\ ReportsInOrder
    BY <1>4 DEF HighWaterIsBackstop, ReportsInOrder
  <2> QED BY <2>2, <2>3, <2>4 DEF OrderlyInv
<1> QED BY <1>6, <1>7 DEF TInv

LEMMA TakeoverSteps ==
  ASSUME TInv, [TakeoverNext]_takeoverVars PROVE TInv'
<1>1. ASSUME NEW l \in Leads, NEW b \in bundles,
             ImportCheckpoints(l, b) \/ ImportTasks(l, b) \/ Takeover(l, b)
      PROVE  TInv'
  <2>1. Imported(l, b) /\ (up' = up \/ up' = [up EXCEPT ![l] = TRUE])
    BY <1>1 DEF ImportCheckpoints, ImportTasks, Takeover
  <2> QED BY <2>1, ImportKeeps
<1>2. ASSUME NEW l \in Leads, ExportCheckpoints(l) \/ ExportTasks(l)
      PROVE  TInv'
  BY <1>2, ExportKeeps DEF ExportCheckpoints, ExportTasks
<1>3. CASE UNCHANGED takeoverVars
  <2>1. LocalInv'
    BY <1>3 DEF takeoverVars, TInv, LocalInv, TakeoverTypeOK, HistoryTyped, MachinesGoOn,
                BundlesAreFenced, LocalHighWater
  <2>2. kept' => OrderlyInv'
    BY <1>3 DEF takeoverVars, TInv, kept, OrderlyInv, OneLeads, LeaderIsNewest,
                HighWaterIsBackstop, ReportsInOrder
  <2> QED BY <2>1, <2>2 DEF TInv
<1> QED BY <1>1, <1>2, <1>3, LeaderSteps, StopKeeps, StartKeeps DEF TakeoverNext

-----------------------------------------------------------------------------
(* Whatever the operator starts, stops, exports and imports, a machine's   *)
(* checkpoint never falls behind its offers and the fence holds for every  *)
(* bundle on the machines of its transfer (importTasks, lead/takeover.ts). *)
THEOREM TakeoverInvariant == TakeoverSpec => []TInv
<1>1. TakeoverInit => TInv BY TakeoverStarts
<1>2. TInv /\ [TakeoverNext]_takeoverVars => TInv' BY TakeoverSteps
<1> QED BY <1>1, <1>2, PTL DEF TakeoverSpec

(* On one machine an attempt number is offered once, through any imports   *)
(* and restarts, orderly or not: the fence never lets it go back.          *)
THEOREM MachinesNeverRepeat == TakeoverSpec => []LocalHighWater
<1>1. TInv => LocalHighWater BY DEF TInv, LocalInv
<1> QED BY <1>1, TakeoverInvariant, PTL

(* As long as the procedure is kept, an attempt number is offered once by  *)
(* all machines together; without it, once by each.                        *)
THEOREM AttemptsAreUnique == TakeoverSpec => []UniqueAttempts
<1>1. TInv => UniqueAttempts BY DEF TInv, LocalInv, OrderlyInv, UniqueAttempts
<1> QED BY <1>1, TakeoverInvariant, PTL

(* As long as the procedure is kept, the n-th report of the task has       *)
(* task_seq n on whichever machine, so the center never meets a            *)
(* task_revision_conflict of two machines.                                 *)
THEOREM RevisionsGoOn == TakeoverSpec => []RevisionsContinue
<1>1. TInv => RevisionsContinue BY DEF TInv, OrderlyInv, ReportsInOrder, RevisionsContinue
<1> QED BY <1>1, TakeoverInvariant, PTL
=============================================================================

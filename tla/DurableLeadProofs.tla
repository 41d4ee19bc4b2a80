------------------------- MODULE DurableLeadProofs -------------------------
(***************************************************************************)
(* Proofs about DurableLead, for every set of nodes, every lease and every *)
(* value of the two budgets.                                               *)
(*                                                                         *)
(* Each method of LeadTaskMachine other than a dispatch Keeps the attempt  *)
(* (lemmas on LeadMachine); a dispatch only happens in drafting and opens  *)
(* the next attempt.  Every committed event of DurableLead is a method,    *)
(* possibly followed by an inline dispatch (lemma CommittedEvent), so      *)
(* the inductive invariant Inv is preserved by each of them.               *)
(***************************************************************************)
EXTENDS DurableLead, TLAPS

-----------------------------------------------------------------------------
(* What a method of LeadTaskMachine leaves behind.                         *)

Budget(r) ==
  LET spent == r.acceptedFailedBudget + r.dispatchRounds
  IN  /\ r.state \in {"offered", "running", "reclaiming", "failed"} => r.attempt = spent + 1
      /\ r.state \in {"drafting", "escalated"} => r.attempt = spent
      /\ r.state \in {"cancelling", "closed", "done"} => r.attempt \in {spent, spent + 1}
      /\ (r.state = "escalated") <=> \/ r.acceptedFailedBudget >= MaxAttempts
                                     \/ r.dispatchRounds >= MaxDispatchRounds

Typed(e) == e.rec \in LeadRecord /\ e.sent \subseteq Outbound /\ e.request \in BOOLEAN

(* The current attempt has been revoked, or was refused by its target.     *)
Revokes(r, e) ==
  \/ r.state \in {"drafting", "reclaiming"}
  \/ r.target \notin Nodes
  \/ \E o \in e.sent : o.type = "cancel" /\ o.to = r.target /\ o.attempt = r.attempt
  \/ [node |-> r.target, attempt |-> r.attempt, outcome |-> "rejected"] \in e.rec.history

Keeps(r, e) ==
  /\ Typed(e)
  /\ Budget(e.rec)
  /\ e.rec.attempt = r.attempt /\ e.rec.target = r.target
  /\ r.history \subseteq e.rec.history
  /\ \A o \in e.sent : o.type # "offer"
  /\ e.request => e.rec.state = "drafting"
  /\ e.rec.state \in {"drafting", "reclaiming"} => Revokes(r, e)
  /\ e.rec.excluded = r.excluded \/ r.target \in Nodes
  /\ IsTerminal(e.rec) => e.rec.left = 0
  /\ IsTerminal(r) => e = Stay(r)
  /\ r.state = "cancelling" => e.rec.state \in {"cancelling", "done", "closed"}

Sound(r) == r \in LeadRecord /\ Budget(r) /\ (IsTerminal(r) => r.left = 0)

-----------------------------------------------------------------------------
(* Lemmas on LeadMachine.                                                  *)

LEMMA LostAfterIs ==
  ASSUME NEW l \in Nat
  PROVE  LostAfterMs(l) \in Nat
<1>1. l \div 3 \in Nat OBVIOUS
<1>2. GraceMs \in Nat BY LeadConstants
<1> QED BY <1>1, <1>2 DEF LostAfterMs

LEMMA StayKeeps ==
  ASSUME NEW r, Sound(r)
  PROVE  Keeps(r, Stay(r))
BY DEF Keeps, Sound, Typed, Revokes, Stay, IsTerminal, Terminal

(* Excluding the current target only touches excluded.                     *)
LEMMA ExcludeIs ==
  ASSUME NEW r \in LeadRecord, NEW scope \in {"once", "permanent"}
  PROVE  /\ Exclude(r, scope) \in LeadRecord
         /\ \E x \in [Nodes -> {"none", "once", "permanent"}] :
              /\ Exclude(r, scope) = [r EXCEPT !.excluded = x]
              /\ x = r.excluded \/ r.target \in Nodes
<1>1. CASE r.target \in Nodes
  <2> DEFINE x == [r.excluded EXCEPT ![r.target] = scope]
  <2>1. x \in [Nodes -> {"none", "once", "permanent"}]
    BY DEF LeadRecord
  <2>2. Exclude(r, scope) = [r EXCEPT !.excluded = x]
    BY <1>1 DEF Exclude, LeadRecord
  <2>3. [r EXCEPT !.excluded = x] \in LeadRecord
    BY <2>1 DEF LeadRecord
  <2> QED BY <1>1, <2>1, <2>2, <2>3
<1>2. CASE r.target \notin Nodes
  <2>1. Exclude(r, scope) = r BY <1>2 DEF Exclude
  <2>2. r = [r EXCEPT !.excluded = r.excluded] BY DEF LeadRecord
  <2>3. r.excluded \in [Nodes -> {"none", "once", "permanent"}] BY DEF LeadRecord
  <2> QED BY <2>1, <2>2, <2>3
<1> QED BY <1>1, <1>2

LEMMA FinishKeeps ==
  ASSUME NEW r, Sound(r), NEW s \in {"done", "failed", "closed"},
         r.state \in {"running", "reclaiming", "cancelling"},
         s = "failed" => r.state # "cancelling"
  PROVE  /\ r.state = "cancelling" => s \in {"done", "closed"}
         /\ Keeps(r, Finish(r, s))
<1> DEFINE e == Finish(r, s)
<1>1. e.rec \in LeadRecord /\ e.sent = {} /\ e.request = FALSE /\ e.rec.state = s /\ e.rec.left = 0
  BY DEF Sound, Finish, Stay, LeadRecord, LeadStates, Terminal
<1>2. /\ e.rec.attempt = r.attempt /\ e.rec.target = r.target
      /\ e.rec.history = r.history /\ e.rec.excluded = r.excluded
      /\ e.rec.acceptedFailedBudget = r.acceptedFailedBudget
      /\ e.rec.dispatchRounds = r.dispatchRounds
  BY DEF Sound, Finish, Stay, LeadRecord
<1>3. Budget(e.rec)
  BY <1>1, <1>2 DEF Budget, Sound, LeadRecord
<1> QED BY <1>1, <1>2, <1>3 DEF Keeps, Typed, IsTerminal, Terminal

(* Reclaiming with any change of the exclusions.                           *)
LEMMA ReclaimKeeps ==
  ASSUME NEW r, Sound(r), r.state \in {"offered", "running"},
         NEW x \in [Nodes -> {"none", "once", "permanent"}],
         x = r.excluded \/ r.target \in Nodes
  PROVE  Keeps(r, BeginReclaim([r EXCEPT !.excluded = x]))
<1> DEFINE e == BeginReclaim([r EXCEPT !.excluded = x])
<1>1. /\ e.rec = [[r EXCEPT !.excluded = x] EXCEPT !.state = "reclaiming",
                      !.drainClosed = FALSE, !.left = DrainMs]
      /\ e.request = FALSE
  BY DEF BeginReclaim, Goes
<1>2. /\ e.rec.attempt = r.attempt /\ e.rec.target = r.target
      /\ e.rec.history = r.history /\ e.rec.excluded = x
      /\ e.rec.acceptedFailedBudget = r.acceptedFailedBudget
      /\ e.rec.dispatchRounds = r.dispatchRounds /\ e.rec.state = "reclaiming"
  BY <1>1 DEF Sound, LeadRecord
<1>3. e.rec \in LeadRecord
  <2> DEFINE q == [r EXCEPT !.excluded = x]
  <2>1. q \in LeadRecord BY DEF Sound, LeadRecord
  <2>2. DrainMs \in Nat /\ "reclaiming" \in LeadStates BY LeadConstants DEF LeadStates
  <2>3. e.rec = [q EXCEPT !.state = "reclaiming", !.drainClosed = FALSE, !.left = DrainMs]
    BY <1>1
  <2> HIDE DEF q, e
  <2> QED BY <2>1, <2>2, <2>3 DEF LeadRecord
<1>4. Budget(e.rec)
  BY <1>2 DEF Budget, Sound, LeadRecord
<1>5. /\ e.sent = IF r.target \in Nodes THEN {Out("cancel", e.rec)} ELSE {}
      /\ e.sent \subseteq Outbound
      /\ \A o \in e.sent : o.type # "offer"
      /\ Revokes(r, e)
  <2>1. e.sent = IF r.target \in Nodes THEN {Out("cancel", e.rec)} ELSE {}
    BY <1>1, <1>2 DEF BeginReclaim, Goes
  <2>2. Out("cancel", e.rec) = [type |-> "cancel", to |-> r.target, attempt |-> r.attempt,
                                lease |-> 0, seq |-> 0]
    BY <1>2 DEF Out
  <2>3. r.attempt \in Nat BY DEF Sound, LeadRecord
  <2>4. r.target \in Nodes => Out("cancel", e.rec) \in Outbound
    BY <2>2, <2>3 DEF Outbound
  <2>5. Revokes(r, e)
    BY <2>1, <2>2 DEF Revokes
  <2> QED BY <2>1, <2>2, <2>4, <2>5
<1> QED BY <1>1, <1>2, <1>3, <1>4, <1>5 DEF Keeps, Typed, IsTerminal, Terminal

(* Paying for the attempt: from a refused offer, or from a closed drain.   *)
LEMMA BudgetKeeps ==
  ASSUME NEW r, Sound(r), r.state \in {"offered", "reclaiming"},
         NEW q \in LeadRecord, NEW accepted \in BOOLEAN,
         q.state = r.state, q.attempt = r.attempt, q.target = r.target,
         q.acceptedFailedBudget = r.acceptedFailedBudget,
         q.dispatchRounds = r.dispatchRounds,
         r.history \subseteq q.history,
         q.excluded = r.excluded \/ r.target \in Nodes,
         r.state = "offered" =>
           [node |-> r.target, attempt |-> r.attempt, outcome |-> "rejected"] \in q.history
  PROVE  Keeps(r, BudgetOrEscalate(q, accepted))
<1> DEFINE paid == IF accepted THEN [q EXCEPT !.acceptedFailedBudget = @ + 1]
                               ELSE [q EXCEPT !.dispatchRounds = @ + 1]
<1>1. /\ paid \in LeadRecord /\ paid.attempt = r.attempt /\ paid.target = r.target
      /\ paid.history = q.history /\ paid.excluded = q.excluded
      /\ paid.acceptedFailedBudget + paid.dispatchRounds
           = r.acceptedFailedBudget + r.dispatchRounds + 1
  BY DEF LeadRecord, Sound
<1>2. PICK p \in LeadRecord : p = paid
  BY <1>1
<1> DEFINE over == p.acceptedFailedBudget >= MaxAttempts \/ p.dispatchRounds >= MaxDispatchRounds
           e == BudgetOrEscalate(q, accepted)
<1>3. e = IF over THEN Stay([p EXCEPT !.state = "escalated", !.left = 0])
          ELSE Requests([p EXCEPT !.state = "drafting", !.left = 0])
  BY <1>2 DEF BudgetOrEscalate, Finish
<1>4. /\ p.attempt = r.attempt /\ p.target = r.target
      /\ p.history = q.history /\ p.excluded = q.excluded
      /\ p.acceptedFailedBudget + p.dispatchRounds
           = r.acceptedFailedBudget + r.dispatchRounds + 1
  BY <1>1, <1>2
<1>5. PICK s \in {"escalated", "drafting"} : s = IF over THEN "escalated" ELSE "drafting"
  OBVIOUS
<1>6. PICK z : z = [p EXCEPT !.state = s, !.left = 0]
  OBVIOUS
<1>7. e.rec = z /\ e.sent = {} /\ e.request \in BOOLEAN /\ (e.request => s = "drafting")
  <2>1. CASE over
    <3>1. e = Stay(z) BY <2>1, <1>3, <1>5, <1>6
    <3> QED BY <3>1 DEF Stay
  <2>2. CASE ~over
    <3>1. e = Requests(z) /\ s = "drafting" BY <2>2, <1>3, <1>5, <1>6
    <3> QED BY <3>1 DEF Requests
  <2> QED BY <2>1, <2>2
<1>8. /\ z \in LeadRecord /\ z.state = s /\ z.left = 0
      /\ z.attempt = p.attempt /\ z.target = p.target
      /\ z.history = p.history /\ z.excluded = p.excluded
      /\ z.acceptedFailedBudget = p.acceptedFailedBudget
      /\ z.dispatchRounds = p.dispatchRounds
  <2>1. s \in LeadStates /\ 0 \in Nat BY DEF LeadStates, Terminal
  <2> QED BY <1>6, <2>1 DEF LeadRecord
<1>9. Budget(z)
  <2>1. /\ p.acceptedFailedBudget \in Nat /\ p.dispatchRounds \in Nat
        /\ r.acceptedFailedBudget \in Nat /\ r.dispatchRounds \in Nat
        /\ r.attempt = r.acceptedFailedBudget + r.dispatchRounds + 1
    BY DEF Sound, Budget, LeadRecord
  <2> QED BY <2>1, <1>4, <1>5, <1>8 DEF Budget
<1>10. Revokes(r, e)
  BY <1>4, <1>7, <1>8 DEF Revokes
<1>11. ~IsTerminal(r) BY DEF IsTerminal, Terminal
<1> HIDE DEF e
<1>12. Keeps(r, e)
  BY <1>4, <1>7, <1>8, <1>9, <1>10, <1>11 DEF Keeps, Typed
<1> QED BY <1>12 DEF e

(* The messages a lead may receive: what an executor of the task answers.  *)
Received == UNION {Answers(o) : o \in {x \in Outbound : x.type = "offer"}}

LEMMA ReceivedIs ==
  ASSUME NEW m \in Received
  PROVE  /\ m.from \in Nodes /\ m.attempt \in Nat
         /\ m.type = "accept" => m.lease_ms \in Leases
  BY DEF Received, Answers, Outbound

LEMMA OnOfferedKeeps ==
  ASSUME NEW r, Sound(r), r.state = "offered",
         NEW m \in Received, m.from = r.target
  PROVE  Keeps(r, OnOfferedMessage(r, m))
<1>0. r.target \in Nodes /\ r \in LeadRecord /\ ~IsTerminal(r)
  BY ReceivedIs DEF Sound, IsTerminal, Terminal
<1>1. CASE m.type = "accept"
  <2> DEFINE h == [node |-> r.target, attempt |-> r.attempt, outcome |-> "accepted"]
             z == [r EXCEPT !.history = @ \cup {h}, !.acceptedThisAttempt = TRUE,
                            !.state = "running", !.leaseMs = m.lease_ms,
                            !.left = LostAfterMs(m.lease_ms)]
  <2>1. m.lease_ms \in Nat /\ LostAfterMs(m.lease_ms) \in Nat
    <3>1. m.lease_ms \in Nat BY <1>1, ReceivedIs, LeadConstants
    <3> QED BY <3>1, LostAfterIs
  <2>2. h \in HistoryEntry BY <1>0 DEF HistoryEntry, LeadRecord
  <2>3. OnOfferedMessage(r, m) = Stay(z)
    BY <1>1 DEF OnOfferedMessage, Log, LeadRecord
  <2>4. /\ z \in LeadRecord /\ z.state = "running" /\ z.attempt = r.attempt
        /\ z.target = r.target /\ r.history \subseteq z.history /\ z.excluded = r.excluded
        /\ z.acceptedFailedBudget = r.acceptedFailedBudget
        /\ z.dispatchRounds = r.dispatchRounds
    BY <1>0, <2>1, <2>2 DEF LeadRecord, LeadStates
  <2>5. Budget(z) BY <2>4 DEF Sound, Budget, LeadRecord
  <2>6. /\ Stay(z).rec = z /\ Stay(z).sent = {} /\ Stay(z).request = FALSE
    BY DEF Stay
  <2> HIDE DEF z
  <2>7. Keeps(r, Stay(z))
    BY <1>0, <2>4, <2>5, <2>6 DEF Keeps, Typed, IsTerminal, Terminal
  <2> QED BY <2>3, <2>7
<1>2. CASE m.type = "reject"
  <2> DEFINE h == [node |-> r.target, attempt |-> r.attempt, outcome |-> "rejected"]
  <2>1. h \in HistoryEntry BY <1>0 DEF HistoryEntry, LeadRecord
  <2>2. PICK l : l = Log(r, "rejected") OBVIOUS
  <2>3. /\ l \in LeadRecord /\ l.state = "offered" /\ l.attempt = r.attempt
        /\ l.target = r.target /\ l.history = r.history \cup {h} /\ l.excluded = r.excluded
        /\ l.acceptedFailedBudget = r.acceptedFailedBudget
        /\ l.dispatchRounds = r.dispatchRounds
    BY <1>0, <2>1, <2>2 DEF Log, LeadRecord
  <2>4. PICK q : q = ApplyExclusion(l, m.code) OBVIOUS
  <2>5. q = l \/ q = Exclude(l, "once") \/ q = Exclude(l, "permanent")
    BY <2>4 DEF ApplyExclusion
  <2>6. PICK x \in [Nodes -> {"none", "once", "permanent"}] : q = [l EXCEPT !.excluded = x]
    <3>1. CASE q = l
      <4>1. l = [l EXCEPT !.excluded = l.excluded] BY <2>3 DEF LeadRecord
      <4>2. l.excluded \in [Nodes -> {"none", "once", "permanent"}] BY <2>3 DEF LeadRecord
      <4> QED BY <3>1, <4>1, <4>2
    <3>2. CASE q = Exclude(l, "once")
      <4>1. \E x \in [Nodes -> {"none", "once", "permanent"}] :
              Exclude(l, "once") = [l EXCEPT !.excluded = x]
        BY <2>3, ExcludeIs
      <4> QED BY <3>2, <4>1
    <3>3. CASE q = Exclude(l, "permanent")
      <4>1. \E x \in [Nodes -> {"none", "once", "permanent"}] :
              Exclude(l, "permanent") = [l EXCEPT !.excluded = x]
        BY <2>3, ExcludeIs
      <4> QED BY <3>3, <4>1
    <3> QED BY <2>5, <3>1, <3>2, <3>3
  <2>7. /\ q \in LeadRecord /\ q.state = l.state /\ q.attempt = l.attempt
        /\ q.target = l.target /\ q.history = l.history
        /\ q.acceptedFailedBudget = l.acceptedFailedBudget
        /\ q.dispatchRounds = l.dispatchRounds
    BY <2>3, <2>6 DEF LeadRecord
  <2>8. OnOfferedMessage(r, m) = BudgetOrEscalate(q, FALSE)
    BY <1>2, <2>2, <2>4 DEF OnOfferedMessage
  <2>9. Keeps(r, BudgetOrEscalate(q, FALSE))
    BY <1>0, <2>3, <2>7, BudgetKeeps
  <2> QED BY <2>8, <2>9
<1>3. CASE m.type \notin {"accept", "reject"}
  <2>1. OnOfferedMessage(r, m) = Stay(r) BY <1>3 DEF OnOfferedMessage
  <2> QED BY <2>1, StayKeeps
<1> QED BY <1>1, <1>2, <1>3

LEMMA OnRunningKeeps ==
  ASSUME NEW r, Sound(r), r.state = "running",
         NEW m \in Received, m.from = r.target
  PROVE  Keeps(r, OnRunningMessage(r, m))
<1>0. r.target \in Nodes /\ r \in LeadRecord /\ ~IsTerminal(r)
  BY ReceivedIs DEF Sound, IsTerminal, Terminal
<1>1. CASE m.type = "progress"
  <2>0. r.leaseMs \in Nat /\ r.renewalSeq \in Nat BY <1>0 DEF LeadRecord
  <2>1. PICK z : z = [r EXCEPT !.left = LostAfterMs(r.leaseMs), !.renewalSeq = @ + 1]
    OBVIOUS
  <2>2. PICK t \in Nat : t = LostAfterMs(r.leaseMs) BY <2>0, LostAfterIs
  <2>3. /\ z \in LeadRecord /\ z.state = "running" /\ z.attempt = r.attempt
        /\ z.target = r.target /\ z.history = r.history /\ z.excluded = r.excluded
        /\ z.acceptedFailedBudget = r.acceptedFailedBudget
        /\ z.dispatchRounds = r.dispatchRounds
    <3>1. PICK u \in Nat : u = r.renewalSeq + 1 BY <2>0
    <3>2. z = [r EXCEPT !.left = t, !.renewalSeq = u] BY <2>1, <2>2, <3>1
    <3> QED BY <1>0, <3>2 DEF LeadRecord
  <2>4. PICK o : o = [Out("lease.renew", z) EXCEPT !.lease = z.leaseMs, !.seq = z.renewalSeq]
    OBVIOUS
  <2>5. o \in Outbound /\ o.type # "offer"
    BY <1>0, <2>3, <2>4 DEF Out, Outbound, LeadRecord
  <2>6. OnRunningMessage(r, m) = Goes(z, {o})
    BY <1>1, <2>1, <2>4 DEF OnRunningMessage, OnProgress
  <2>7. Goes(z, {o}).rec = z /\ Goes(z, {o}).sent = {o} /\ Goes(z, {o}).request = FALSE
    BY DEF Goes
  <2>8. Budget(z) BY <2>3 DEF Sound, Budget, LeadRecord
  <2>9. Keeps(r, Goes(z, {o}))
    BY <1>0, <2>3, <2>5, <2>7, <2>8 DEF Keeps, Typed, IsTerminal, Terminal
  <2> QED BY <2>6, <2>9
<1>2. Keeps(r, BeginReclaim(r))
  <2>1. r = [r EXCEPT !.excluded = r.excluded] BY <1>0 DEF LeadRecord
  <2>2. r.excluded \in [Nodes -> {"none", "once", "permanent"}] BY <1>0 DEF LeadRecord
  <2> QED BY <2>1, <2>2, ReclaimKeeps
<1>3. CASE m.type # "progress"
  <2>1. \/ OnRunningMessage(r, m) = Finish(r, "done")
        \/ OnRunningMessage(r, m) = Finish(r, "failed")
        \/ OnRunningMessage(r, m) = BeginReclaim(r)
        \/ OnRunningMessage(r, m) = Stay(r)
    BY <1>3 DEF OnRunningMessage
  <2> QED BY <1>2, <2>1, FinishKeeps, StayKeeps
<1> QED BY <1>1, <1>3

LEMMA CloseDrainKeeps ==
  ASSUME NEW r, Sound(r), r.state = "reclaiming"
  PROVE  Keeps(r, CloseDrain(r))
<1>1. PICK q : q = [r EXCEPT !.drainClosed = TRUE] OBVIOUS
<1>2. /\ q \in LeadRecord /\ q.state = r.state /\ q.attempt = r.attempt
      /\ q.target = r.target /\ q.history = r.history /\ q.excluded = r.excluded
      /\ q.acceptedFailedBudget = r.acceptedFailedBudget
      /\ q.dispatchRounds = r.dispatchRounds
  BY <1>1 DEF Sound, LeadRecord
<1>3. r.acceptedThisAttempt \in BOOLEAN BY DEF Sound, LeadRecord
<1>4. CloseDrain(r) = BudgetOrEscalate(q, r.acceptedThisAttempt)
  BY <1>1 DEF CloseDrain
<1> QED BY <1>2, <1>3, <1>4, BudgetKeeps

LEMMA OnReclaimingKeeps ==
  ASSUME NEW r, Sound(r), r.state = "reclaiming", NEW m
  PROVE  Keeps(r, OnReclaimingMessage(r, m))
<1>1. \/ OnReclaimingMessage(r, m) = Finish(r, "done")
      \/ OnReclaimingMessage(r, m) = Finish(r, "failed")
      \/ OnReclaimingMessage(r, m) = CloseDrain(r)
      \/ OnReclaimingMessage(r, m) = Stay(r)
  BY DEF OnReclaimingMessage
<1> QED BY <1>1, FinishKeeps, StayKeeps, CloseDrainKeeps

LEMMA OnCancellingKeeps ==
  ASSUME NEW r, Sound(r), r.state = "cancelling", NEW m
  PROVE  Keeps(r, OnCancellingMessage(r, m))
<1>1. \/ OnCancellingMessage(r, m) = Finish(r, "done")
      \/ OnCancellingMessage(r, m) = Finish(r, "closed")
      \/ OnCancellingMessage(r, m) = Stay(r)
  BY DEF OnCancellingMessage
<1> QED BY <1>1, FinishKeeps, StayKeeps

LEMMA OnMessageKeeps ==
  ASSUME NEW r, Sound(r), NEW m \in Received
  PROVE  Keeps(r, OnMessage(r, m))
<1>1. CASE IsTerminal(r) \/ m.from # r.target
  BY <1>1, StayKeeps DEF OnMessage
<1>2. CASE ~IsTerminal(r) /\ m.from = r.target /\ m.attempt < r.attempt
  <2>1. OnMessage(r, m) = Goes(r, {Out("reject", r)})
    <3>1. m.attempt \in Nat /\ r.attempt \in Nat BY ReceivedIs DEF Sound, LeadRecord
    <3>2. ~(m.attempt > r.attempt) BY <1>2, <3>1
    <3> QED BY <1>2, <3>2 DEF OnMessage
  <2>2. r.target \in Nodes /\ r \in LeadRecord BY <1>2, ReceivedIs DEF Sound
  <2>3. PICK o : o = Out("reject", r) OBVIOUS
  <2>4. o \in Outbound /\ o.type = "reject" BY <2>2, <2>3 DEF Out, Outbound, LeadRecord
  <2>5. Goes(r, {o}).rec = r /\ Goes(r, {o}).sent = {o} /\ Goes(r, {o}).request = FALSE
    BY DEF Goes
  <2>6. Keeps(r, Goes(r, {o}))
    BY <1>2, <2>2, <2>4, <2>5 DEF Keeps, Typed, Sound, Revokes
  <2> QED BY <2>1, <2>3, <2>6
<1>3. CASE ~IsTerminal(r) /\ m.from = r.target /\ ~(m.attempt < r.attempt)
  <2>1. \/ OnMessage(r, m) = Stay(r)
        \/ r.state = "offered" /\ OnMessage(r, m) = OnOfferedMessage(r, m)
        \/ r.state = "running" /\ OnMessage(r, m) = OnRunningMessage(r, m)
        \/ r.state = "reclaiming" /\ OnMessage(r, m) = OnReclaimingMessage(r, m)
        \/ r.state = "cancelling" /\ OnMessage(r, m) = OnCancellingMessage(r, m)
    BY <1>3 DEF OnMessage
  <2> QED BY <1>3, <2>1, StayKeeps, OnOfferedKeeps, OnRunningKeeps, OnReclaimingKeeps,
             OnCancellingKeeps
<1> QED BY <1>1, <1>2, <1>3

LEMMA OnTimerKeeps ==
  ASSUME NEW r, Sound(r), NEW timer
  PROVE  Keeps(r, OnTimer(r, timer))
<1>1. \/ r.state \in {"offered", "running"} /\ OnTimer(r, timer) = BeginReclaim(Exclude(r, "once"))
      \/ r.state = "reclaiming" /\ OnTimer(r, timer) = CloseDrain(r)
      \/ r.state = "cancelling" /\ OnTimer(r, timer) = Finish(r, "closed")
      \/ OnTimer(r, timer) = Stay(r)
  BY DEF OnTimer
<1>2. CASE r.state \in {"offered", "running"} /\ OnTimer(r, timer) = BeginReclaim(Exclude(r, "once"))
  <2>1. PICK x \in [Nodes -> {"none", "once", "permanent"}] :
          /\ Exclude(r, "once") = [r EXCEPT !.excluded = x]
          /\ x = r.excluded \/ r.target \in Nodes
    BY ExcludeIs DEF Sound
  <2>2. Keeps(r, BeginReclaim([r EXCEPT !.excluded = x]))
    BY <1>2, <2>1, ReclaimKeeps
  <2> QED BY <1>2, <2>1, <2>2
<1> QED BY <1>1, <1>2, CloseDrainKeeps, FinishKeeps, StayKeeps

LEMMA RedispatchByOwnerKeeps ==
  ASSUME NEW r, Sound(r)
  PROVE  Keeps(r, RedispatchByOwner(r))
<1>0. r \in LeadRecord BY DEF Sound
<1>1. PICK x \in [Nodes -> {"none", "once", "permanent"}] :
        /\ Exclude(r, "once") = [r EXCEPT !.excluded = x]
        /\ x = r.excluded \/ r.target \in Nodes
  BY ExcludeIs DEF Sound
<1>2. CASE IsTerminal(r) \/ r.state \in {"cancelling", "reclaiming"}
  BY <1>2, StayKeeps DEF RedispatchByOwner, IsTerminal, Terminal
<1>3. CASE r.state = "drafting"
  <2>1. ~IsTerminal(r) BY <1>3 DEF IsTerminal, Terminal
  <2>2. PICK z : z = [r EXCEPT !.excluded = x] OBVIOUS
  <2>3. RedispatchByOwner(r) = Requests(z)
    BY <1>1, <1>3, <2>1, <2>2 DEF RedispatchByOwner
  <2>4. /\ z \in LeadRecord /\ z.state = "drafting" /\ z.attempt = r.attempt
        /\ z.target = r.target /\ z.history = r.history /\ z.excluded = x
        /\ z.acceptedFailedBudget = r.acceptedFailedBudget
        /\ z.dispatchRounds = r.dispatchRounds
    BY <1>0, <1>3, <2>2 DEF LeadRecord
  <2>5. Requests(z).rec = z /\ Requests(z).sent = {} /\ Requests(z).request = TRUE
    BY DEF Requests
  <2>6. Budget(z) BY <1>3, <2>4 DEF Sound, Budget, LeadRecord
  <2>7. Keeps(r, Requests(z))
    BY <1>1, <1>3, <2>1, <2>4, <2>5, <2>6 DEF Keeps, Typed, Revokes, IsTerminal, Terminal
  <2> QED BY <2>3, <2>7
<1>4. CASE r.state \in {"offered", "running"}
  <2>1. RedispatchByOwner(r) = BeginReclaim([r EXCEPT !.excluded = x])
    BY <1>1, <1>4 DEF RedispatchByOwner, IsTerminal, Terminal
  <2> QED BY <1>1, <1>4, <2>1, ReclaimKeeps
<1> QED BY <1>0, <1>2, <1>3, <1>4 DEF LeadRecord, LeadStates, IsTerminal

LEMMA CancelByUserKeeps ==
  ASSUME NEW r, Sound(r)
  PROVE  Keeps(r, CancelByUser(r))
<1>0. r \in LeadRecord BY DEF Sound
<1>1. CASE IsTerminal(r) \/ r.state = "cancelling"
  BY <1>1, StayKeeps DEF CancelByUser
<1>2. CASE ~(IsTerminal(r) \/ r.state = "cancelling")
  <2>1. PICK z : z = [r EXCEPT !.state = "cancelling", !.left = CancelWaitMs] OBVIOUS
  <2>2. /\ z \in LeadRecord /\ z.state = "cancelling" /\ z.attempt = r.attempt
        /\ z.target = r.target /\ z.history = r.history /\ z.excluded = r.excluded
        /\ z.acceptedFailedBudget = r.acceptedFailedBudget
        /\ z.dispatchRounds = r.dispatchRounds
    BY <1>0, <2>1, LeadConstants DEF LeadRecord, LeadStates
  <2>3. PICK s : s = IF z.target \in Nodes THEN {Out("cancel", z)} ELSE {} OBVIOUS
  <2>4. s \subseteq Outbound /\ \A o \in s : o.type # "offer"
    BY <2>2, <2>3 DEF Out, Outbound, LeadRecord
  <2>5. CancelByUser(r) = Goes(z, s)
    BY <1>2, <2>1, <2>3 DEF CancelByUser
  <2>6. Goes(z, s).rec = z /\ Goes(z, s).sent = s /\ Goes(z, s).request = FALSE
    BY DEF Goes
  <2>7. Budget(z)
    BY <1>0, <1>2, <2>2 DEF Sound, Budget, LeadRecord, LeadStates, IsTerminal, Terminal
  <2>8. Keeps(r, Goes(z, s))
    BY <1>2, <2>2, <2>4, <2>6, <2>7 DEF Keeps, Typed, IsTerminal, Terminal
  <2> QED BY <2>5, <2>8
<1> QED BY <1>1, <1>2

-----------------------------------------------------------------------------
(* The inductive invariant.  Besides the properties it states, it says     *)
(* that an attempt that is over or being drained has been revoked (not     *)
(* only once the next one is offered), that an offer of the current        *)
(* attempt went to the current target, and that a task that was never      *)
(* dispatched has excluded nobody.                                         *)

Revoked(o) ==
  \/ Sealed("cancel", o.to, o.attempt)
  \/ [node |-> o.to, attempt |-> o.attempt, outcome |-> "rejected"] \in rec.history

RevokeInv ==
  \A o \in Offers :
     /\ o.attempt <= rec.attempt
     /\ o.attempt = rec.attempt => o.to = rec.target
     /\ o.attempt < rec.attempt \/ rec.state \in {"drafting", "reclaiming"} => Revoked(o)

FreshInv ==
  rec.attempt = 0 => rec.target = NoNode /\ rec.excluded = [n \in Nodes |-> "none"]

Core ==
  /\ Sound(rec)
  /\ task_seq \in Nat /\ outbox \subseteq Outbound /\ lastReport \in Reports
  /\ FreshInv
  /\ RevokeInv
  /\ ReportIsCurrent

Inv == TypeOK /\ Core

(* An event that keeps the attempt.                                        *)
LEMMA KeptEvent ==
  ASSUME Core, NEW e, Keeps(rec, e), RunEvent(e)
  PROVE  Core'
<1>1. /\ rec' = e.rec /\ outbox' = outbox \cup e.sent
      /\ e.rec \in LeadRecord /\ e.sent \subseteq Outbound /\ Budget(e.rec)
      /\ e.rec.attempt = rec.attempt /\ e.rec.target = rec.target
      /\ rec \in LeadRecord
  BY DEF RunEvent, Keeps, Typed, Core, Sound
<1>2. Sound(rec)' BY <1>1 DEF Sound, Keeps
<1>3. /\ task_seq' \in Nat /\ outbox' \subseteq Outbound /\ lastReport' \in Reports
  <2>1. task_seq' \in Nat BY DEF RunEvent, Core
  <2>2. lastReport' \in Reports
    BY <1>1, <2>1 DEF RunEvent, Core, Reports, LeadRecord
  <2> QED BY <1>1, <2>1, <2>2 DEF Core
<1>4. FreshInv'
  BY <1>1, LeadConstants DEF FreshInv, Core, Keeps
<1>5. RevokeInv'
  <2>1. Offers' = Offers BY <1>1 DEF Offers, Keeps
  <2> SUFFICES ASSUME NEW o \in Offers
               PROVE  /\ o.attempt <= rec'.attempt
                      /\ o.attempt = rec'.attempt => o.to = rec'.target
                      /\ o.attempt < rec'.attempt \/ rec'.state \in {"drafting", "reclaiming"}
                           => Revoked(o)'
    BY <2>1 DEF RevokeInv
  <2>2. o \in Outbound /\ o.to \in Nodes BY DEF Offers, Core, Outbound
  <2>3. Revoked(o) => Revoked(o)'
    BY <1>1 DEF Revoked, Sealed, Keeps
  <2>4. ASSUME o.attempt = rec.attempt, Revokes(rec, e)
        PROVE  Revoked(o)'
    BY <1>1, <2>2, <2>3, <2>4 DEF Revokes, Revoked, Sealed, Core, RevokeInv
  <2>5. /\ o.attempt <= rec.attempt
        /\ o.attempt = rec.attempt => o.to = rec.target
        /\ o.attempt < rec.attempt => Revoked(o)
    BY DEF Core, RevokeInv
  <2>6. rec'.state \in {"drafting", "reclaiming"} => Revokes(rec, e)
    BY <1>1 DEF Keeps
  <2>7. o.attempt \in Nat /\ rec.attempt \in Nat
    BY <1>1, <2>2 DEF Outbound, LeadRecord
  <2> QED BY <1>1, <2>3, <2>4, <2>5, <2>6, <2>7
<1>6. ReportIsCurrent'
  BY <1>1 DEF ReportIsCurrent, RunEvent, Core
<1> QED BY <1>2, <1>3, <1>4, <1>5, <1>6 DEF Core

(* An event that ends in drafting and is answered by an inline dispatch.   *)
LEMMA DispatchedEvent ==
  ASSUME Core, NEW e, Keeps(rec, e), e.rec.state = "drafting", NEW n \in Nodes,
         NEW f, f.rec = Offer(e.rec, n, e.rec.attempt + 1).rec,
         f.sent = e.sent \cup Offer(e.rec, n, e.rec.attempt + 1).sent,
         RunEvent(f)
  PROVE  Core' /\ Offers' = Offers \cup {Out("offer", rec')} /\ rec'.target = n
         /\ rec'.excluded = e.rec.excluded
<1>1. /\ e.rec \in LeadRecord /\ e.sent \subseteq Outbound /\ Budget(e.rec)
      /\ e.rec.attempt = rec.attempt /\ rec \in LeadRecord /\ rec.attempt \in Nat
  BY DEF Keeps, Typed, Core, Sound, LeadRecord
<1>2. PICK a \in Nat : a = rec.attempt + 1 BY <1>1
<1>3. PICK z : z = [e.rec EXCEPT !.attempt = a, !.target = n, !.acceptedThisAttempt = FALSE,
                      !.state = "offered", !.left = OfferTtlMs, !.drainClosed = FALSE]
  OBVIOUS
<1>4. /\ z \in LeadRecord /\ z.state = "offered" /\ z.attempt = a /\ z.target = n
      /\ z.history = e.rec.history /\ z.excluded = e.rec.excluded
      /\ z.acceptedFailedBudget = e.rec.acceptedFailedBudget
      /\ z.dispatchRounds = e.rec.dispatchRounds
  BY <1>1, <1>3, LeadConstants DEF LeadRecord, LeadStates
<1>5. PICK x : x = Out("offer", z) OBVIOUS
<1>6. f.rec = z /\ f.sent = e.sent \cup {x}
  BY <1>1, <1>2, <1>3, <1>5 DEF Offer, Goes
<1>7. x \in Outbound /\ x.type = "offer" /\ x.to = n /\ x.attempt = a
  BY <1>4, <1>5 DEF Out, Outbound
<1>8. rec' = z /\ outbox' = outbox \cup e.sent \cup {x}
  BY <1>6 DEF RunEvent
<1>9. Sound(rec)'
  <2>1. Budget(z)
    BY <1>1, <1>2, <1>4 DEF Budget, LeadRecord
  <2> QED BY <1>4, <1>8, <2>1 DEF Sound, IsTerminal, Terminal
<1>10. task_seq' \in Nat /\ outbox' \subseteq Outbound /\ lastReport' \in Reports
  <2>1. task_seq' \in Nat BY DEF RunEvent, Core
  <2>2. lastReport' \in Reports
    BY <1>4, <1>6, <2>1 DEF RunEvent, Core, Reports, LeadRecord
  <2> QED BY <1>1, <1>7, <1>8, <2>1, <2>2 DEF Core
<1>11. FreshInv' BY <1>1, <1>2, <1>4, <1>8 DEF FreshInv
<1>12. Offers' = Offers \cup {x}
  BY <1>7, <1>8 DEF Offers, Keeps
<1>13. RevokeInv'
  <2> SUFFICES ASSUME NEW o \in Offers'
               PROVE  /\ o.attempt <= rec'.attempt
                      /\ o.attempt = rec'.attempt => o.to = rec'.target
                      /\ o.attempt < rec'.attempt \/ rec'.state \in {"drafting", "reclaiming"}
                           => Revoked(o)'
    BY DEF RevokeInv
  <2>1. CASE o = x
    BY <1>4, <1>7, <1>8, <2>1
  <2>2. CASE o \in Offers
    <3>1. o \in Outbound /\ o.to \in Nodes /\ o.attempt \in Nat
      BY <2>2 DEF Offers, Core, Outbound
    <3>2. o.attempt <= rec.attempt /\ (o.attempt = rec.attempt => o.to = rec.target)
      BY <2>2 DEF Core, RevokeInv
    <3>3. Revokes(rec, e) BY DEF Keeps
    <3>4. Revoked(o) => Revoked(o)'
      BY <1>4, <1>8 DEF Revoked, Sealed, Keeps
    <3>5. ASSUME o.attempt = rec.attempt PROVE Revoked(o)'
      BY <1>4, <1>8, <2>2, <3>1, <3>2, <3>3, <3>4, <3>5
         DEF Revokes, Revoked, Sealed, Core, RevokeInv
    <3>6. o.attempt < rec.attempt => Revoked(o)
      BY <2>2 DEF Core, RevokeInv
    <3> QED BY <1>1, <1>2, <1>4, <1>8, <3>1, <3>2, <3>4, <3>5, <3>6
  <2> QED BY <1>12, <2>1, <2>2
<1>14. ReportIsCurrent'
  <2>1. rec.state = "offered" => rec.attempt >= 1
    BY <1>1 DEF Core, Sound, Budget, LeadRecord
  <2> QED BY <1>4, <1>6, <1>8, <2>1 DEF ReportIsCurrent, RunEvent, Core
<1> QED BY <1>4, <1>5, <1>8, <1>9, <1>10, <1>11, <1>12, <1>13, <1>14 DEF Core

(* A committed event, whatever the selector answers.                       *)
LEMMA CommittedEvent ==
  ASSUME Core, NEW e, Keeps(rec, e), Commit(e)
  PROVE  /\ Core'
         /\ \A o \in Offers' \ Offers : rec'.excluded[o.to] = "none"
         /\ ~e.request => rec' = e.rec /\ outbox' = outbox \cup e.sent /\ Offers' = Offers
<1>1. PICK t \in Selection(e.rec) : RunEvent(DriveRedispatch(e, t))
  BY DEF Commit
<1>2. CASE ~e.request \/ t = NoNode
  <2>1. RunEvent(e) BY <1>1, <1>2 DEF DriveRedispatch
  <2>2. rec' = e.rec /\ outbox' = outbox \cup e.sent BY <2>1 DEF RunEvent
  <2>3. Offers' = Offers BY <2>2 DEF Offers, Keeps
  <2> QED BY <2>1, <2>2, <2>3, KeptEvent
<1>3. CASE e.request /\ t # NoNode
  <2>1. t \in Nodes /\ e.rec.excluded[t] = "none"
    BY <1>1, <1>3 DEF Selection, Candidates
  <2>2. e.rec.state = "drafting" BY <1>3 DEF Keeps
  <2>3. PICK f : f = DriveRedispatch(e, t) OBVIOUS
  <2>4. /\ f.rec = Offer(e.rec, t, e.rec.attempt + 1).rec
        /\ f.sent = e.sent \cup Offer(e.rec, t, e.rec.attempt + 1).sent
    BY <1>3, <2>2, <2>3 DEF DriveRedispatch, RedispatchTo
  <2>5. /\ Core' /\ Offers' = Offers \cup {Out("offer", rec')} /\ rec'.target = t
        /\ rec'.excluded = e.rec.excluded
    BY <1>1, <2>1, <2>2, <2>3, <2>4, DispatchedEvent
  <2>6. Out("offer", rec').to = t BY <2>5 DEF Out
  <2> QED BY <1>3, <2>1, <2>5, <2>6
<1> QED BY <1>2, <1>3

(* A dispatch out of drafting, first or repeated: the event before it is   *)
(* the empty one.                                                          *)
LEMMA DraftDispatched ==
  ASSUME Core, rec.state = "drafting", NEW n \in Nodes, rec.excluded[n] = "none",
         RunEvent(Offer(rec, n, rec.attempt + 1))
  PROVE  Core' /\ \A o \in Offers' \ Offers : rec'.excluded[o.to] = "none"
<1>1. Keeps(rec, Stay(rec)) BY StayKeeps DEF Core
<1>2. Stay(rec).rec = rec /\ Stay(rec).sent = {} BY DEF Stay
<1>3. PICK f : f = Offer(rec, n, rec.attempt + 1) OBVIOUS
<1>4. f.sent = {} \cup f.sent OBVIOUS
<1>5. /\ Core' /\ Offers' = Offers \cup {Out("offer", rec')} /\ rec'.target = n
      /\ rec'.excluded = rec.excluded
  BY <1>1, <1>2, <1>3, <1>4, DispatchedEvent
<1>6. Out("offer", rec').to = n BY <1>5 DEF Out
<1> QED BY <1>5, <1>6

-----------------------------------------------------------------------------
(* Initial states and steps.                                               *)

LEMMA InitInv == Init => Inv
<1> SUFFICES ASSUME Init PROVE Inv OBVIOUS
<1>1. NewRecord \in LeadRecord
  BY LeadConstants DEF NewRecord, LeadRecord, LeadStates
<1>2. Budget(NewRecord)
  BY LeadConstants DEF NewRecord, Budget
<1>3. Sound(rec) BY <1>1, <1>2 DEF Init, Sound, NewRecord
<1>4. NoReport \in Reports BY DEF NoReport, Reports, LeadStates
<1>5. FreshInv BY DEF Init, FreshInv, NewRecord
<1>6. RevokeInv BY DEF Init, RevokeInv, Offers
<1>7. ReportIsCurrent BY DEF Init, ReportIsCurrent, NewRecord, NoReport
<1> QED BY <1>1, <1>3, <1>4, <1>5, <1>6, <1>7 DEF Init, Inv, TypeOK, Core

(* What a step preserves, and what its new offers and its ending say.      *)
Effect ==
  /\ Core'
  /\ \A o \in Offers' \ Offers : rec'.excluded[o.to] = "none"
  /\ IsTerminal(rec) => rec' = rec /\ outbox' = outbox
  /\ rec.state = "cancelling" =>
       rec'.state \in {"cancelling", "done", "closed"} /\ Offers' = Offers

LEMMA CommitEffect ==
  ASSUME Core, NEW e, Keeps(rec, e), Commit(e)
  PROVE  Effect
<1>1. /\ Core'
      /\ \A o \in Offers' \ Offers : rec'.excluded[o.to] = "none"
      /\ ~e.request => rec' = e.rec /\ outbox' = outbox \cup e.sent /\ Offers' = Offers
  BY CommittedEvent
<1>2. IsTerminal(rec) => rec' = rec /\ outbox' = outbox
  BY <1>1 DEF Keeps, Stay
<1>3. rec.state = "cancelling" =>
        rec'.state \in {"cancelling", "done", "closed"} /\ Offers' = Offers
  BY <1>1 DEF Keeps
<1> QED BY <1>1, <1>2, <1>3 DEF Effect

LEMMA SameRecord ==
  ASSUME Core, UNCHANGED <<rec, task_seq, outbox, lastReport>>
  PROVE  Effect
<1>1. Offers' = Offers BY DEF Offers
<1>2. Core'
  BY <1>1 DEF Core, Sound, FreshInv, RevokeInv, Revoked, Sealed, ReportIsCurrent
<1> QED BY <1>1, <1>2 DEF Effect

LEMMA NextEffect ==
  ASSUME Inv, Next
  PROVE  Effect
<1>0. Core /\ Sound(rec) /\ rec \in LeadRecord BY DEF Inv, Core, Sound
<1>1. CASE Originate
  BY <1>0, <1>1, SameRecord DEF Originate
<1>2. ASSUME NEW n \in Nodes, Dispatch(n) PROVE Effect
  <2>1. /\ rec.attempt = 0 /\ rec.state = "drafting" /\ RunEvent(DispatchTo(rec, n))
    BY <1>2 DEF Dispatch, Decodes, ValidTask
  <2>2. DispatchTo(rec, n) = Offer(rec, n, rec.attempt + 1)
    BY <2>1 DEF DispatchTo
  <2>3. rec.excluded[n] = "none" BY <1>0, <2>1 DEF Core, FreshInv
  <2>4. Core' /\ \A o \in Offers' \ Offers : rec'.excluded[o.to] = "none"
    BY <1>0, <2>1, <2>2, <2>3, DraftDispatched
  <2> QED BY <2>1, <2>4 DEF Effect, IsTerminal, Terminal
<1>3. CASE Cancel
  <2>1. PICK e : e = CancelByUser(rec) OBVIOUS
  <2>2. Keeps(rec, e) /\ RunEvent(e) BY <1>0, <1>3, <2>1, CancelByUserKeeps DEF Cancel
  <2>3. Core' BY <1>0, <2>2, KeptEvent
  <2>4. rec' = e.rec /\ outbox' = outbox \cup e.sent BY <2>2 DEF RunEvent
  <2>5. Offers' = Offers BY <2>2, <2>4 DEF Offers, Keeps
  <2>6. IsTerminal(rec) => rec' = rec /\ outbox' = outbox BY <2>2, <2>4 DEF Keeps, Stay
  <2>7. rec.state = "cancelling" => rec'.state \in {"cancelling", "done", "closed"}
    BY <2>2, <2>4 DEF Keeps
  <2> QED BY <2>3, <2>5, <2>6, <2>7 DEF Effect
<1>4. CASE Redispatch
  <2>1. Commit(RedispatchByOwner(rec)) BY <1>4 DEF Redispatch
  <2>2. Keeps(rec, RedispatchByOwner(rec)) BY <1>0, RedispatchByOwnerKeeps
  <2> QED BY <1>0, <2>1, <2>2, CommitEffect
<1>5. ASSUME NEW o \in Offers, NEW m \in Answers(o), NEW applies \in BOOLEAN,
             Consume(m, applies)
      PROVE  Effect
  <2>1. CASE applies
    <3>1. m \in Received BY <1>0 DEF Received, Offers, Core
    <3>2. Keeps(rec, OnMessage(rec, m)) BY <1>0, <3>1, OnMessageKeeps
    <3>3. Commit(OnMessage(rec, m)) BY <1>5, <2>1 DEF Consume
    <3> QED BY <1>0, <3>2, <3>3, CommitEffect
  <2>2. CASE ~applies
    BY <1>0, <1>5, <2>2, SameRecord DEF Consume
  <2> QED BY <2>1, <2>2
<1>6. CASE TickTimer
  <2>1. Commit(OnTimer(rec, TimerOf(rec.state))) BY <1>6 DEF TickTimer
  <2>2. Keeps(rec, OnTimer(rec, TimerOf(rec.state))) BY <1>0, OnTimerKeeps
  <2> QED BY <1>0, <2>1, <2>2, CommitEffect
<1>7. CASE TickRedispatch
  <2>1. PICK n \in Candidates(rec) : RunEvent(RedispatchTo(rec, n))
    BY <1>7 DEF TickRedispatch
  <2>2. rec.state = "drafting" BY <1>7 DEF TickRedispatch
  <2>3. RedispatchTo(rec, n) = Offer(rec, n, rec.attempt + 1)
    BY <2>2 DEF RedispatchTo
  <2>4. Core' /\ \A o \in Offers' \ Offers : rec'.excluded[o.to] = "none"
    BY <1>0, <2>1, <2>2, <2>3, DraftDispatched DEF Candidates
  <2> QED BY <2>2, <2>4 DEF Effect, IsTerminal, Terminal
<1>8. CASE TickFault \/ Restart
  BY <1>0, <1>8, SameRecord DEF TickFault, Restart
<1>9. CASE Advance
  <2>1. PICK l \in Nat : l = rec.left - 1
    BY <1>0, <1>9 DEF Advance, LeadRecord
  <2>2. rec' = [rec EXCEPT !.left = l] BY <1>9, <2>1 DEF Advance
  <2>3. /\ rec' \in LeadRecord /\ rec'.state = rec.state /\ rec'.attempt = rec.attempt
        /\ rec'.target = rec.target /\ rec'.history = rec.history
        /\ rec'.excluded = rec.excluded
        /\ rec'.acceptedFailedBudget = rec.acceptedFailedBudget
        /\ rec'.dispatchRounds = rec.dispatchRounds
    BY <1>0, <2>1, <2>2 DEF LeadRecord
  <2>4. ~IsTerminal(rec)
    BY <1>0, <1>9, <2>1 DEF Advance, Sound
  <2>5. Sound(rec)'
    <3>1. Budget(rec') BY <1>0, <2>3 DEF Sound, Budget
    <3> QED BY <2>3, <2>4, <3>1 DEF Sound, IsTerminal
  <2>6. Offers' = Offers /\ UNCHANGED <<task_seq, outbox, lastReport>>
    BY <1>9 DEF Advance, Offers
  <2>7. FreshInv' BY <1>0, <2>3 DEF Core, FreshInv
  <2>8. RevokeInv' BY <1>0, <2>3, <2>6 DEF Core, RevokeInv, Revoked, Sealed
  <2>9. ReportIsCurrent' BY <1>0, <2>3, <2>6 DEF Core, ReportIsCurrent
  <2> QED BY <1>0, <2>3, <2>4, <2>5, <2>6, <2>7, <2>8, <2>9 DEF Effect, Core
<1> QED
  BY <1>1, <1>2, <1>3, <1>4, <1>5, <1>6, <1>7, <1>8, <1>9 DEF Next, Tick

(* The parts of the type invariant that are not in Core.                   *)
LEMMA NextTyped ==
  ASSUME Inv, Next
  PROVE  originated' \in BOOLEAN /\ faulted' \in BOOLEAN /\ seen' \subseteq MessageTypes
<1>0. originated \in BOOLEAN /\ faulted \in BOOLEAN /\ seen \subseteq MessageTypes
  BY DEF Inv, TypeOK
<1>1. originated' \in BOOLEAN /\ faulted' \in BOOLEAN
  BY <1>0 DEF Next, Tick, Originate, Dispatch, Cancel, Redispatch, Consume, TickTimer,
              TickRedispatch, TickFault, Restart, Advance
<1>2. ASSUME NEW o \in Offers, NEW m \in Answers(o), NEW applies \in BOOLEAN,
             Consume(m, applies)
      PROVE  seen' \subseteq MessageTypes
  <2>1. m.type \in MessageTypes BY DEF Answers, MessageTypes
  <2>2. Recorded(m) \subseteq MessageTypes BY <1>0, <2>1 DEF Recorded
  <2> QED BY <1>2, <2>2 DEF Consume, KeepSeen
<1>3. ASSUME ~(\E o \in Offers : \E m \in Answers(o), applies \in BOOLEAN : Consume(m, applies))
      PROVE  seen' \subseteq MessageTypes
  <2>1. seen' = seen \/ seen' = {}
    BY <1>3 DEF Next, Tick, Originate, Dispatch, Cancel, Redispatch, TickTimer,
              TickRedispatch, TickFault, Restart, Advance, KeepSeen
  <2> QED BY <1>0, <2>1
<1> QED BY <1>1, <1>2, <1>3

LEMMA StepInv == Inv /\ [Next]_vars => Inv'
<1> SUFFICES ASSUME Inv, [Next]_vars PROVE Inv' OBVIOUS
<1>1. CASE Next
  <2>1. Core' BY <1>1, NextEffect DEF Effect
  <2>2. TypeOK' BY <1>1, <2>1, NextTyped DEF TypeOK, Core, Sound
  <2> QED BY <2>1, <2>2 DEF Inv
<1>2. CASE UNCHANGED vars
  <2>1. Core' BY <1>2, SameRecord DEF Inv, vars, Effect
  <2>2. TypeOK' BY <1>2 DEF Inv, TypeOK, vars
  <2> QED BY <2>1, <2>2 DEF Inv
<1> QED BY <1>1, <1>2

(* Inv holds in every reachable state of the durable lead.                 *)
THEOREM Invariance == Spec => []Inv
BY InitInv, StepInv, PTL DEF Spec

-----------------------------------------------------------------------------
(* Every record, message and report the adapter persists is well typed.    *)
THEOREM TypeCorrect == Spec => []TypeOK
<1>1. Inv => TypeOK BY DEF Inv
<1> QED BY <1>1, Invariance, PTL

(* R4: no attempt is superseded before it was revoked or refused           *)
(* (beginReclaim, onOfferedMessage, redispatchTo).                         *)
THEOREM RevokedBeforeRedispatch == Spec => []RevokeBeforeRedispatch
<1>1. Inv => RevokeBeforeRedispatch
  BY DEF Inv, Core, RevokeInv, Revoked, RevokeBeforeRedispatch
<1> QED BY <1>1, Invariance, PTL

(* R7: each attempt is paid for exactly once and a budget is exhausted     *)
(* exactly when the task is escalated (budgetOrEscalate).                  *)
THEOREM BudgetsAccounted == Spec => []BudgetAccounting
<1>1. Inv => BudgetAccounting
  BY DEF Inv, Core, Sound, Budget, BudgetAccounting
<1> QED BY <1>1, Invariance, PTL

(* The newest report intent matches the committed record (runEvent).       *)
THEOREM ReportsCurrent == Spec => []ReportIsCurrent
<1>1. Inv => ReportIsCurrent BY DEF Inv, Core
<1> QED BY <1>1, Invariance, PTL

(* R8: an offer goes neither to a node excluded for life nor back to the   *)
(* node whose attempt has just excluded it, by any path to a new attempt   *)
(* (driveRedispatch, tick, dispatch).                                      *)
THEOREM ExclusionsAreRespected == Spec => ExclusionsRespected
<1>1. Inv /\ [Next]_vars =>
        [\A o \in Offers' \ Offers :
            /\ rec'.excluded[o.to] # "permanent"
            /\ o.to = rec.target => rec'.excluded[o.to] = "none"]_vars
  <2>1. Inv /\ [Next]_vars =>
          [\A o \in Offers' \ Offers : rec'.excluded[o.to] = "none"]_vars
    BY NextEffect DEF Effect
  <2> QED BY <2>1
<1> QED BY <1>1, Invariance, PTL DEF Spec, ExclusionsRespected

(* A terminal state and a user's cancel are final (onMessage, onTimer,     *)
(* redispatchByOwner).                                                     *)
THEOREM CancelsFinal == Spec => CancelIsFinal
<1>1. Inv /\ [Next]_vars =>
        [/\ IsTerminal(rec) => rec' = rec /\ outbox' = outbox
         /\ rec.state = "cancelling" => /\ rec'.state \in {"cancelling", "done", "closed"}
                                        /\ Offers' = Offers]_vars
  BY NextEffect DEF Effect
<1> QED BY <1>1, Invariance, PTL DEF Spec, CancelIsFinal

-----------------------------------------------------------------------------
(* Owner commands that pass the center only reach reported tasks.          *)

Gate ==
  IF rec.attempt = 0
  THEN rec.state = "drafting" /\ rec.target = NoNode /\ task_seq = 0 /\ lastReport = NoReport
  ELSE rec.target # NoNode /\ task_seq >= 1

(* Once a task has been dispatched every event leaves it reported.         *)
LEMMA GatedCommit ==
  ASSUME Core, Gate, rec.attempt # 0, NEW e, Keeps(rec, e), Commit(e)
  PROVE  Gate'
<1>0. rec.attempt \in Nat /\ task_seq \in Nat /\ e.rec.attempt = rec.attempt
      /\ e.rec.target = rec.target /\ rec.target # NoNode /\ task_seq >= 1
  BY DEF Core, Sound, LeadRecord, Gate, Keeps
<1>1. PICK t \in Selection(e.rec) : RunEvent(DriveRedispatch(e, t))
  BY DEF Commit
<1>2. task_seq' \in Nat /\ task_seq' >= 1 BY <1>0, <1>1 DEF RunEvent
<1>3. CASE ~e.request \/ t = NoNode
  <2>1. rec' = e.rec BY <1>1, <1>3 DEF DriveRedispatch, RunEvent
  <2> QED BY <1>0, <1>2, <2>1 DEF Gate
<1>4. CASE e.request /\ t # NoNode
  <2>1. e.rec.state = "drafting" /\ e.rec \in LeadRecord BY <1>4 DEF Keeps, Typed
  <2>2. rec' = Offer(e.rec, t, e.rec.attempt + 1).rec
    BY <1>1, <1>4, <2>1 DEF DriveRedispatch, RedispatchTo, RunEvent
  <2>3. rec'.attempt = rec.attempt + 1 /\ rec'.target = t
    BY <1>0, <2>1, <2>2 DEF Offer, Goes, LeadRecord
  <2> QED BY <1>0, <1>2, <1>4, <2>3 DEF Gate
<1> QED BY <1>3, <1>4

LEMMA GatedStep ==
  ASSUME CenterGated, Inv, Gate, [Next]_vars
  PROVE  Gate'
<1>0. Core /\ Sound(rec) /\ rec \in LeadRecord /\ rec.attempt \in Nat /\ task_seq \in Nat
  BY DEF Inv, Core, Sound, LeadRecord
<1>1. CASE UNCHANGED <<rec, task_seq, lastReport>>
  BY <1>1 DEF Gate
<1>2. ASSUME NEW n \in Nodes, RunEvent(Offer(rec, n, rec.attempt + 1)), rec.state = "drafting"
      PROVE  Gate'
  <2>1. rec' = Offer(rec, n, rec.attempt + 1).rec BY <1>2 DEF RunEvent
  <2>2. rec'.attempt = rec.attempt + 1 /\ rec'.target = n /\ rec'.state = "offered"
    BY <1>0, <2>1 DEF Offer, Goes, LeadRecord
  <2>3. task_seq' = task_seq + 1
    <3>1. Offer(rec, n, rec.attempt + 1).rec.state # rec.state BY <1>2, <2>1, <2>2
    <3> QED BY <1>2, <3>1 DEF RunEvent
  <2>4. n # NoNode BY LeadConstants
  <2> QED BY <1>0, <2>2, <2>3, <2>4 DEF Gate
<1>3. ASSUME NEW n \in Nodes, Dispatch(n) PROVE Gate'
  <2>1. rec.attempt = 0 /\ rec.state = "drafting" /\ RunEvent(DispatchTo(rec, n))
    BY <1>3 DEF Dispatch, Decodes, ValidTask
  <2>2. DispatchTo(rec, n) = Offer(rec, n, rec.attempt + 1) BY <2>1 DEF DispatchTo
  <2> QED BY <1>2, <2>1, <2>2
<1>4. CASE TickRedispatch
  <2>1. PICK n \in Candidates(rec) : RunEvent(RedispatchTo(rec, n))
    BY <1>4 DEF TickRedispatch
  <2>2. rec.state = "drafting" BY <1>4 DEF TickRedispatch
  <2>3. RedispatchTo(rec, n) = Offer(rec, n, rec.attempt + 1) BY <2>2 DEF RedispatchTo
  <2> QED BY <1>2, <2>1, <2>2, <2>3 DEF Candidates
<1>5. CASE Cancel
  <2>1. rec.attempt # 0 BY <1>5 DEF Cancel, Commanded, Gate
  <2>2. PICK e : e = CancelByUser(rec) OBVIOUS
  <2>3. Keeps(rec, e) /\ RunEvent(e) BY <1>0, <1>5, <2>2, CancelByUserKeeps DEF Cancel
  <2>4. rec'.attempt = rec.attempt /\ rec'.target = rec.target
    BY <2>3 DEF RunEvent, Keeps
  <2>5. task_seq' >= task_seq /\ task_seq' \in Nat BY <1>0, <2>3 DEF RunEvent
  <2>6. rec.target # NoNode /\ task_seq >= 1 BY <2>1 DEF Gate
  <2> QED BY <1>0, <2>1, <2>4, <2>5, <2>6 DEF Gate
<1>6. CASE Redispatch
  <2>1. rec.attempt # 0 BY <1>6 DEF Redispatch, Commanded, Gate
  <2>2. Commit(RedispatchByOwner(rec)) BY <1>6 DEF Redispatch
  <2>3. Keeps(rec, RedispatchByOwner(rec)) BY <1>0, RedispatchByOwnerKeeps
  <2> QED BY <1>0, <2>1, <2>2, <2>3, GatedCommit
<1>7. ASSUME NEW o \in Offers, NEW m \in Answers(o), NEW applies \in BOOLEAN,
             Consume(m, applies)
      PROVE  Gate'
  <2>1. rec.attempt # 0
    <3>1. o.to \in Nodes /\ o.attempt \in Nat BY <1>0 DEF Core, Offers, Outbound
    <3>2. o.attempt <= rec.attempt /\ (o.attempt = rec.attempt => o.to = rec.target)
      BY <1>0 DEF Core, RevokeInv
    <3> QED BY <1>0, <3>1, <3>2, LeadConstants DEF Gate
  <2>2. CASE applies
    <3>1. m \in Received BY <1>0 DEF Received, Offers, Core
    <3>2. Keeps(rec, OnMessage(rec, m)) BY <1>0, <3>1, OnMessageKeeps
    <3>3. Commit(OnMessage(rec, m)) BY <1>7, <2>2 DEF Consume
    <3> QED BY <1>0, <2>1, <3>2, <3>3, GatedCommit
  <2>3. CASE ~applies BY <1>1, <1>7, <2>3 DEF Consume
  <2> QED BY <2>2, <2>3
<1>8. CASE TickTimer
  <2>1. rec.attempt # 0
    BY <1>8 DEF TickTimer, DueTimer, TimerOf, Timers, Gate
  <2>2. Commit(OnTimer(rec, TimerOf(rec.state))) BY <1>8 DEF TickTimer
  <2>3. Keeps(rec, OnTimer(rec, TimerOf(rec.state))) BY <1>0, OnTimerKeeps
  <2> QED BY <1>0, <2>1, <2>2, <2>3, GatedCommit
<1>9. CASE Advance
  <2>1. rec' = [rec EXCEPT !.left = rec.left - 1] /\ UNCHANGED <<task_seq, lastReport>>
    BY <1>9 DEF Advance
  <2>2. rec'.attempt = rec.attempt /\ rec'.target = rec.target /\ rec'.state = rec.state
    BY <1>0, <2>1 DEF LeadRecord
  <2> QED BY <2>1, <2>2 DEF Gate
<1>10. CASE Originate \/ TickFault \/ Restart \/ UNCHANGED vars
  BY <1>1, <1>10 DEF Originate, TickFault, Restart, vars
<1> QED
  BY <1>3, <1>4, <1>5, <1>6, <1>7, <1>8, <1>9, <1>10 DEF Next, Tick

(* A task whose owner commands arrive through the center never persists a  *)
(* record that decode would reject (validTask), so it never fails the node *)
(* closed.  A host that calls lead.cancel on a fresh draft does.           *)
THEOREM GatedRecordsDecode == CenterGated => (Spec => []PersistedDecodes)
<1> SUFFICES ASSUME CenterGated PROVE Spec => []PersistedDecodes OBVIOUS
<1>1. Init => Gate BY DEF Init, Gate, NewRecord, NoReport
<1>2. Inv /\ Gate /\ [Next]_vars => Gate' BY GatedStep
<1>3. Gate => PersistedDecodes BY DEF Gate, PersistedDecodes, ValidTask
<1> QED BY <1>1, <1>2, <1>3, Invariance, PTL DEF Spec
=============================================================================

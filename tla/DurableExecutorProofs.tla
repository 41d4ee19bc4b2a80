----------------------- MODULE DurableExecutorProofs -----------------------
(***************************************************************************)
(* Proofs about DurableExecutor, for every finite set of offers, every     *)
(* lease and any number of heartbeats and crashes.                         *)
(*                                                                         *)
(* What a step does to the durable state is one of a few Effects: the run  *)
(* goes on, it ends, an offer is accepted or rejected, an ended run is     *)
(* acknowledged (lemmas below).  The inductive invariant relates the slot  *)
(* to the driver's processes (FenceInv), to the settle() in progress       *)
(* (JobInv) and to the messages sealed (SentInv).                          *)
(***************************************************************************)
EXTENDS DurableExecutor, FiniteSetTheorems, TLAPS

(* A run in the slot that reads back.                                      *)
GoodRun(r) == r \in Run /\ r.phase # "empty" /\ r.offer \in Offers /\ ValidRun(r)

(* The slot is empty and the last run the newest, or it holds a good run   *)
(* and the last run is the one before it.                                  *)
SlotInv ==
  \/ slot = NoRun /\ last.gen = gen
  \/ GoodRun(slot) /\ last.gen = gen - 1

OffersConsumed == {o \in Offers : [type |-> "offer", offer |-> o] \in consumed}

(* Only the run in the slot may have a process, and only when the slot     *)
(* says so; a run is started while the slot does not say so yet; an        *)
(* outcome comes from a process that is gone.  Generations are bounded by  *)
(* the offers consumed.                                                    *)
FenceInv ==
  /\ gen <= Cardinality(OffersConsumed)
  /\ \A g \in Gens :
       /\ proc[g] \notin Quiet => Occupied /\ g = gen /\ slot.mayHaveStarted
       /\ starts[g] <= 1 /\ (starts[g] = 0 => proc[g] = "none")
       /\ starts[g] # 0 => g <= gen /\ (Occupied /\ g = gen => slot.mayHaveStarted)
       /\ outcome[g] # "none" => proc[g] \in {"failed", "dead"}

(* What the awaits of settle(), recover() and a late start still know of   *)
(* the slot when they continue.                                            *)
JobInv ==
  /\ job.pc # "idle" => job.gen \in 1..gen
  /\ Occupied /\ job.gen = gen =>
       /\ job.pc = "prepare" => ~slot.mayHaveStarted
       /\ job.pc \in {"recover", "start", "quiesce"} => slot.mayHaveStarted
  /\ job.pc = "publish" => outcome[job.gen] # "none"
  /\ late.pc # "none" => late.gen \in 1..gen
  /\ Occupied /\ late.pc # "none" /\ late.gen = gen => slot.mayHaveStarted

AcceptOf(o, g) == [type |-> "accept", offer |-> o, gen |-> g]

(* Every answer used up its R1 row; terminal messages are of ended runs,   *)
(* and both the current and the last run were accepted.                    *)
SentInv ==
  /\ \A m \in sent : m.type \in {"accept", "reject"} =>
                       [type |-> "offer", offer |-> m.offer] \in consumed
  /\ \A m \in sent : m.type \in Terminals => m.gen \in 1..last.gen
  /\ OneVerdict
  /\ Occupied => AcceptOf(slot.offer, gen) \in sent
  /\ last.gen > 0 => last.offer \in Offers /\ AcceptOf(last.offer, last.gen) \in sent
  /\ last.gen = 0 => last.offer = NoOffer

(* The inductive invariant.                                                *)
EInv == TypeOK /\ SlotInv /\ FenceInv /\ JobInv /\ SentInv

-----------------------------------------------------------------------------
(* Effects of a step on the durable state.                                 *)

Continues ==
  /\ UNCHANGED <<gen, last, sent>>
  /\ slot' = slot \/ (Occupied /\ GoodRun(slot') /\ slot'.offer = slot.offer)

Ends ==
  /\ Occupied /\ gen \in Gens /\ proc[gen] \in Quiet
  /\ gen' = gen /\ slot' = NoRun
  /\ last' \in Ended /\ last'.gen = gen /\ last'.offer = slot.offer
  /\ \E t \in Terminals : sent' = sent \cup {[type |-> t, offer |-> slot.offer, gen |-> gen]}

SameStarted == slot'.mayHaveStarted = slot.mayHaveStarted

-----------------------------------------------------------------------------
(* Facts about values.                                                     *)

LEMMA OfferIsPair == NoOffer \notin Offers
<1> SUFFICES ASSUME NoOffer \in Offers PROVE FALSE
  OBVIOUS
<1>1. <<>> = <<NoOffer[1], NoOffer[2]>>
  BY ExecutorConstants DEF NoOffer
<1> QED BY <1>1

LEMMA NoRunIs == NoRun \in Run /\ NoRun.phase = "empty" /\ NoRun.offer = NoOffer
  /\ NoRun.mayHaveStarted = FALSE /\ NoRun.lease = 0
BY DEF NoRun, Run, NoOffer

LEMMA OccupiedIs ==
  ASSUME SlotInv
  PROVE  /\ slot \in Run
         /\ Occupied => GoodRun(slot) /\ last.gen = gen - 1
         /\ ~Occupied => slot = NoRun /\ last.gen = gen
BY NoRunIs DEF SlotInv, Occupied, GoodRun

(* Generations stay within the offers.                                     *)
LEMMA GenBound ==
  ASSUME TypeOK, FenceInv
  PROVE  /\ Cardinality(Offers) \in Nat
         /\ gen \in 0..Cardinality(Offers)
         /\ \A g \in 1..gen : g \in Gens
<1>1. IsFiniteSet(Offers) /\ OffersConsumed \subseteq Offers
  BY ExecutorConstants DEF OffersConsumed
<1>2. /\ IsFiniteSet(OffersConsumed) /\ Cardinality(OffersConsumed) <= Cardinality(Offers)
      /\ Cardinality(Offers) \in Nat /\ Cardinality(OffersConsumed) \in Nat
  BY <1>1, FS_Subset, FS_CardinalityType
<1> QED BY <1>2 DEF TypeOK, FenceInv, Gens

(* A counter that saturates at a positive number leaves zero for good.     *)
LEMMA CountedIs ==
  ASSUME NEW n \in Nat
  PROVE  Counted(n) \in Nat \ {0}
BY ExecutorConstants DEF Counted

(* tick keeps a good run good, and what a stop had been asked for.         *)
LEMMA TickedIs ==
  ASSUME NEW s, GoodRun(s)
  PROVE  /\ GoodRun(Ticked(s)) /\ Ticked(s).offer = s.offer
         /\ Ticked(s).mayHaveStarted = s.mayHaveStarted
         /\ Ticked(s).stopReason = "none" => s.stopReason = "none"
<1>0. HeartbeatMs \in Nat
  BY ExecutorConstants DEF HeartbeatMs
<1> DEFINE stop == [s EXCEPT !.phase = "stopping", !.stopReason = "lease_expired"]
           beat == [s EXCEPT !.seq = Counted(s.seq), !.progress = TRUE, !.heartbeat = HeartbeatMs]
<1>1. CASE Ticked(s) = s
  BY <1>1
<1>2. CASE s.phase \in {"prepared", "starting", "running"} /\ Ticked(s) = stop
  <2>1. stop \in Run /\ stop.phase = "stopping" /\ stop.stopReason = "lease_expired"
        /\ stop.offer = s.offer /\ stop.mayHaveStarted = s.mayHaveStarted /\ stop.seq = s.seq
        /\ stop.lastRenewalSeq = s.lastRenewalSeq /\ stop.progress = s.progress
        /\ stop.cancelled = s.cancelled
    BY DEF GoodRun, Run, Phases, StopReasons
  <2>2. ValidRun(stop)
    BY <1>2, <2>1 DEF GoodRun, ValidRun
  <2> HIDE DEF stop
  <2> QED BY <1>2, <2>1, <2>2 DEF GoodRun
<1>3. CASE s.phase \in {"starting", "running"} /\ Ticked(s) = beat
  <2>1. beat \in Run /\ beat.phase = s.phase /\ beat.stopReason = s.stopReason
        /\ beat.offer = s.offer /\ beat.mayHaveStarted = s.mayHaveStarted /\ beat.seq > 0
        /\ beat.lastRenewalSeq = s.lastRenewalSeq /\ beat.progress = TRUE
        /\ beat.cancelled = s.cancelled
    <3>1. PICK n \in Nat : n = Counted(s.seq) /\ n > 0
      BY CountedIs DEF GoodRun, Run
    <3>2. beat = [s EXCEPT !.seq = n, !.progress = TRUE, !.heartbeat = HeartbeatMs]
      BY <3>1
    <3> HIDE DEF beat
    <3> QED BY <1>0, <3>1, <3>2 DEF GoodRun, Run
  <2>2. ValidRun(beat)
    BY <1>3, <2>1 DEF GoodRun, ValidRun, Run
  <2> HIDE DEF beat
  <2> QED BY <1>3, <2>1, <2>2 DEF GoodRun
<1>4. \/ Ticked(s) = s
      \/ s.phase \in {"prepared", "starting", "running"} /\ Ticked(s) = stop
      \/ s.phase \in {"starting", "running"} /\ Ticked(s) = beat
  BY DEF Ticked
<1> QED BY <1>1, <1>2, <1>3, <1>4

(* A run that cannot be proved quiet stays good if it may have started.    *)
Recovering(s, reason) ==
  [s EXCEPT !.phase = "recovery_required", !.stopReason = IF @ = "none" THEN reason ELSE @]

LEMMA UnknownIs ==
  ASSUME NEW s, GoodRun(s), s.mayHaveStarted, NEW reason \in StopReasons \ {"cancel"}
  PROVE  /\ GoodRun(Recovering(s, reason)) /\ Recovering(s, reason).offer = s.offer
         /\ Recovering(s, reason).mayHaveStarted = TRUE
<1> DEFINE r == Recovering(s, reason)
<1>1. r \in Run /\ r.phase = "recovery_required" /\ r.offer = s.offer
      /\ r.stopReason = (IF s.stopReason = "none" THEN reason ELSE s.stopReason)
      /\ r.mayHaveStarted = s.mayHaveStarted /\ r.seq = s.seq
      /\ r.lastRenewalSeq = s.lastRenewalSeq /\ r.progress = s.progress
      /\ r.cancelled = s.cancelled
  BY DEF Recovering, GoodRun, Run, Phases, StopReasons
<1> HIDE DEF r
<1>2. s.mayHaveStarted = TRUE
  BY DEF GoodRun, Run
<1>3. ValidRun(r)
  BY <1>1, <1>2 DEF GoodRun, ValidRun, StopReasons
<1> QED BY <1>1, <1>2, <1>3 DEF GoodRun, r

-----------------------------------------------------------------------------
(* The effects keep the parts of the invariant.                            *)

LEMMA ContinuesSent ==
  ASSUME EInv, Continues, consumed \subseteq consumed'
  PROVE  SlotInv' /\ SentInv'
<1>1. Occupied' = Occupied /\ (Occupied => slot'.offer = slot.offer) /\ SlotInv'
  BY OccupiedIs DEF EInv, SlotInv, Continues, Occupied, GoodRun
<1>2. OneVerdict'
  BY DEF EInv, SentInv, OneVerdict, Continues
<1> QED
  BY <1>1, <1>2 DEF EInv, SentInv, Continues, AcceptOf

LEMMA EndsSent ==
  ASSUME EInv, Ends, consumed' = consumed
  PROVE  SlotInv' /\ SentInv' /\ ~Occupied'
<1>0. PICK t \in Terminals : sent' = sent \cup {[type |-> t, offer |-> slot.offer, gen |-> gen]}
  BY DEF Ends
<1> DEFINE m0 == [type |-> t, offer |-> slot.offer, gen |-> gen]
<1>1. /\ GoodRun(slot) /\ last.gen = gen - 1 /\ last.gen \in Nat /\ gen \in Nat
      /\ last'.gen = gen /\ last'.offer = slot.offer /\ slot.offer \in Offers
      /\ AcceptOf(slot.offer, gen) \in sent
  BY OccupiedIs DEF EInv, Ends, SentInv, TypeOK, Ended, GoodRun
<1>2. SlotInv' /\ ~Occupied'
  BY <1>1, NoRunIs DEF Ends, SlotInv, Occupied
<1>3. sent' = sent \cup {m0} /\ m0.type = t /\ m0.offer = slot.offer /\ m0.gen = gen
      /\ t \notin {"accept", "reject"} /\ sent \subseteq Messages
  BY <1>0 DEF Terminals, EInv, TypeOK
<1> HIDE DEF m0
<1>4. \A m \in sent : m.type \in Terminals => m.gen \in 1..(gen - 1)
  BY <1>1 DEF EInv, SentInv
<1>5. OneVerdict'
  <2>1. \A m, n \in sent' : m.type \in {"accept", "reject"} /\ n.type \in {"accept", "reject"}
                              /\ m.offer = n.offer => m = n
    BY <1>3 DEF EInv, SentInv, OneVerdict
  <2>2. \A m, n \in sent' : m.type \in {"result", "fail"} /\ n.type \in {"result", "fail"}
                              /\ m.gen = n.gen => m = n
    <3>1. \A m \in sent : m.type \in {"result", "fail"} => m.gen # gen
      BY <1>1, <1>4 DEF Terminals
    <3> QED BY <1>3, <3>1 DEF EInv, SentInv, OneVerdict
  <2>3. \A m \in sent' : m.type \in Terminals =>
                           [type |-> "accept", offer |-> m.offer, gen |-> m.gen] \in sent'
    BY <1>1, <1>3 DEF EInv, SentInv, OneVerdict, AcceptOf
  <2> QED BY <2>1, <2>2, <2>3 DEF OneVerdict
<1>6. \A m \in sent' : m.type \in Terminals => m.gen \in 1..last'.gen
  BY <1>1, <1>3, <1>4
<1>7. \A m \in sent' : m.type \in {"accept", "reject"} =>
                         [type |-> "offer", offer |-> m.offer] \in consumed'
  BY <1>3 DEF EInv, SentInv
<1> QED
  BY <1>1, <1>2, <1>3, <1>5, <1>6, <1>7 DEF SentInv, AcceptOf

(* A run that goes on, or one that ends when its process is quiet, keeps   *)
(* the fence as long as the driver does nothing.                           *)
LEMMA FenceKept ==
  ASSUME EInv, Ends \/ (Continues /\ SameStarted),
         UNCHANGED <<consumed, proc, outcome, starts>>
  PROVE  FenceInv'
<1>1. OffersConsumed' = OffersConsumed /\ gen' = gen
  BY DEF OffersConsumed, Ends, Continues
<1>2. CASE Ends
  BY <1>1, <1>2, EndsSent DEF EInv, FenceInv, Ends, TypeOK
<1>3. CASE Continues /\ SameStarted
  BY <1>1, <1>3 DEF EInv, FenceInv, Continues, SameStarted, Occupied, GoodRun
<1> QED BY <1>2, <1>3

LEMMA JobKept ==
  ASSUME EInv, Ends \/ (Continues /\ SameStarted), outcome' = outcome, consumed' = consumed,
         job' \in {job, Idle}, late' \in {late, NoLate}
  PROVE  JobInv'
<1>1. gen' = gen /\ (Occupied' => Occupied /\ slot'.mayHaveStarted = slot.mayHaveStarted)
  BY EndsSent DEF Ends, Continues, SameStarted, Occupied, GoodRun
<1> QED
  BY <1>1 DEF EInv, JobInv, Idle, NoLate

(* Put together.                                                           *)
LEMMA RunStep ==
  ASSUME EInv, Ends \/ (Continues /\ SameStarted), TypeOK', JobInv',
         UNCHANGED <<consumed, proc, outcome, starts>>
  PROVE  EInv'
BY FenceKept, EndsSent, ContinuesSent DEF EInv

-----------------------------------------------------------------------------
(* The transactions of settle().                                           *)

(* finish of a quiet run ends it; of any other fence it does nothing.      *)
LEMMA FinishEffect ==
  ASSUME EInv, NEW s, NEW g, NEW kind, Finish(s, g, kind), gen' = gen,
         \/ s = slot
         \/ Occupied /\ GoodRun(s) /\ s.offer = slot.offer /\ s.mayHaveStarted = slot.mayHaveStarted,
         Occupied /\ gen = g => proc[gen] \in Quiet
  PROVE  /\ Ends \/ (Continues /\ SameStarted)
         /\ slot' \in Run /\ last' \in Ended /\ sent' \subseteq Messages /\ live' \in Nat
         /\ \A m \in sent' \ sent : m.type = "result" => s.stopReason = "none"
<1>0. /\ slot \in Run /\ s \in Run /\ gen \in Nat /\ live \in Nat
      /\ last \in Ended /\ sent \subseteq Messages
  BY OccupiedIs DEF EInv, TypeOK, GoodRun
<1>1. live' \in Nat
  BY <1>0 DEF Finish
<1>2. CASE Occupied /\ gen = g
  <2> DEFINE ok == kind = "result" /\ s.stopReason = "none"
             type == IF s.cancelled THEN "cancel.ack" ELSE IF ok THEN "result" ELSE "fail"
             m0 == [type |-> type, offer |-> s.offer, gen |-> g]
  <2>1. /\ sent' = sent \cup {m0}
        /\ last' = [gen |-> g, offer |-> s.offer, result |-> ok]
        /\ slot' = NoRun
    BY <1>2 DEF Finish
  <2>2. GoodRun(slot) /\ last.gen = gen - 1 /\ s.offer = slot.offer /\ slot.offer \in Offers
    BY <1>2, OccupiedIs DEF EInv, GoodRun
  <2>3. gen \in Gens
    BY <1>0, <2>2, GenBound DEF EInv, Ended
  <2>4. type \in Terminals /\ m0.type = type /\ (type = "result" => s.stopReason = "none")
    BY DEF Terminals
  <2>5. ok \in BOOLEAN OBVIOUS
  <2> HIDE DEF ok, type
  <2>6. last' \in Ended /\ last'.gen = gen /\ last'.offer = slot.offer
    BY <1>0, <1>2, <2>1, <2>2, <2>5 DEF Ended
  <2>7. Ends
    BY <1>2, <2>1, <2>2, <2>3, <2>4, <2>6 DEF Ends
  <2>8. m0 \in Messages
    BY <1>0, <1>2, <2>2, <2>4 DEF Messages
  <2> HIDE DEF m0
  <2>9. \A m \in sent' \ sent : m.type = "result" => s.stopReason = "none"
    BY <2>1, <2>4
  <2> QED BY <1>0, <1>1, <2>1, <2>6, <2>7, <2>8, <2>9, NoRunIs
<1>3. CASE ~(Occupied /\ gen = g)
  <2>1. slot' = s /\ UNCHANGED <<sent, last>>
    BY <1>3 DEF Finish
  <2> QED BY <1>0, <1>1, <2>1 DEF Continues, SameStarted
<1> QED BY <1>2, <1>3

(* unknown keeps a run that may have started.                              *)
LEMMA UnknownEffect ==
  ASSUME EInv, NEW s, NEW g, NEW reason \in StopReasons \ {"cancel"}, Unknown(s, g, reason),
         UNCHANGED <<gen, last, sent>>,
         \/ s = slot
         \/ Occupied /\ GoodRun(s) /\ s.offer = slot.offer,
         Occupied /\ gen = g => s.mayHaveStarted
  PROVE  /\ Continues /\ slot' \in Run /\ halted' = TRUE
         /\ slot'.mayHaveStarted = s.mayHaveStarted
<1>0. slot \in Run /\ s \in Run /\ (Occupied => GoodRun(s) /\ s.offer = slot.offer)
  BY OccupiedIs DEF EInv, GoodRun
<1>1. CASE Occupied /\ gen = g
  <2>1. slot' = Recovering(s, reason)
    BY <1>1 DEF Unknown, Recovering
  <2>2. s.mayHaveStarted = TRUE
    BY <1>0, <1>1 DEF Run
  <2>3. GoodRun(slot') /\ slot'.offer = s.offer /\ slot'.mayHaveStarted = TRUE
    <3>1. GoodRun(s) /\ s.mayHaveStarted BY <1>0, <1>1, <2>2
    <3> QED BY <2>1, <3>1, UnknownIs
  <2> QED BY <1>0, <1>1, <2>2, <2>3 DEF Continues, GoodRun, Unknown
<1>2. CASE ~(Occupied /\ gen = g)
  BY <1>0, <1>2 DEF Unknown, Continues
<1> QED BY <1>1, <1>2

(* The types of what only the pump and the driver touch.                   *)
LEMMA StopTyped ==
  ASSUME TypeOK, NEW g, Stop(g)
  PROVE  signalled' \subseteq Gens
BY DEF TypeOK, Stop

-----------------------------------------------------------------------------
LEMMA InitInv == Init => EInv
<1> SUFFICES ASSUME Init PROVE EInv
  OBVIOUS
<1> USE DEF Init
<1>1. TypeOK
  <2>1. slot \in Run BY NoRunIs
  <2>2. last \in Ended BY DEF NoLast, Ended
  <2>3. job \in [pc : {"idle", "recover", "prepare", "start", "quiesce", "publish"}, gen : Nat]
        /\ late \in [pc : {"none", "handle", "quiesce"}, gen : Nat]
    BY DEF Idle, NoLate
  <2> QED BY <2>1, <2>2, <2>3 DEF TypeOK, ProcStates
<1>2. SlotInv /\ ~Occupied
  BY NoRunIs DEF SlotInv, NoLast, Occupied
<1>3. FenceInv
  <2>1. Cardinality(OffersConsumed) \in Nat
    <3>1. IsFiniteSet(Offers) /\ OffersConsumed \subseteq Offers
      BY ExecutorConstants DEF OffersConsumed
    <3> QED BY <3>1, FS_Subset, FS_CardinalityType
  <2> QED BY <2>1 DEF FenceInv, Quiet
<1>4. JobInv
  BY <1>2 DEF JobInv, Idle, NoLate
<1>5. SentInv
  BY <1>2 DEF SentInv, OneVerdict, NoLast
<1> QED BY <1>1, <1>2, <1>3, <1>4, <1>5 DEF EInv

-----------------------------------------------------------------------------
(* Steps that only edit the run in the slot.                               *)

SlotOnly ==
  /\ Continues /\ SameStarted /\ slot' \in Run
  /\ UNCHANGED <<consumed, up, ready, faulted, halted, flow, handle, proc, outcome, starts>>
  /\ closing' \in BOOLEAN /\ signalled' \subseteq Gens

LEMMA SlotOnlyInv ==
  ASSUME EInv, SlotOnly
  PROVE  EInv'
<1> USE DEF SlotOnly, flow
<1>1. TypeOK'
  BY DEF EInv, TypeOK, Continues
<1>2. JobInv'
  BY JobKept
<1> QED BY <1>1, <1>2, RunStep

LEMMA TickInv ==
  ASSUME EInv, Tick
  PROVE  EInv'
<1>1. CASE Occupied
  <2>1. GoodRun(slot) BY <1>1, OccupiedIs DEF EInv
  <2>2. GoodRun(slot') /\ slot'.offer = slot.offer /\ slot'.mayHaveStarted = slot.mayHaveStarted
    BY <2>1, TickedIs DEF Tick
  <2> QED
    BY <1>1, <2>2, SlotOnlyInv
    DEF SlotOnly, Continues, SameStarted, Tick, GoodRun, memory, driver, EInv, TypeOK
<1>2. CASE ~Occupied
  <2>1. slot = NoRun /\ slot' = slot
    BY <1>2, OccupiedIs, NoRunIs DEF EInv, Tick, Ticked
  <2> QED
    BY <2>1, SlotOnlyInv
    DEF SlotOnly, Continues, SameStarted, Tick, memory, driver, EInv, TypeOK
<1> QED BY <1>1, <1>2

LEMMA RenewInv ==
  ASSUME EInv, NEW n \in 1..LeaseMs, Renew(n)
  PROVE  EInv'
<1>1. Occupied /\ GoodRun(slot) /\ slot.progress
  BY OccupiedIs DEF EInv, Renew, Occupied, CanApplyLeaseRenewal
<1>2. PICK q \in Nat : q = Counted(slot.lastRenewalSeq) /\ q > 0
  BY <1>1, CountedIs DEF GoodRun, Run
<1>3. slot' = [slot EXCEPT !.lease = n, !.lastRenewalSeq = q, !.progress = FALSE]
  BY <1>2 DEF Renew
<1>4. n \in Nat BY ExecutorConstants
<1>5. /\ slot' \in Run /\ slot'.phase = slot.phase /\ slot'.stopReason = slot.stopReason
      /\ slot'.offer = slot.offer /\ slot'.mayHaveStarted = slot.mayHaveStarted
      /\ slot'.seq = slot.seq /\ slot'.lastRenewalSeq = q /\ slot'.progress = FALSE
      /\ slot'.cancelled = slot.cancelled
  BY <1>1, <1>2, <1>3, <1>4 DEF GoodRun, Run
<1>6. slot.mayHaveStarted /\ slot.seq > 0 /\ slot.seq \in Nat /\ q > 0
  BY <1>1, <1>2 DEF GoodRun, ValidRun, Renew, Run
<1>7. ValidRun(slot')
  BY <1>1, <1>5, <1>6 DEF GoodRun, ValidRun
<1> QED
  BY <1>1, <1>5, <1>7, SlotOnlyInv
  DEF SlotOnly, Continues, SameStarted, Renew, GoodRun, memory, driver, EInv, TypeOK

LEMMA AdvanceInv ==
  ASSUME EInv, Advance
  PROVE  EInv'
<1>1. Occupied /\ GoodRun(slot)
  BY OccupiedIs, NoRunIs DEF EInv, Advance
<1>2. PICK l \in Nat, h \in Nat : slot' = [slot EXCEPT !.lease = l, !.heartbeat = h]
  <2>1. slot.lease - 1 \in Nat BY <1>1 DEF Advance, GoodRun, Run
  <2>2. (IF slot.heartbeat > 0 THEN slot.heartbeat - 1 ELSE 0) \in Nat
    BY <1>1 DEF GoodRun, Run
  <2> QED BY <2>1, <2>2 DEF Advance
<1>3. /\ slot' \in Run /\ slot'.phase = slot.phase /\ slot'.stopReason = slot.stopReason
      /\ slot'.offer = slot.offer /\ slot'.mayHaveStarted = slot.mayHaveStarted
      /\ slot'.seq = slot.seq /\ slot'.lastRenewalSeq = slot.lastRenewalSeq
      /\ slot'.progress = slot.progress /\ slot'.cancelled = slot.cancelled
  BY <1>1, <1>2 DEF GoodRun, Run
<1>4. ValidRun(slot')
  BY <1>1, <1>3 DEF GoodRun, ValidRun
<1> QED
  BY <1>1, <1>3, <1>4, SlotOnlyInv
  DEF SlotOnly, Continues, SameStarted, Advance, GoodRun, memory, driver, EInv, TypeOK

LEMMA CloseInv ==
  ASSUME EInv, Close
  PROVE  EInv'
<1>1. signalled' \subseteq Gens
  BY StopTyped DEF Close, EInv, TypeOK
<1>2. CASE slot' = slot
  BY <1>1, <1>2, SlotOnlyInv
  DEF SlotOnly, Continues, SameStarted, Close, EInv, TypeOK
<1>3. CASE slot' # slot
  <2>1. /\ Occupied /\ GoodRun(slot)
        /\ slot' = [slot EXCEPT !.phase = "stopping",
                      !.stopReason = IF slot.stopReason = "none" THEN "shutdown" ELSE slot.stopReason]
    BY <1>3, OccupiedIs DEF EInv, Close
  <2>2. /\ slot' \in Run /\ slot'.phase = "stopping"
        /\ slot'.stopReason = (IF slot.stopReason = "none" THEN "shutdown" ELSE slot.stopReason)
        /\ slot'.offer = slot.offer /\ slot'.mayHaveStarted = slot.mayHaveStarted
        /\ slot'.seq = slot.seq /\ slot'.lastRenewalSeq = slot.lastRenewalSeq
        /\ slot'.progress = slot.progress /\ slot'.cancelled = slot.cancelled
    BY <2>1 DEF GoodRun, Run, Phases, StopReasons
  <2>3. ValidRun(slot')
    BY <2>1, <2>2 DEF GoodRun, ValidRun
  <2> QED
    BY <1>1, <2>1, <2>2, <2>3, SlotOnlyInv
    DEF SlotOnly, Continues, SameStarted, Close, GoodRun, EInv, TypeOK
<1> QED BY <1>2, <1>3

-----------------------------------------------------------------------------
(* consume.                                                                *)

LEMMA AcceptedIs ==
  ASSUME NEW o \in Offers
  PROVE  GoodRun(Accepted(o)) /\ Accepted(o).offer = o /\ Accepted(o).mayHaveStarted = FALSE
<1>0. LeaseMs \in Nat /\ HeartbeatMs \in Nat
  BY ExecutorConstants DEF HeartbeatMs
<1> DEFINE r == Accepted(o)
<1>1. /\ NoRun \in Run /\ NoRun.seq = 0 /\ NoRun.lastRenewalSeq = 0 /\ NoRun.progress = FALSE
      /\ NoRun.cancelled = FALSE /\ NoRun.stopReason = "none" /\ NoRun.mayHaveStarted = FALSE
  BY NoRunIs DEF NoRun
<1>2. /\ r \in Run /\ r.phase = "prepared" /\ r.offer = o /\ r.mayHaveStarted = FALSE /\ r.seq = 0
      /\ r.lastRenewalSeq = 0 /\ r.progress = FALSE /\ r.cancelled = FALSE /\ r.stopReason = "none"
  BY <1>0, <1>1 DEF Accepted, Run, Phases
<1>3. ValidRun(r)
  BY <1>2 DEF ValidRun
<1> QED BY <1>2, <1>3 DEF GoodRun

(* An accepted offer opens the next generation: no process is left, and    *)
(* no await knows the new fence.                                           *)
LEMMA AcceptInv ==
  ASSUME EInv, NEW o \in Offers, Fresh("offer", o), ~Occupied,
         gen' = gen + 1, slot' = Accepted(o), last' = last,
         sent' = sent \cup {AcceptOf(o, gen + 1)},
         UNCHANGED <<memory, flow, driver>>
  PROVE  EInv'
<1> DEFINE c0 == [type |-> "offer", offer |-> o]
           m0 == AcceptOf(o, gen + 1)
<1>0. /\ gen \in Nat /\ slot = NoRun /\ last.gen = gen /\ GoodRun(slot')
      /\ slot'.offer = o /\ slot'.mayHaveStarted = FALSE
      /\ c0 \notin consumed /\ consumed' = consumed \cup {c0}
  BY AcceptedIs, OccupiedIs DEF EInv, TypeOK, Fresh
<1>1. TypeOK'
  <2>1. m0 \in Messages BY <1>0 DEF Messages, AcceptOf
  <2>2. c0 \in [type : {"offer", "cancel"}, offer : Offers] OBVIOUS
  <2> HIDE DEF m0, c0
  <2>3. sent' \subseteq Messages /\ consumed' \subseteq [type : {"offer", "cancel"}, offer : Offers]
    BY <1>0, <2>1, <2>2 DEF EInv, TypeOK, m0
  <2> QED BY <1>0, <2>3 DEF EInv, TypeOK, GoodRun, memory, flow, driver
<1>2. SlotInv' /\ Occupied'
  BY <1>0 DEF SlotInv, GoodRun, Occupied
<1>3. FenceInv'
  <2>1. IsFiniteSet(Offers) /\ OffersConsumed \subseteq Offers /\ o \notin OffersConsumed
    BY <1>0, ExecutorConstants DEF OffersConsumed
  <2>2. OffersConsumed' = OffersConsumed \cup {o}
    <3>1. \A p \in Offers : [type |-> "offer", offer |-> p] = c0 <=> p = o
      OBVIOUS
    <3> HIDE DEF c0
    <3> QED BY <1>0, <3>1 DEF OffersConsumed
  <2>3. /\ IsFiniteSet(OffersConsumed) /\ Cardinality(OffersConsumed) \in Nat
        /\ Cardinality(OffersConsumed') = Cardinality(OffersConsumed) + 1
    BY <2>1, <2>2, FS_Subset, FS_CardinalityType, FS_AddElement
  <2>4. gen' <= Cardinality(OffersConsumed')
    BY <1>0, <2>3 DEF EInv, FenceInv
  <2> QED
    BY <1>0, <1>2, <2>4 DEF EInv, FenceInv, driver, Gens
<1>4. JobInv'
  BY <1>0, <1>2 DEF EInv, JobInv, flow, driver, TypeOK
<1>5. SentInv'
  <2>0. m0.type = "accept" /\ m0.offer = o /\ m0.gen = gen + 1 /\ sent' = sent \cup {m0}
        /\ "accept" \notin Terminals
    BY DEF AcceptOf, Terminals
  <2>1. \A m \in sent : m.type \in {"accept", "reject"} => m.offer # o
    BY <1>0 DEF EInv, SentInv
  <2> HIDE DEF m0
  <2>2. OneVerdict'
    <3>1. \A m, n \in sent' : m.type \in {"accept", "reject"} /\ n.type \in {"accept", "reject"}
                                /\ m.offer = n.offer => m = n
      BY <2>0, <2>1 DEF EInv, SentInv, OneVerdict
    <3>2. \A m, n \in sent' : m.type \in {"result", "fail"} /\ n.type \in {"result", "fail"}
                                /\ m.gen = n.gen => m = n
      BY <2>0 DEF EInv, SentInv, OneVerdict
    <3>3. \A m \in sent' : m.type \in Terminals =>
                             [type |-> "accept", offer |-> m.offer, gen |-> m.gen] \in sent'
      BY <2>0 DEF EInv, SentInv, OneVerdict
    <3> QED BY <3>1, <3>2, <3>3 DEF OneVerdict
  <2>3. \A m \in sent' : m.type \in {"accept", "reject"} =>
                           [type |-> "offer", offer |-> m.offer] \in consumed'
    BY <1>0, <2>0 DEF EInv, SentInv
  <2>4. \A m \in sent' : m.type \in Terminals => m.gen \in 1..last'.gen
    BY <2>0 DEF EInv, SentInv
  <2>5. AcceptOf(slot'.offer, gen') \in sent'
    BY <1>0, <2>0 DEF m0
  <2> QED
    BY <2>0, <2>2, <2>3, <2>4, <2>5 DEF EInv, SentInv, AcceptOf
<1> QED BY <1>1, <1>2, <1>3, <1>4, <1>5 DEF EInv

(* A message about an offer or an ended run, with its R1 row; the run in   *)
(* the slot may be marked cancelled.                                       *)
LEMMA AnswerInv ==
  ASSUME EInv, NEW o \in Offers, NEW type \in {"offer", "cancel"}, Fresh(type, o),
         UNCHANGED <<gen, last, memory, flow, driver>>,
         slot' = slot \/ (Occupied /\ GoodRun(slot') /\ slot'.offer = slot.offer), SameStarted,
         \/ sent' = sent
         \/ type = "offer" /\ sent' = sent \cup {[type |-> "reject", offer |-> o, gen |-> 0]}
         \/ /\ last.offer = o
            /\ sent' = sent \cup {[type |-> "cancel.ack", offer |-> o, gen |-> last.gen]}
  PROVE  EInv'
<1> DEFINE c0 == [type |-> type, offer |-> o]
<1>0. /\ c0 \notin consumed /\ consumed' = consumed \cup {c0} /\ c0.offer = o /\ c0.type = type
      /\ c0 \in [type : {"offer", "cancel"}, offer : Offers]
      /\ gen \in Nat /\ last.gen \in Nat
      /\ (last.offer = o => last.gen > 0 /\ AcceptOf(o, last.gen) \in sent)
  BY OfferIsPair DEF EInv, TypeOK, Fresh, SentInv, Ended
<1> DEFINE r0 == [type |-> "reject", offer |-> o, gen |-> 0]
           a0 == [type |-> "cancel.ack", offer |-> o, gen |-> last.gen]
<1>1. /\ r0.type = "reject" /\ r0.offer = o /\ r0 \in Messages
      /\ a0.type = "cancel.ack" /\ a0.offer = o /\ a0.gen = last.gen /\ a0 \in Messages
  BY <1>0 DEF Messages, Terminals
<1>2. \/ sent' = sent
      \/ type = "offer" /\ sent' = sent \cup {r0}
      \/ last.offer = o /\ sent' = sent \cup {a0}
  OBVIOUS
<1>r. type = "offer" => \A m \in sent : m.type \in {"accept", "reject"} => m.offer # o
  BY <1>0 DEF EInv, SentInv
<1>o. type = "offer" => [type |-> "offer", offer |-> o] \in consumed'
  BY <1>0
<1> HIDE DEF c0, r0, a0
<1>3. TypeOK'
  BY <1>0, <1>1, <1>2, OccupiedIs DEF EInv, TypeOK, memory, flow, driver, GoodRun
<1>4. SlotInv' /\ Occupied' = Occupied /\ (Occupied => slot'.offer = slot.offer)
  BY OccupiedIs DEF EInv, SlotInv, Occupied, GoodRun
<1>5. FenceInv'
  <2>1. IsFiniteSet(Offers) /\ OffersConsumed \subseteq OffersConsumed'
        /\ OffersConsumed' \subseteq Offers
    BY <1>0, ExecutorConstants DEF OffersConsumed
  <2>2. /\ Cardinality(OffersConsumed) <= Cardinality(OffersConsumed')
        /\ Cardinality(OffersConsumed) \in Nat /\ Cardinality(OffersConsumed') \in Nat
    BY <2>1, FS_Subset, FS_CardinalityType
  <2> QED BY <1>0, <1>4, <2>2 DEF EInv, FenceInv, driver, SameStarted
<1>6. JobInv'
  BY <1>4 DEF EInv, JobInv, flow, driver, SameStarted
<1>7. SentInv'
  <2>1. OneVerdict'
    <3>1. \A m, n \in sent' : m.type \in {"accept", "reject"} /\ n.type \in {"accept", "reject"}
                                /\ m.offer = n.offer => m = n
      BY <1>1, <1>2, <1>r DEF EInv, SentInv, OneVerdict
    <3>2. \A m, n \in sent' : m.type \in {"result", "fail"} /\ n.type \in {"result", "fail"}
                                /\ m.gen = n.gen => m = n
      BY <1>1, <1>2 DEF EInv, SentInv, OneVerdict
    <3>3. \A m \in sent' : m.type \in Terminals =>
                             [type |-> "accept", offer |-> m.offer, gen |-> m.gen] \in sent'
      BY <1>0, <1>1, <1>2 DEF EInv, SentInv, OneVerdict, AcceptOf, Terminals
    <3> QED BY <3>1, <3>2, <3>3 DEF OneVerdict
  <2>2. \A m \in sent' : m.type \in {"accept", "reject"} =>
                           [type |-> "offer", offer |-> m.offer] \in consumed'
    BY <1>0, <1>1, <1>2, <1>o DEF EInv, SentInv
  <2>3. \A m \in sent' : m.type \in Terminals => m.gen \in 1..last'.gen
    BY <1>0, <1>1, <1>2 DEF EInv, SentInv, Terminals
  <2> QED BY <1>2, <1>4, <2>1, <2>2, <2>3 DEF EInv, SentInv, AcceptOf
<1> QED BY <1>3, <1>4, <1>5, <1>6, <1>7 DEF EInv

LEMMA OfferInv ==
  ASSUME EInv, NEW o \in Offers, NEW gatesPass \in BOOLEAN, Offer(o, gatesPass)
  PROVE  EInv'
<1>1. CASE gatesPass /\ ~Occupied /\ ~closing /\ ~Stale(o)
  BY <1>1, AcceptInv DEF Offer, AcceptOf
<1>2. CASE ~(gatesPass /\ ~Occupied /\ ~closing /\ ~Stale(o))
  BY <1>2, AnswerInv DEF Offer, SameStarted
<1> QED BY <1>1, <1>2

LEMMA CancelInv ==
  ASSUME EInv, NEW o \in Offers, Cancel(o)
  PROVE  EInv'
<1>1. \/ sent' = sent
      \/ last.offer = o /\ sent' = sent \cup {[type |-> "cancel.ack", offer |-> o, gen |-> last.gen]}
  BY DEF Cancel
<1>2. CASE slot.offer # o
  BY <1>1, <1>2, AnswerInv DEF Cancel, SameStarted
<1>3. CASE slot.offer = o
  <2>1. Occupied /\ GoodRun(slot)
    BY <1>3, OfferIsPair, NoRunIs, OccupiedIs DEF EInv
  <2>2. slot' = [slot EXCEPT !.cancelled = TRUE, !.stopReason = "cancel",
                   !.phase = IF slot.phase = "recovery_required" THEN slot.phase ELSE "stopping"]
    BY <1>3 DEF Cancel
  <2>3. /\ slot' \in Run /\ slot'.stopReason = "cancel" /\ slot'.cancelled = TRUE
        /\ slot'.phase = (IF slot.phase = "recovery_required" THEN slot.phase ELSE "stopping")
        /\ slot'.offer = slot.offer /\ slot'.mayHaveStarted = slot.mayHaveStarted
        /\ slot'.seq = slot.seq /\ slot'.lastRenewalSeq = slot.lastRenewalSeq
        /\ slot'.progress = slot.progress
    BY <2>1, <2>2 DEF GoodRun, Run, Phases, StopReasons
  <2>4. ValidRun(slot')
    BY <2>1, <2>3 DEF GoodRun, ValidRun
  <2>5. GoodRun(slot') /\ SameStarted
    BY <2>1, <2>3, <2>4 DEF GoodRun, SameStarted
  <2> QED BY <1>1, <2>1, <2>3, <2>5, AnswerInv DEF Cancel
<1> QED BY <1>2, <1>3

-----------------------------------------------------------------------------
(* settle, its continuations, late starts and recovery.                    *)

JobTypes ==
  /\ job \in [pc : {"idle", "recover", "prepare", "start", "quiesce", "publish"}, gen : Nat]
  /\ late \in [pc : {"none", "handle", "quiesce"}, gen : Nat]

LatchesTyped ==
  /\ up' \in BOOLEAN /\ ready' \in BOOLEAN /\ closing' \in BOOLEAN /\ faulted' \in BOOLEAN
  /\ halted' \in BOOLEAN /\ starting' \in BOOLEAN

(* The run in the slot after a tick, if there is one.                      *)
LEMMA SettledRun ==
  ASSUME EInv, Occupied
  PROVE  /\ GoodRun(Ticked(slot)) /\ Ticked(slot).offer = slot.offer
         /\ Ticked(slot).mayHaveStarted = slot.mayHaveStarted
         /\ Ticked(slot).stopReason = "none" => slot.stopReason = "none"
         /\ gen \in Gens /\ gen \in 1..gen /\ gen \in Nat
<1>1. GoodRun(slot) /\ last.gen = gen - 1
  BY OccupiedIs DEF EInv
<1>2. gen \in 1..gen
  BY <1>1 DEF EInv, TypeOK, Ended
<1> QED BY <1>1, <1>2, TickedIs, GenBound DEF EInv, TypeOK

LEMMA FinishStep ==
  ASSUME EInv, NEW s, NEW g, NEW kind, Finish(s, g, kind),
         \/ s = slot
         \/ Occupied /\ GoodRun(s) /\ s.offer = slot.offer /\ s.mayHaveStarted = slot.mayHaveStarted,
         Occupied /\ gen = g => proc[gen] \in Quiet,
         UNCHANGED <<gen, consumed, driver>>, LatchesTyped,
         job' \in {job, Idle}, late' \in {late, NoLate}
  PROVE  EInv'
<1> USE DEF driver
<1>1. /\ Ends \/ (Continues /\ SameStarted)
      /\ slot' \in Run /\ last' \in Ended /\ sent' \subseteq Messages /\ live' \in Nat
  BY FinishEffect
<1>2. JobInv'
  BY <1>1, JobKept
<1>3. JobTypes'
  BY DEF EInv, TypeOK, JobTypes, Idle, NoLate
<1>4. TypeOK'
  BY <1>1, <1>3 DEF EInv, TypeOK, JobTypes, LatchesTyped
<1> QED BY <1>1, <1>2, <1>4, RunStep

LEMMA UnknownStep ==
  ASSUME EInv, NEW s, NEW g, NEW reason \in StopReasons \ {"cancel"}, Unknown(s, g, reason),
         \/ s = slot
         \/ Occupied /\ GoodRun(s) /\ s.offer = slot.offer /\ s.mayHaveStarted = slot.mayHaveStarted,
         Occupied /\ gen = g => s.mayHaveStarted,
         UNCHANGED <<gen, last, sent, consumed, live, driver>>, LatchesTyped,
         JobTypes', JobInv'
  PROVE  EInv'
<1> USE DEF driver
<1>1. Continues /\ SameStarted /\ slot' \in Run
  BY UnknownEffect DEF SameStarted
<1>2. TypeOK'
  BY <1>1 DEF EInv, TypeOK, JobTypes, LatchesTyped, Continues
<1> QED BY <1>1, <1>2, RunStep

(* A process whose outcome is known is gone.                               *)
LEMMA OutcomeQuiet ==
  ASSUME EInv, NEW g \in Gens, outcome[g] # "none"
  PROVE  proc[g] \in Quiet
BY DEF EInv, FenceInv, Quiet

LEMMA SettleInv ==
  ASSUME EInv, Settle
  PROVE  EInv'
<1>0. Occupied
  BY DEF Settle, SettleOutcome, SettlePrepare, SettleStop, CanSettle
<1>1. CASE SettleOutcome
  <2> DEFINE s == Ticked(slot)
  <2>1. GoodRun(s) /\ s.offer = slot.offer /\ s.mayHaveStarted = slot.mayHaveStarted
        /\ gen \in Gens /\ gen \in 1..gen /\ gen \in Nat
    BY <1>0, SettledRun
  <2>2. live = gen /\ outcome[gen] # "none" /\ proc[gen] \in Quiet
    BY <1>1, <2>1, OutcomeQuiet DEF SettleOutcome
  <2>3. LatchesTyped /\ UNCHANGED <<gen, consumed, memory, starting, late, driver>>
    BY <1>1 DEF SettleOutcome, LatchesTyped, memory, EInv, TypeOK
  <2>4. CASE Finish(s, gen, outcome[live]) /\ UNCHANGED job
    BY <1>0, <2>1, <2>2, <2>3, <2>4, FinishStep
  <2>5. CASE slot' = s /\ Awaits("publish") /\ UNCHANGED <<sent, last, live>>
    <3> USE <2>5, <2>3 DEF driver
    <3>1. Continues /\ SameStarted
      BY <1>0, <2>1 DEF Continues, SameStarted
    <3>2. JobTypes' /\ job'.pc = "publish" /\ job'.gen = gen
      BY <2>1 DEF Awaits, JobTypes, EInv, TypeOK
    <3>3. TypeOK'
      BY <2>1, <3>2 DEF EInv, TypeOK, JobTypes, LatchesTyped, GoodRun
    <3>4. JobInv'
      BY <1>0, <2>1, <2>2, <3>1, <3>2 DEF EInv, JobInv, SameStarted, Occupied, GoodRun
    <3> QED BY <3>1, <3>3, <3>4, RunStep
  <2> QED BY <1>1, <2>4, <2>5 DEF SettleOutcome
<1>2. CASE SettlePrepare
  <2> USE <1>2 DEF SettlePrepare, durable, memory, driver
  <2>1. GoodRun(slot) /\ gen \in 1..gen /\ gen \in Nat
    BY <1>0, SettledRun, OccupiedIs DEF EInv
  <2>2. slot.phase = "prepared" /\ ~slot.mayHaveStarted
    <3>1. Ticked(slot).phase = "prepared" /\ GoodRun(Ticked(slot))
          /\ Ticked(slot).mayHaveStarted = slot.mayHaveStarted
      BY <1>0, SettledRun
    <3>2. ~Ticked(slot).mayHaveStarted
      BY <3>1 DEF GoodRun, ValidRun
    <3>3. slot.phase = "prepared"
      BY <3>1, <2>1 DEF Ticked, GoodRun, Run
    <3> QED BY <3>1, <3>2, <3>3
  <2>3. job' = [pc |-> "prepare", gen |-> gen]
    BY DEF Awaits
  <2>4. TypeOK'
    BY <2>1, <2>3 DEF EInv, TypeOK
  <2>5. JobInv'
    BY <2>1, <2>2, <2>3 DEF EInv, JobInv, Occupied
  <2>6. Continues /\ SameStarted
    BY DEF Continues, SameStarted
  <2> QED BY <2>4, <2>5, <2>6, RunStep
<1>3. CASE SettleStop
  <2> DEFINE s == Ticked(slot)
  <2>1. GoodRun(s) /\ s.offer = slot.offer /\ s.mayHaveStarted = slot.mayHaveStarted
        /\ gen \in Gens /\ gen \in 1..gen /\ gen \in Nat /\ slot.mayHaveStarted \in BOOLEAN
    BY <1>0, SettledRun, OccupiedIs DEF EInv, Run
  <2>2. /\ UNCHANGED <<gen, consumed, up, ready, closing, faulted, starting, late>>
        /\ UNCHANGED <<handle, proc, outcome, starts>>
    BY <1>3 DEF SettleStop
  <2>3. ~slot.mayHaveStarted => proc[gen] \in Quiet
    BY <2>1 DEF EInv, FenceInv
  <2>4. CASE ~s.mayHaveStarted /\ Finish(s, gen, "failed") /\ UNCHANGED <<halted, job, signalled>>
    BY <1>0, <2>1, <2>2, <2>3, <2>4, FinishStep DEF LatchesTyped, EInv, TypeOK, driver
  <2>5. CASE /\ s.mayHaveStarted /\ slot' = s /\ Awaits("quiesce") /\ Stop(live)
             /\ UNCHANGED <<sent, last, live, halted>>
    <3> USE <2>5, <2>2
    <3>1. Continues /\ SameStarted
      BY <1>0, <2>1 DEF Continues, SameStarted
    <3>2. JobTypes' /\ job'.pc = "quiesce" /\ job'.gen = gen
      BY <2>1 DEF Awaits, JobTypes, EInv, TypeOK
    <3>3. TypeOK'
      BY <2>1, <3>2, StopTyped DEF EInv, TypeOK, JobTypes, GoodRun
    <3>4. JobInv'
      BY <2>1, <3>1, <3>2 DEF EInv, JobInv, SameStarted, Occupied, GoodRun
    <3> QED BY <3>1, <3>3, <3>4, RunStep
  <2>6. CASE /\ s.mayHaveStarted /\ Unknown(s, gen, "execution_interrupted")
             /\ UNCHANGED <<sent, last, live, job, signalled>>
    <3>1. Continues /\ SameStarted
      BY <1>0, <2>1, <2>2, <2>6, UnknownEffect DEF StopReasons, SameStarted
    <3>2. JobInv' /\ JobTypes'
      BY <2>2, <2>6, <3>1, JobKept DEF JobTypes, EInv, TypeOK
    <3>3. LatchesTyped
      BY <2>2, <2>6 DEF LatchesTyped, Unknown, EInv, TypeOK
    <3> QED BY <1>0, <2>1, <2>2, <2>6, <3>2, <3>3, UnknownStep DEF StopReasons, driver
  <2> QED BY <1>3, <2>4, <2>5, <2>6 DEF SettleStop
<1> QED BY <1>1, <1>2, <1>3 DEF Settle

(* 'starting' is committed before the driver is invoked.  The run had not  *)
(* been started, so there was no process and no outcome of this fence.     *)
LEMMA PrepareOkInv ==
  ASSUME EInv, PrepareOk
  PROVE  EInv'
<1> DEFINE g == job.gen
           begun == [slot EXCEPT !.phase = "starting", !.mayHaveStarted = TRUE]
<1>0. /\ job.pc = "prepare" /\ g \in 1..gen /\ g \in Gens /\ gen \in Nat
      /\ UNCHANGED <<gen, last, consumed, sent, up, ready, closing, faulted, live, late>>
      /\ UNCHANGED <<handle, outcome, signalled>>
  BY GenBound DEF PrepareOk, EInv, JobInv, TypeOK
<1>1. CASE JobDone /\ UNCHANGED <<slot, halted, starting, proc, starts>>
  <2>1. Continues /\ SameStarted
    BY <1>0, <1>1 DEF Continues, SameStarted
  <2>2. JobInv'
    BY <1>0, <1>1, <2>1, JobKept DEF JobDone
  <2>3. TypeOK'
    BY <1>0, <1>1 DEF EInv, TypeOK, JobDone, Idle
  <2> QED BY <1>0, <1>1, <2>1, <2>2, <2>3, RunStep
<1>2. ASSUME gen = g, slot.phase = "prepared"
      PROVE  /\ Occupied /\ GoodRun(begun) /\ begun.offer = slot.offer /\ begun.mayHaveStarted = TRUE
             /\ ~slot.mayHaveStarted /\ starts[g] = 0
             /\ \A h \in Gens : proc[h] \in Quiet
  <2>1. Occupied /\ GoodRun(slot)
    BY <1>2, OccupiedIs DEF Occupied, EInv
  <2>2. /\ begun \in Run /\ begun.phase = "starting" /\ begun.stopReason = slot.stopReason
        /\ begun.offer = slot.offer /\ begun.mayHaveStarted = TRUE
        /\ begun.seq = slot.seq /\ begun.lastRenewalSeq = slot.lastRenewalSeq
        /\ begun.progress = slot.progress /\ begun.cancelled = slot.cancelled
    BY <2>1 DEF GoodRun, Run, Phases
  <2>3. ~slot.mayHaveStarted
    BY <1>2, <2>1 DEF GoodRun, ValidRun
  <2> HIDE DEF begun
  <2>4. ValidRun(begun)
    BY <1>2, <2>1, <2>2, <2>3 DEF GoodRun, ValidRun
  <2>5. starts[g] = 0 /\ \A h \in Gens : proc[h] \in Quiet
    BY <1>0, <1>2, <2>1, <2>3 DEF EInv, FenceInv
  <2> QED BY <2>1, <2>2, <2>3, <2>4, <2>5 DEF GoodRun
<1>3. CASE /\ gen = g /\ slot.phase = "prepared" /\ faulted /\ JobDone
           /\ Unknown(begun, g, "execution_interrupted")
           /\ UNCHANGED <<starting, proc, starts>>
  <2>1. Continues /\ slot' \in Run /\ halted' = TRUE /\ slot'.mayHaveStarted = TRUE
    <3> HIDE DEF begun
    <3> QED BY <1>0, <1>2, <1>3, UnknownEffect DEF StopReasons
  <2>2. SlotInv' /\ SentInv'
    BY <1>0, <2>1, ContinuesSent
  <2>3. TypeOK'
    BY <1>0, <1>3, <2>1 DEF EInv, TypeOK, JobDone, Idle
  <2>4. OffersConsumed' = OffersConsumed BY <1>0 DEF OffersConsumed
  <2>5. FenceInv'
    BY <1>0, <1>2, <1>3, <2>1, <2>4 DEF EInv, FenceInv
  <2>6. JobInv'
    BY <1>0, <1>3, <2>1 DEF EInv, JobInv, JobDone, Idle
  <2> QED BY <2>2, <2>3, <2>5, <2>6 DEF EInv
<1>4. CASE /\ gen = g /\ slot.phase = "prepared" /\ ~faulted /\ Awaits("start")
           /\ slot' = begun /\ starting' = TRUE
           /\ proc' = [proc EXCEPT ![g] = "invoked"]
           /\ starts' = [starts EXCEPT ![g] = starts[g] + 1]
           /\ UNCHANGED halted
  <2>1. /\ Continues /\ slot' \in Run /\ slot'.mayHaveStarted = TRUE /\ Occupied' /\ Occupied
        /\ starts[g] = 0 /\ \A h \in Gens : proc[h] \in Quiet
    <3> HIDE DEF begun
    <3> QED BY <1>0, <1>2, <1>4 DEF Continues, GoodRun, Occupied
  <2>2. SlotInv' /\ SentInv'
    BY <1>0, <2>1, ContinuesSent
  <2>3. /\ proc' \in [Gens -> ProcStates] /\ starts' \in [Gens -> Nat]
        /\ proc'[g] = "invoked" /\ starts'[g] = 1
        /\ \A h \in Gens \ {g} : proc'[h] = proc[h] /\ starts'[h] = starts[h]
    BY <1>0, <1>4, <2>1 DEF EInv, TypeOK, ProcStates
  <2>4. job' = [pc |-> "start", gen |-> gen]
    BY <1>4 DEF Awaits
  <2>5. TypeOK'
    BY <1>0, <1>4, <2>1, <2>3, <2>4 DEF EInv, TypeOK
  <2>6. OffersConsumed' = OffersConsumed BY <1>0 DEF OffersConsumed
  <2>7. outcome[g] = "none"
    BY <1>0, <2>1 DEF EInv, FenceInv
  <2>8. FenceInv'
    <3> SUFFICES ASSUME NEW h \in Gens
                 PROVE  /\ proc'[h] \notin Quiet => Occupied' /\ h = gen' /\ slot'.mayHaveStarted
                        /\ starts'[h] <= 1 /\ (starts'[h] = 0 => proc'[h] = "none")
                        /\ starts'[h] # 0 => h <= gen' /\ (Occupied' /\ h = gen' => slot'.mayHaveStarted)
                        /\ outcome'[h] # "none" => proc'[h] \in {"failed", "dead"}
      BY <1>0, <2>6 DEF FenceInv, EInv
    <3>1. CASE h = g BY <1>0, <1>4, <2>1, <2>3, <2>7, <3>1
    <3>2. CASE h # g BY <1>0, <1>4, <2>1, <2>3, <3>2 DEF EInv, FenceInv
    <3> QED BY <3>1, <3>2
  <2>9. JobInv'
    BY <1>0, <1>4, <2>1, <2>4 DEF EInv, JobInv
  <2> QED BY <2>2, <2>5, <2>8, <2>9 DEF EInv
<1> QED
  BY <1>1, <1>3, <1>4 DEF PrepareOk

(* What a continuation of settle() or recover() may rely on when it ends   *)
(* the run: a preparation that failed never started one; a stop and a      *)
(* publication know an outcome.                                            *)
LEMMA PrepareFailsInv ==
  ASSUME EInv, PrepareFails
  PROVE  EInv'
<1>1. Occupied /\ gen = job.gen => proc[gen] \in Quiet
  <2> SUFFICES ASSUME Occupied, gen = job.gen PROVE proc[gen] \in Quiet
    OBVIOUS
  <2>1. ~slot.mayHaveStarted /\ gen \in Gens
    BY SettledRun DEF EInv, JobInv, PrepareFails
  <2> QED BY <2>1 DEF EInv, FenceInv
<1> QED
  BY <1>1, FinishStep DEF PrepareFails, JobDone, LatchesTyped, memory, EInv, TypeOK

LEMMA QuiescedInv ==
  ASSUME EInv, Quiesced
  PROVE  EInv'
<1>1. Occupied /\ gen = job.gen => proc[gen] \in Quiet
  BY SettledRun, OutcomeQuiet DEF Quiesced
<1> QED
  BY <1>1, FinishStep DEF Quiesced, JobDone, LatchesTyped, memory, EInv, TypeOK

LEMMA PublishedInv ==
  ASSUME EInv, NEW kind, Published(kind)
  PROVE  EInv'
<1>1. Occupied /\ gen = job.gen => proc[gen] \in Quiet
  BY SettledRun, OutcomeQuiet DEF Published, EInv, JobInv
<1> QED
  BY <1>1, FinishStep DEF Published, JobDone, LatchesTyped, memory, EInv, TypeOK

(* A wait that ends without an answer leaves the run in the slot.          *)
LEMMA JobUnknownInv ==
  ASSUME EInv, NEW reason \in StopReasons \ {"cancel"}, Unknown(slot, job.gen, reason),
         job.pc \in {"recover", "start", "quiesce"}, JobDone,
         late' \in {late, NoLate, [pc |-> "handle", gen |-> job.gen]},
         UNCHANGED <<gen, last, consumed, sent, live, driver>>,
         UNCHANGED <<up, closing, faulted>>, ready' \in BOOLEAN, starting' \in BOOLEAN
  PROVE  EInv'
<1>1. /\ Occupied /\ gen = job.gen => slot.mayHaveStarted
      /\ job.gen \in 1..gen /\ job.gen \in Nat
  BY DEF EInv, JobInv, TypeOK
<1>2. Continues /\ SameStarted /\ halted' = TRUE
  BY <1>1, UnknownEffect DEF SameStarted
<1>3. LatchesTyped
  BY <1>2 DEF LatchesTyped, EInv, TypeOK
<1>4. JobTypes'
  BY <1>1 DEF JobTypes, JobDone, Idle, NoLate, EInv, TypeOK
<1>5. Occupied' = Occupied
  BY <1>2 DEF Continues, Occupied, GoodRun
<1>6. JobInv'
  BY <1>1, <1>2, <1>5 DEF EInv, JobInv, JobDone, Idle, NoLate, Continues, SameStarted, driver
<1> QED BY <1>1, <1>3, <1>4, <1>6, UnknownStep

LEMMA StartReturnsInv ==
  ASSUME EInv, StartReturns
  PROVE  EInv'
<1>0. job.gen \in 1..gen /\ job.gen \in Nat
  BY DEF EInv, JobInv, TypeOK, StartReturns
<1>1. Continues /\ SameStarted /\ slot' \in Run
  <2>1. CASE slot' = slot
    BY <2>1 DEF StartReturns, Continues, SameStarted, EInv, TypeOK
  <2>2. CASE slot' # slot
    <3>1. /\ Occupied /\ GoodRun(slot) /\ slot.phase = "starting"
          /\ slot' = [slot EXCEPT !.phase = "running"]
      BY <2>2, OccupiedIs DEF StartReturns, Occupied, EInv
    <3>2. /\ slot' \in Run /\ slot'.phase = "running" /\ slot'.stopReason = slot.stopReason
          /\ slot'.offer = slot.offer /\ slot'.mayHaveStarted = slot.mayHaveStarted
          /\ slot'.seq = slot.seq /\ slot'.lastRenewalSeq = slot.lastRenewalSeq
          /\ slot'.progress = slot.progress /\ slot'.cancelled = slot.cancelled
      BY <3>1 DEF GoodRun, Run, Phases
    <3>3. ValidRun(slot')
      BY <3>1, <3>2 DEF GoodRun, ValidRun
    <3> QED BY <3>1, <3>2, <3>3 DEF StartReturns, Continues, SameStarted, GoodRun
  <2> QED BY <2>1, <2>2
<1>2. signalled' \subseteq Gens
  BY StopTyped DEF StartReturns, EInv, TypeOK
<1>3. TypeOK'
  BY <1>0, <1>1, <1>2 DEF StartReturns, JobDone, Idle, memory, EInv, TypeOK
<1>4. JobInv'
  BY <1>1, JobKept DEF StartReturns, JobDone
<1> QED BY <1>1, <1>3, <1>4, RunStep DEF StartReturns

LEMMA ResumeInv ==
  ASSUME EInv, Resume
  PROVE  EInv'
<1>1. CASE StartRejects
  BY <1>1, JobUnknownInv DEF StartRejects, StopReasons, EInv, TypeOK
<1>2. CASE StartTimesOut
  BY <1>2, JobUnknownInv DEF StartTimesOut, StopReasons, EInv, TypeOK
<1>3. CASE QuiesceTimesOut
  BY <1>3, JobUnknownInv DEF QuiesceTimesOut, StopReasons, EInv, TypeOK
<1> QED
  BY <1>1, <1>2, <1>3, PrepareOkInv, PrepareFailsInv, StartReturnsInv, QuiescedInv, PublishedInv
  DEF Resume, StartEnds

LEMMA RecoverInv ==
  ASSUME EInv, Recover
  PROVE  EInv'
<1>1. CASE RecoverUnknown
  BY <1>1, JobUnknownInv DEF RecoverUnknown, StopReasons, EInv, TypeOK
<1>2. CASE RecoverStopped
  <2>1. Occupied /\ gen = job.gen => proc[gen] \in Quiet
    BY <1>2 DEF RecoverStopped, ProvedStopped, Quiet
  <2> QED
    BY <1>2, <2>1, FinishStep DEF RecoverStopped, JobDone, LatchesTyped, EInv, TypeOK
<1>3. CASE RecoverBegins
  <2> USE <1>3 DEF RecoverBegins, durable, driver
  <2>1. Continues /\ SameStarted
    BY DEF Continues, SameStarted
  <2>2. gen \in Nat /\ job = Idle
    BY DEF EInv, TypeOK
  <2>3. CASE slot.mayHaveStarted
    <3>1. Occupied /\ gen \in 1..gen
      BY <2>3, OccupiedIs, NoRunIs, SettledRun DEF EInv
    <3>2. job' = [pc |-> "recover", gen |-> gen] /\ ready' = ready
      BY <2>3 DEF Awaits
    <3>3. TypeOK'
      BY <2>2, <3>2 DEF EInv, TypeOK
    <3>4. JobInv'
      BY <2>3, <3>1, <3>2 DEF EInv, JobInv, Occupied
    <3> QED BY <2>1, <3>3, <3>4, RunStep
  <2>4. CASE ~slot.mayHaveStarted
    <3>1. TypeOK'
      BY <2>4 DEF EInv, TypeOK
    <3>2. JobInv'
      BY <2>1, <2>4, JobKept
    <3> QED BY <2>1, <3>1, <3>2, RunStep
  <2> QED BY <2>3, <2>4
<1> QED BY <1>1, <1>2, <1>3 DEF Recover

(* The continuation a timed-out start leaves behind.                       *)
LEMMA LateInv ==
  ASSUME EInv, Late
  PROVE  EInv'
<1>0. /\ late.gen \in 1..gen /\ late.gen \in Nat
      /\ Occupied /\ late.gen = gen => slot.mayHaveStarted
  BY DEF Late, LateReturns, LateRejects, LateQuiesced, LateTimesOut, EInv, JobInv, TypeOK
<1>1. CASE LateReturns
  <2> USE <1>1 DEF LateReturns, durable
  <2>1. Continues /\ SameStarted
    BY DEF Continues, SameStarted
  <2>2. signalled' \subseteq Gens
    BY StopTyped DEF EInv
  <2>3. late' = [pc |-> "quiesce", gen |-> late.gen]
    BY DEF EInv, TypeOK
  <2>4. TypeOK'
    BY <1>0, <2>2, <2>3 DEF EInv, TypeOK, memory
  <2>5. JobInv'
    BY <1>0, <2>3 DEF EInv, JobInv, Occupied
  <2> QED BY <2>1, <2>4, <2>5, RunStep
<1>2. CASE LateRejects
  <2> USE <1>2 DEF LateRejects, durable, driver
  <2>1. Continues /\ SameStarted
    BY DEF Continues, SameStarted
  <2>2. TypeOK'
    BY DEF EInv, TypeOK, memory, NoLate
  <2>3. JobInv'
    BY <2>1, JobKept
  <2> QED BY <2>1, <2>2, <2>3, RunStep
<1>3. CASE LateQuiesced
  <2>1. Occupied /\ gen = late.gen => proc[gen] \in Quiet
    BY <1>3, SettledRun, OutcomeQuiet DEF LateQuiesced
  <2>2. CASE ~faulted
    BY <1>3, <2>1, <2>2, FinishStep DEF LateQuiesced, LatchesTyped, memory, EInv, TypeOK
  <2>3. CASE faulted
    <3> USE <1>3, <2>3 DEF LateQuiesced, driver
    <3>1. Continues /\ SameStarted
      BY DEF Continues, SameStarted
    <3>2. TypeOK'
      BY DEF EInv, TypeOK, memory, NoLate
    <3>3. JobInv'
      BY <3>1, JobKept
    <3> QED BY <3>1, <3>2, <3>3, RunStep
  <2> QED BY <2>2, <2>3
<1>4. CASE LateTimesOut
  <2> USE <1>4 DEF LateTimesOut, driver
  <2>1. Continues /\ SameStarted /\ halted' \in BOOLEAN
    <3>1. CASE faulted
      BY <3>1 DEF Continues, SameStarted, EInv, TypeOK
    <3>2. CASE ~faulted
      BY <1>0, <3>2, UnknownEffect DEF SameStarted, StopReasons
    <3> QED BY <3>1, <3>2
  <2>2. slot' \in Run
    BY <2>1 DEF Continues, GoodRun, EInv, TypeOK
  <2>3. TypeOK'
    BY <2>1, <2>2 DEF EInv, TypeOK, NoLate
  <2>4. JobInv'
    BY <2>1, JobKept
  <2> QED BY <2>1, <2>3, <2>4, RunStep
<1> QED BY <1>1, <1>2, <1>3, <1>4 DEF Late

-----------------------------------------------------------------------------
(* Faults, crashes and the driver's processes.                             *)

LEMMA LatchInv ==
  ASSUME EInv, Fault \/ Halt \/ Restart
  PROVE  EInv'
<1> USE DEF durable, flow
<1>1. /\ UNCHANGED <<gen, slot, last, consumed, sent, starting, live, job, late>>
      /\ UNCHANGED <<handle, proc, outcome, starts>>
  BY DEF Fault, Halt, Restart, driver
<1>2. Continues /\ SameStarted
  BY <1>1 DEF Continues, SameStarted
<1>3. signalled' \subseteq Gens
  BY StopTyped DEF Fault, Halt, Restart, driver, EInv, TypeOK
<1>4. LatchesTyped
  BY <1>1 DEF Fault, Halt, Restart, LatchesTyped, EInv, TypeOK
<1>5. TypeOK'
  BY <1>1, <1>3, <1>4 DEF EInv, TypeOK, LatchesTyped
<1>6. JobInv'
  BY <1>1, <1>2, JobKept
<1> QED BY <1>1, <1>2, <1>5, <1>6, RunStep

(* What the driver alone may do: a process that was not quiet moves on,    *)
(* and outcomes appear only when it is gone.                               *)
DriverMoves ==
  /\ UNCHANGED <<durable, starts>>
  /\ proc' \in [Gens -> ProcStates] /\ outcome' \in [Gens -> {"none", "result", "failed"}]
  /\ \A g \in Gens :
       /\ proc'[g] # proc[g] => proc[g] \notin Quiet
       /\ outcome'[g] # "none" => proc'[g] \in {"failed", "dead"}

LEMMA DriverMovesInv ==
  ASSUME EInv, DriverMoves, TypeOK', JobInv'
  PROVE  EInv'
<1> USE DEF DriverMoves, durable
<1>1. Continues /\ SameStarted
  BY DEF Continues, SameStarted
<1>2. SlotInv' /\ SentInv'
  BY <1>1, ContinuesSent
<1>3. OffersConsumed' = OffersConsumed
  BY DEF OffersConsumed
<1>4. FenceInv'
  <2> SUFFICES ASSUME NEW g \in Gens
               PROVE  /\ proc'[g] \notin Quiet => Occupied' /\ g = gen' /\ slot'.mayHaveStarted
                      /\ starts'[g] <= 1 /\ (starts'[g] = 0 => proc'[g] = "none")
                      /\ starts'[g] # 0 => g <= gen' /\ (Occupied' /\ g = gen' => slot'.mayHaveStarted)
                      /\ outcome'[g] # "none" => proc'[g] \in {"failed", "dead"}
    BY <1>3 DEF EInv, FenceInv
  <2>1. proc[g] \notin Quiet => proc[g] # "none"
    BY DEF Quiet
  <2> QED BY <2>1 DEF EInv, FenceInv, Occupied
<1> QED BY <1>2, <1>4 DEF EInv

LEMMA CrashInv ==
  ASSUME EInv, Crash
  PROVE  EInv'
<1> USE DEF Crash
<1>1. PICK spawned \in BOOLEAN :
        proc' = [g \in Gens |->
                   CASE proc[g] = "alive" -> "orphan"
                     [] proc[g] = "invoked" -> IF spawned THEN "orphan" ELSE "none"
                     [] OTHER -> proc[g]]
  OBVIOUS
<1>2. \A g \in Gens : proc'[g] \in ProcStates /\ (proc'[g] # proc[g] => proc[g] \notin Quiet)
  BY <1>1 DEF EInv, TypeOK, ProcStates, Quiet
<1>3. proc' \in [Gens -> ProcStates]
  BY <1>1, <1>2
<1>4. DriverMoves
  BY <1>2, <1>3 DEF DriverMoves
<1>5. TypeOK'
  BY <1>3 DEF EInv, TypeOK, durable, Idle, NoLate
<1>6. JobInv'
  BY DEF EInv, JobInv, durable, Idle, NoLate, Occupied
<1> QED BY <1>4, <1>5, <1>6, DriverMovesInv

LEMMA ChildInv ==
  ASSUME EInv, Child
  PROVE  EInv'
<1>1. PICK g \in Gens : \/ Spawn(g)
                        \/ \E kind \in {"result", "failed"} : Exit(g, kind)
                        \/ TaskTimeout(g)
                        \/ OrphanExits(g)
  BY DEF Child
<1> DEFINE Moved ==
      /\ UNCHANGED <<durable, memory, flow, starts>>
      /\ signalled' \subseteq Gens
      /\ handle' \in Nat
      /\ proc[g] \notin Quiet
      /\ \E p \in ProcStates : proc' = [proc EXCEPT ![g] = p]
      /\ \/ outcome' = outcome /\ outcome[g] = "none"
         \/ /\ proc'[g] \in {"failed", "dead"}
            /\ \E k \in {"result", "failed"} : outcome' = [outcome EXCEPT ![g] = k]
<1>2. Moved
  <2>0. g \in Nat /\ handle \in Nat /\ proc \in [Gens -> ProcStates] /\ signalled \subseteq Gens
    BY DEF Gens, EInv, TypeOK
  <2>1. proc[g] \notin Quiet => outcome[g] = "none"
    BY DEF EInv, FenceInv, Quiet
  <2>2. CASE Spawn(g)
    BY <2>0, <2>1, <2>2 DEF Spawn, Quiet, ProcStates
  <2>3. ASSUME NEW kind \in {"result", "failed"}, Exit(g, kind)
        PROVE  Moved
    BY <2>0, <2>1, <2>3 DEF Exit, Quiet, ProcStates
  <2>4. CASE OrphanExits(g)
    BY <2>0, <2>1, <2>4 DEF OrphanExits, Quiet, ProcStates
  <2>5. CASE TaskTimeout(g)
    <3>1. proc' = [proc EXCEPT ![g] = "alive"]
      BY <2>0, <2>5 DEF TaskTimeout
    <3> QED BY <2>0, <2>1, <2>5, <3>1 DEF TaskTimeout, Quiet, ProcStates
  <2> HIDE DEF Moved
  <2> QED BY <1>1, <2>2, <2>3, <2>4, <2>5
<1>3. proc' \in [Gens -> ProcStates] /\ outcome' \in [Gens -> {"none", "result", "failed"}]
  BY <1>2 DEF EInv, TypeOK
<1>4. \A h \in Gens \ {g} : proc'[h] = proc[h] /\ outcome'[h] = outcome[h]
  BY <1>2 DEF EInv, TypeOK
<1>5. DriverMoves
  BY <1>2, <1>3, <1>4 DEF DriverMoves, EInv, FenceInv
<1>6. TypeOK'
  BY <1>2, <1>3 DEF EInv, TypeOK, durable, memory, flow
<1>7. JobInv'
  <2>1. job.pc = "publish" => job.gen \in Gens
    BY GenBound DEF EInv, JobInv
  <2>2. \A h \in Gens : outcome[h] # "none" => outcome'[h] # "none"
    BY <1>2, <1>4 DEF EInv, TypeOK
  <2> QED BY <1>2, <2>1, <2>2 DEF EInv, JobInv, durable, flow, Occupied
<1> QED BY <1>5, <1>6, <1>7, DriverMovesInv

-----------------------------------------------------------------------------
LEMMA StepInv == EInv /\ [Next]_vars => EInv'
<1> SUFFICES ASSUME EInv, [Next]_vars PROVE EInv'
  OBVIOUS
<1>1. CASE Consume
  BY <1>1, OfferInv, CancelInv, RenewInv DEF Consume
<1>2. CASE UNCHANGED vars
  <2> USE <1>2 DEF vars, durable, memory, flow, driver
  <2>1. SlotOnly
    BY DEF SlotOnly, Continues, SameStarted, EInv, TypeOK
  <2> QED BY <2>1, SlotOnlyInv
<1> QED
  BY <1>1, <1>2, TickInv, SettleInv, ResumeInv, LateInv, RecoverInv, CloseInv, LatchInv, CrashInv,
     ChildInv, AdvanceInv
  DEF Next

(* The inductive invariant holds of every reachable state: the slot, the   *)
(* driver's processes, the awaits of settle() and the sealed messages of   *)
(* executor.ts agree across every interleaving and crash.                  *)
THEOREM ExecutorInvariant == Spec => []EInv
BY InitInv, StepInv, PTL DEF Spec

(* decode() accepts the persisted slot and last run after every commit of  *)
(* the executor.                                                           *)
THEOREM StateDecodes == Spec => []PersistedRunDecodes
<1>1. EInv => PersistedRunDecodes
  <2> SUFFICES ASSUME EInv PROVE PersistedRunDecodes
    OBVIOUS
  <2>1. (Occupied => ValidRun(slot)) /\ last.gen = gen - (IF Occupied THEN 1 ELSE 0)
    BY OccupiedIs DEF EInv, GoodRun, TypeOK
  <2> QED BY <2>1 DEF PersistedRunDecodes, Decodes, EInv
<1> QED BY <1>1, ExecutorInvariant, PTL

(* The fence of the driver: never two runs of this node with a process,    *)
(* orphans of a crashed node and starts in flight included.                *)
THEOREM FenceHolds == Spec => []OneProcess
<1>1. EInv => OneProcess
  BY DEF EInv, FenceInv, OneProcess
<1> QED BY <1>1, ExecutorInvariant, PTL

(* finish seals task.result, task.fail or task.cancel.ack only when no     *)
(* process of that run exists, nor ever will again.                        *)
THEOREM TerminalMeansQuiet == Spec => []QuiescedBeforeTerminal
<1>1. EInv => QuiescedBeforeTerminal
  <2> SUFFICES ASSUME EInv, NEW m \in sent, m.type \in Terminals
               PROVE  proc[m.gen] \in Quiet
    BY DEF QuiescedBeforeTerminal
  <2>1. m.gen \in 1..last.gen /\ last.gen \in Nat /\ gen \in Nat
    BY DEF EInv, SentInv, TypeOK, Ended
  <2>2. last.gen = gen \/ last.gen = gen - 1
    BY OccupiedIs DEF EInv
  <2>3. m.gen \in Gens
    BY <2>1, <2>2, GenBound DEF EInv
  <2>4. ~(Occupied /\ m.gen = gen)
    BY <2>1, OccupiedIs DEF EInv
  <2> QED BY <2>3, <2>4 DEF EInv, FenceInv
<1> QED BY <1>1, ExecutorInvariant, PTL

(* driver.start is invoked at most once per fence, and an offer is         *)
(* accepted at most once, whatever is repeated or restarted.               *)
THEOREM StartsOnce == Spec => []StartOnce
<1>1. EInv => StartOnce
  BY DEF EInv, FenceInv, SentInv, OneVerdict, StartOnce
<1> QED BY <1>1, ExecutorInvariant, PTL

(* One answer to an offer, one end of an accepted run, and no end without  *)
(* its acceptance: what consume and finish seal tells one story.           *)
THEOREM VerdictIsOne == Spec => []OneVerdict
<1>1. EInv => OneVerdict
  BY DEF EInv, SentInv
<1> QED BY <1>1, ExecutorInvariant, PTL

(* finish seals a result only for a run with no stop reason.               *)
LEMMA FinishResult ==
  ASSUME NEW s, NEW g, NEW kind, Finish(s, g, kind),
         NEW m \in sent' \ sent, m.type = "result"
  PROVE  s.stopReason = "none"
<1>1. CASE Occupied /\ gen = g
  <2> DEFINE ok == kind = "result" /\ s.stopReason = "none"
             type == IF s.cancelled THEN "cancel.ack" ELSE IF ok THEN "result" ELSE "fail"
  <2>1. sent' = sent \cup {[type |-> type, offer |-> s.offer, gen |-> g]}
    BY <1>1 DEF Finish
  <2>2. m.type = type
    BY <2>1
  <2> QED BY <2>2
<1>2. CASE ~(Occupied /\ gen = g)
  BY <1>2 DEF Finish
<1> QED BY <1>1, <1>2

(* A cancel, an expiry or a shutdown that lands while the driver's result  *)
(* is being collected or published wins over it.                           *)
THEOREM StopWinsOverResult == Spec => NoResultAfterStop
<1>1. ASSUME EInv, [Next]_vars, NEW m \in sent' \ sent, m.type = "result"
      PROVE  slot.stopReason = "none"
  <2> USE <1>1
  <2>0. Occupied => (Ticked(slot).stopReason = "none" => slot.stopReason = "none")
    BY SettledRun
  <2>1. CASE Consume
    <3>1. ASSUME NEW o \in Offers, NEW gatesPass \in BOOLEAN, Offer(o, gatesPass)
          PROVE  m.type \in {"accept", "reject"}
      BY <3>1 DEF Offer
    <3>2. ASSUME NEW o \in Offers, Cancel(o)
          PROVE  m.type = "cancel.ack"
      BY <3>2 DEF Cancel
    <3>3. ~\E left \in 1..LeaseMs : Renew(left)
      BY DEF Renew
    <3> QED BY <2>1, <3>1, <3>2, <3>3 DEF Consume
  <2>2. CASE Settle
    <3>1. CASE SettleOutcome
      BY <2>0, <3>1, FinishResult DEF SettleOutcome, CanSettle
    <3>2. CASE SettlePrepare
      BY <3>2 DEF SettlePrepare, durable
    <3>3. CASE SettleStop
      BY <2>0, <3>3, FinishResult DEF SettleStop, CanSettle
    <3> QED BY <2>2, <3>1, <3>2, <3>3 DEF Settle
  <2>3. CASE Resume
    <3>1. CASE PrepareOk \/ StartEnds \/ QuiesceTimesOut
      BY <3>1 DEF PrepareOk, StartEnds, StartReturns, StartRejects, StartTimesOut, QuiesceTimesOut
    <3>2. CASE PrepareFails
      BY <3>2, FinishResult DEF PrepareFails
    <3>3. CASE Quiesced
      BY <3>3, FinishResult DEF Quiesced
    <3>4. ASSUME NEW kind \in {"result", "failed"}, Published(kind)
          PROVE  slot.stopReason = "none"
      BY <3>4, FinishResult DEF Published
    <3> QED BY <2>3, <3>1, <3>2, <3>3, <3>4 DEF Resume
  <2>4. CASE Late
    BY <2>4, FinishResult DEF Late, LateReturns, LateRejects, LateQuiesced, LateTimesOut, durable
  <2>5. CASE Recover
    BY <2>5, FinishResult DEF Recover, RecoverBegins, RecoverStopped, RecoverUnknown, durable
  <2>6. CASE Tick \/ Close \/ Fault \/ Halt \/ Crash \/ Restart \/ Child \/ Advance
    BY <2>6 DEF Tick, Close, Fault, Halt, Crash, Restart, Child, Spawn, Exit, TaskTimeout, OrphanExits,
                Advance, durable
  <2>7. CASE UNCHANGED vars
    BY <2>7 DEF vars, durable
  <2> QED BY <2>1, <2>2, <2>3, <2>4, <2>5, <2>6, <2>7 DEF Next
<1>2. EInv /\ [Next]_vars
        => [\A m \in sent' \ sent : m.type = "result" => slot.stopReason = "none"]_vars
  BY <1>1
<1> QED BY <1>2, ExecutorInvariant, PTL DEF Spec, NoResultAfterStop
=============================================================================

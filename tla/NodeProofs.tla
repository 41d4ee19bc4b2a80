----------------------------- MODULE NodeProofs -----------------------------
(***************************************************************************)
(* Proofs about a node.  NodePump: for any envelopes and any batch size.   *)
(* RemoteSession: for any tasks, attempts and cancels, and any number of   *)
(* children.                                                               *)
(***************************************************************************)
EXTENDS NodePump, RemoteSession, FiniteSetTheorems, TLAPS

-----------------------------------------------------------------------------
(* NodePump.                                                               *)

Distinct(s) == \A i, j \in DOMAIN s : s[i] = s[j] => i = j
Pending == {inbox[i] : i \in DOMAIN inbox}
Listed == {batch[i] : i \in DOMAIN batch}

(* A row is in the inbox once, and what a batch still lists is pending:    *)
(* consume() finds the row it deletes.                                     *)
BatchIsPending ==
  /\ Distinct(inbox) /\ Distinct(batch)
  /\ Listed \subseteq Pending

(* The last batch of a drain() covers the inbox: what it will not look at  *)
(* has been skipped, or came later and has triggered another round.        *)
BatchCovers ==
  step \in {"verify", "await"} /\ ~full /\ ~triggered /\ ~skipped => Pending \subseteq Listed

(* Once start() has drained, an idle pump leaves nothing without a retry.  *)
RetryPlanned ==
  step = "idle" /\ phase \in {"opening", "serving"} /\ ~faulted /\ inbox # <<>> => retry

(* The inductive invariant.                                                *)
PInv ==
  /\ PumpTypeOK /\ BatchIsPending /\ BatchCovers /\ RetryPlanned
  /\ step = "await" => batch # <<>>

LEMMA WithoutIs ==
  ASSUME inbox \in Seq(Envelope), Distinct(inbox), NEW i \in DOMAIN inbox,
         NEW s, s = Without(i)
  PROVE  /\ s \in Seq(Envelope) /\ Distinct(s)
         /\ {s[j] : j \in DOMAIN s} = Pending \ {inbox[i]}
<1> DEFINE n == Len(inbox)
           front == SubSeq(inbox, 1, i - 1)
           back == SubSeq(inbox, i + 1, n)
<1>1. n \in Nat /\ i \in 1..n /\ DOMAIN inbox = 1..n
  OBVIOUS
<1>2. front \in Seq(Envelope) /\ Len(front) = i - 1 /\ \A j \in 1..(i - 1) : front[j] = inbox[j]
  BY <1>1
<1>3. back \in Seq(Envelope) /\ Len(back) = n - i /\ \A j \in 1..(n - i) : back[j] = inbox[j + i]
  BY <1>1
<1>4. s = front \o back
  BY DEF Without
<1> HIDE DEF n, front, back
<1>5. s \in Seq(Envelope) /\ Len(s) = n - 1 /\ DOMAIN s = 1..(n - 1)
  <2>1. s \in Seq(Envelope) /\ Len(s) = Len(front) + Len(back)
    BY <1>2, <1>3, <1>4
  <2>2. Len(s) = n - 1
    BY <1>1, <1>2, <1>3, <2>1
  <2> QED BY <2>1, <2>2
<1>6. \A j \in 1..(n - 1) : s[j] = IF j < i THEN inbox[j] ELSE inbox[j + 1]
  <2> SUFFICES ASSUME NEW j \in 1..(n - 1)
               PROVE  s[j] = IF j < i THEN inbox[j] ELSE inbox[j + 1]
    OBVIOUS
  <2>1. CASE j < i
    BY <1>1, <1>2, <1>3, <1>4, <2>1
  <2>2. CASE ~(j < i)
    <3>1. s[j] = back[j - (i - 1)] /\ j - (i - 1) \in 1..(n - i)
      BY <1>1, <1>2, <1>3, <1>4, <2>2
    <3>2. back[j - (i - 1)] = inbox[j - (i - 1) + i]
      BY <1>3, <3>1
    <3>3. j - (i - 1) + i = j + 1
      BY <1>1
    <3> QED BY <2>2, <3>1, <3>2, <3>3
  <2> QED BY <2>1, <2>2
<1>7. Distinct(s)
  <2> SUFFICES ASSUME NEW j \in 1..(n - 1), NEW k \in 1..(n - 1), s[j] = s[k] PROVE j = k
    BY <1>5 DEF Distinct
  <2>1. \A x, y \in 1..n : inbox[x] = inbox[y] => x = y
    BY <1>1 DEF Distinct
  <2>2. PICK x \in 1..n : s[j] = inbox[x] /\ x = IF j < i THEN j ELSE j + 1
    BY <1>1, <1>6
  <2>3. PICK y \in 1..n : s[k] = inbox[y] /\ y = IF k < i THEN k ELSE k + 1
    BY <1>1, <1>6
  <2>4. x = y
    BY <2>1, <2>2, <2>3
  <2> QED BY <1>1, <2>2, <2>3, <2>4
<1>8. \A j \in DOMAIN s : s[j] \in Pending \ {inbox[i]}
  <2> SUFFICES ASSUME NEW j \in 1..(n - 1) PROVE s[j] \in Pending \ {inbox[i]}
    BY <1>5
  <2>1. PICK k \in 1..n : s[j] = inbox[k] /\ k # i
    BY <1>1, <1>6
  <2> QED BY <1>1, <2>1 DEF Pending, Distinct
<1>9. \A x \in Pending \ {inbox[i]} : \E j \in DOMAIN s : s[j] = x
  <2> SUFFICES ASSUME NEW k \in 1..n, k # i PROVE \E j \in 1..(n - 1) : s[j] = inbox[k]
    BY <1>1, <1>5 DEF Pending
  <2>1. CASE k < i
    <3>1. k \in 1..(n - 1) /\ s[k] = inbox[k] BY <1>1, <1>6, <2>1
    <3> QED BY <3>1
  <2>2. CASE k > i
    <3>1. k - 1 \in 1..(n - 1) /\ s[k - 1] = inbox[k] BY <1>1, <1>6, <2>2
    <3> QED BY <3>1
  <2> QED BY <1>1, <2>1, <2>2
<1> QED BY <1>5, <1>7, <1>8, <1>9

(* A step that leaves the inbox and the batch alone; it may start a drain. *)
Aside ==
  /\ UNCHANGED <<inbox, batch, full, skipped>>
  /\ step' = step \/ (step = "idle" /\ step' = "fetch")
  /\ triggered => triggered'

LEMMA AsideKeeps ==
  ASSUME PInv, Aside, PumpTypeOK', RetryPlanned'
  PROVE  PInv'
<1>1. Pending' = Pending /\ Listed' = Listed
  BY DEF Aside, Pending, Listed
<1>2. BatchIsPending'
  BY <1>1 DEF Aside, PInv, BatchIsPending, Distinct
<1>3. BatchCovers'
  BY <1>1 DEF Aside, PInv, BatchCovers
<1> QED BY <1>2, <1>3 DEF Aside, PInv

LEMMA BeginIs ==
  ASSUME PInv, Begin
  PROVE  /\ UNCHANGED <<batch, full, skipped>> /\ step' # "idle"
         /\ step' = step \/ (step = "idle" /\ step' = "fetch")
         /\ step' \in {"idle", "fetch", "verify", "await"} /\ failed' \subseteq Envelope
BY DEF Begin, PInv, PumpTypeOK

LEMMA ServingSteps ==
  ASSUME PInv, OpenAuthed \/ OpenFails \/ Reconnected \/ RetryTick
  PROVE  PInv'
<1>1. PumpTypeOK BY DEF PInv
<1>2. CASE OpenAuthed
  <2>1. /\ UNCHANGED <<inbox, done, registryUp, revoked, faulted>>
        /\ phase' \in {"rejected", "serving"}
    BY <1>2 DEF OpenAuthed, world
  <2>2. CASE inbox # <<>> /\ ~faulted
    <3>1. Begin /\ triggered' = TRUE /\ retry' = retry
      BY <1>2, <2>2 DEF OpenAuthed, Trigger
    <3>2. Aside /\ step' # "idle"
      BY <2>1, <3>1, BeginIs DEF Aside
    <3>3. PumpTypeOK'
      BY <1>1, <2>1, <3>1, BeginIs DEF PumpTypeOK, Phases
    <3> QED BY <3>2, <3>3, AsideKeeps DEF RetryPlanned
  <2>3. CASE ~(inbox # <<>> /\ ~faulted)
    <3>1. UNCHANGED <<step, batch, full, skipped, triggered, retry, failed>>
      BY <1>2, <2>3 DEF OpenAuthed, pump
    <3>2. Aside
      BY <2>1, <3>1 DEF Aside
    <3>3. PumpTypeOK'
      BY <1>1, <2>1, <3>1 DEF PumpTypeOK, Phases
    <3> QED BY <2>1, <2>3, <3>2, <3>3, AsideKeeps DEF RetryPlanned
  <2> QED BY <2>2, <2>3
<1>3. CASE OpenFails
  <2>1. /\ phase = "opening" /\ phase' \in {"serving", "rejected"}
        /\ UNCHANGED <<inbox, done, registryUp, revoked, faulted>>
        /\ UNCHANGED <<step, batch, full, skipped, triggered, retry, failed>>
    BY <1>3 DEF OpenFails, world, pump
  <2>2. PumpTypeOK'
    BY <1>1, <2>1 DEF PumpTypeOK, Phases
  <2>3. RetryPlanned'
    BY <2>1 DEF PInv, RetryPlanned
  <2> QED BY <2>1, <2>2, <2>3, AsideKeeps DEF Aside
<1>4. CASE Reconnected \/ RetryTick
  <2>1. Begin /\ UNCHANGED <<inbox, done, registryUp, revoked, phase, faulted>>
    BY <1>4 DEF Reconnected, RetryTick, Trigger, world
  <2>4. (triggered => triggered') /\ triggered' \in BOOLEAN /\ retry' \in BOOLEAN
    <3>1. CASE Reconnected BY <1>1, <3>1 DEF Reconnected, Trigger, PumpTypeOK
    <3>2. CASE RetryTick BY <1>1, <3>2 DEF RetryTick, PumpTypeOK
    <3> QED BY <1>4, <3>1, <3>2
  <2>2. Aside /\ step' # "idle"
    BY <2>1, <2>4, BeginIs DEF Aside
  <2>3. PumpTypeOK'
    BY <1>1, <2>1, <2>4, BeginIs DEF PumpTypeOK
  <2> QED BY <2>2, <2>3, AsideKeeps DEF RetryPlanned
<1> QED BY <1>2, <1>3, <1>4

LEMMA LifeSteps ==
  ASSUME PInv,
         \/ Start \/ Recover \/ FailClosed \/ Stop \/ StopStage \/ RegistryChanges
         \/ \E e \in Envelope : Revoke(e)
         \/ UNCHANGED pumpVars
  PROVE  PInv'
<1>1. PumpTypeOK BY DEF PInv
<1>2. CASE Start \/ Stop \/ StopStage
  <2>1. /\ UNCHANGED <<inbox, done, registryUp, revoked, faulted>>
        /\ UNCHANGED <<step, batch, full, skipped, triggered, retry, failed>>
        /\ phase' \in {"recovering", "stopping", "flushing", "reporting", "closed"}
    BY <1>2 DEF Start, Stop, StopStage, Stopped, world, pump
  <2>2. PumpTypeOK' BY <1>1, <2>1 DEF PumpTypeOK, Phases, Starting, Stopped
  <2>3. RetryPlanned' BY <2>1 DEF RetryPlanned
  <2> QED BY <2>1, <2>2, <2>3, AsideKeeps DEF Aside
<1>3. CASE Recover
  <2>1. UNCHANGED <<inbox, done, registryUp, revoked>> /\ phase' \in {"draining", "rejected"}
    BY <1>3 DEF Recover, world
  <2>2. RetryPlanned' BY <2>1 DEF RetryPlanned
  <2>3. CASE Begin /\ UNCHANGED <<faulted, triggered, retry>>
    <3>1. PumpTypeOK'
      BY <1>1, <2>1, <2>3, BeginIs DEF PumpTypeOK, Phases, Starting
    <3> QED BY <2>1, <2>2, <2>3, <3>1, BeginIs, AsideKeeps DEF Aside
  <2>4. CASE faulted' = TRUE /\ UNCHANGED pump
    <3>1. UNCHANGED <<step, batch, full, skipped, triggered, retry, failed>>
      BY <2>4 DEF pump
    <3>2. PumpTypeOK'
      BY <1>1, <2>1, <2>4, <3>1 DEF PumpTypeOK, Phases, Starting
    <3> QED BY <2>1, <2>2, <3>1, <3>2, AsideKeeps DEF Aside
  <2> QED BY <1>3, <2>3, <2>4 DEF Recover
<1>4. CASE FailClosed \/ RegistryChanges \/ (\E e \in Envelope : Revoke(e)) \/ UNCHANGED pumpVars
  <2>1. /\ UNCHANGED <<inbox, done, phase>>
        /\ UNCHANGED <<step, batch, full, skipped, triggered, retry, failed>>
    BY <1>4 DEF FailClosed, RegistryChanges, Revoke, pumpVars, world, pump
  <2>2. /\ (faulted => faulted') /\ faulted' \in BOOLEAN
        /\ registryUp' \in BOOLEAN /\ revoked' \subseteq Envelope
    <3>1. CASE FailClosed BY <1>1, <3>1 DEF FailClosed, world, PumpTypeOK
    <3>2. CASE RegistryChanges BY <1>1, <3>2 DEF RegistryChanges, PumpTypeOK
    <3>3. CASE \E e \in Envelope : Revoke(e) BY <1>1, <3>3 DEF Revoke, PumpTypeOK
    <3>4. CASE UNCHANGED pumpVars BY <1>1, <3>4 DEF pumpVars, world, PumpTypeOK
    <3> QED BY <1>4, <3>1, <3>2, <3>3, <3>4
  <2>3. PumpTypeOK' BY <1>1, <2>1, <2>2 DEF PumpTypeOK
  <2>4. RetryPlanned' BY <2>1, <2>2 DEF PInv, RetryPlanned
  <2> QED BY <2>1, <2>3, <2>4, AsideKeeps DEF Aside
<1> QED BY <1>2, <1>3, <1>4

(* A new envelope is not in the batch, and triggers another round.         *)
LEMMA ArriveKeeps ==
  ASSUME PInv, NEW e \in Envelope, Arrive(e)
  PROVE  PInv'
<1>1. PumpTypeOK /\ inbox \in Seq(Envelope) BY DEF PInv, PumpTypeOK
<1>2. /\ inbox' = Append(inbox, e) /\ Begin /\ triggered' = TRUE
      /\ UNCHANGED <<done, registryUp, revoked, phase, faulted, retry>>
      /\ \A i \in DOMAIN inbox : inbox[i] # e
  BY DEF Arrive, Trigger, world
<1>3. UNCHANGED <<batch, full, skipped>> /\ step' # "idle"
  BY <1>2, BeginIs
<1>4. PumpTypeOK'
  BY <1>1, <1>2, BeginIs DEF PumpTypeOK
<1>5. /\ DOMAIN inbox = 1..Len(inbox) /\ Len(inbox) \in Nat
      /\ DOMAIN inbox' = 1..(Len(inbox) + 1)
      /\ inbox'[Len(inbox) + 1] = e /\ \A i \in 1..Len(inbox) : inbox'[i] = inbox[i]
  BY <1>1, <1>2
<1>6. Distinct(inbox')
  BY <1>2, <1>5 DEF PInv, BatchIsPending, Distinct
<1>7. Pending \subseteq Pending'
  BY <1>5 DEF Pending
<1>8. BatchIsPending'
  BY <1>3, <1>6, <1>7 DEF PInv, BatchIsPending, Listed, Distinct
<1>9. BatchCovers' /\ RetryPlanned'
  BY <1>2, <1>3 DEF BatchCovers, RetryPlanned
<1>10. step' = "await" => batch' # <<>>
  BY <1>2, <1>3, BeginIs DEF PInv
<1> QED BY <1>4, <1>8, <1>9, <1>10 DEF PInv

LEMMA RestartKeeps ==
  ASSUME PInv, Restart
  PROVE  PInv'
<1>1. /\ phase' = "new" /\ faulted' = FALSE /\ step' = "idle" /\ batch' = <<>>
      /\ full' = FALSE /\ skipped' = FALSE /\ triggered' = FALSE /\ retry' = FALSE
      /\ failed' = {} /\ UNCHANGED <<inbox, done, registryUp, revoked>>
  BY DEF Restart, world
<1>2. PumpTypeOK'
  <2>1. batch' \in Seq(Envelope) /\ Len(batch') <= PumpBatch
    BY <1>1, PumpAssumption
  <2> QED BY <1>1, <2>1 DEF PInv, PumpTypeOK, Phases
<1>3. Listed' = {} /\ Pending' = Pending /\ Distinct(batch')
  BY <1>1 DEF Listed, Pending, Distinct
<1> QED BY <1>1, <1>2, <1>3 DEF PInv, BatchIsPending, BatchCovers, RetryPlanned, Distinct

-----------------------------------------------------------------------------
(* The steps of drain().                                                   *)

(* drain() returns: it starts over, it is halted, or nothing is pending    *)
(* without a retry.                                                        *)
LEMMA EndKeeps ==
  ASSUME PInv, End,
         UNCHANGED <<inbox, done, registryUp, revoked, faulted>>,
         full' \in BOOLEAN, skipped' \in BOOLEAN, retry' \in BOOLEAN,
         Halts \/ triggered \/ retry' \/ inbox = <<>>
  PROVE  PInv'
<1>1. PumpTypeOK BY DEF PInv
<1>2. /\ batch' = <<>> /\ step' \in {"fetch", "idle"} /\ triggered' \in BOOLEAN
      /\ failed' \subseteq Envelope
      /\ phase' \in {phase, "rejected", "opening"}
  BY <1>1 DEF End, PumpTypeOK
<1>3. PumpTypeOK'
  <2>1. batch' \in Seq(Envelope) /\ Len(batch') <= PumpBatch
    BY <1>2, PumpAssumption
  <2> QED BY <1>1, <1>2, <2>1 DEF PumpTypeOK, Phases, Starting
<1>4. Listed' = {} /\ Pending' = Pending /\ Distinct(batch')
  BY <1>2 DEF Listed, Pending, Distinct
<1>5. BatchIsPending'
  BY <1>4 DEF PInv, BatchIsPending, Distinct
<1>6. RetryPlanned'
  <2> SUFFICES ASSUME step' = "idle", phase' \in {"opening", "serving"}, ~faulted',
                      inbox' # <<>>
               PROVE  retry'
    BY DEF RetryPlanned
  <2>1. ~(triggered /\ ~Halts)
    BY DEF End
  <2>2. ~Halts
    BY DEF End, Halts, Stopped
  <2> QED BY <2>1, <2>2
<1> QED BY <1>2, <1>3, <1>5, <1>6 DEF PInv, BatchCovers

LEMMA FetchKeeps ==
  ASSUME PInv, Fetch
  PROVE  PInv'
<1>1. /\ PumpTypeOK /\ step = "fetch"
      /\ UNCHANGED <<inbox, done, registryUp, revoked, faulted, retry>>
  BY DEF PInv, Fetch, world
<1>2. CASE Halts
  <2>1. End /\ UNCHANGED <<full, skipped>> BY <1>2 DEF Fetch
  <2> QED BY <1>1, <1>2, <2>1, EndKeeps DEF PumpTypeOK
<1>3. CASE ~Halts
  <2>1. /\ batch' = Oldest /\ full' = (Len(inbox) >= PumpBatch) /\ skipped' = FALSE
        /\ step' = "verify" /\ UNCHANGED <<triggered, failed, phase>>
    BY <1>3 DEF Fetch
  <2>2. PICK n \in Nat : /\ n = IF Len(inbox) < PumpBatch THEN Len(inbox) ELSE PumpBatch
                         /\ n <= Len(inbox) /\ n <= PumpBatch
    BY <1>1, PumpAssumption DEF PumpTypeOK
  <2>3. /\ inbox \in Seq(Envelope) /\ Len(inbox) \in Nat /\ DOMAIN inbox = 1..Len(inbox)
    BY <1>1 DEF PumpTypeOK
  <2>4. /\ batch' \in Seq(Envelope) /\ Len(batch') = n /\ DOMAIN batch' = 1..n
        /\ \A i \in 1..n : batch'[i] = inbox[i]
    <3>1. batch' = SubSeq(inbox, 1, n)
      BY <2>1, <2>2 DEF Oldest
    <3>2. PICK k \in Nat : k = Len(inbox) BY <2>3
    <3>3. n <= k BY <2>2, <3>2
    <3>4. /\ SubSeq(inbox, 1, n) \in Seq(Envelope) /\ Len(SubSeq(inbox, 1, n)) = n
          /\ \A i \in 1..n : SubSeq(inbox, 1, n)[i] = inbox[i]
      BY <2>3, <3>2, <3>3
    <3> QED BY <3>1, <3>4
  <2>5. PumpTypeOK'
    <3>1. full' \in BOOLEAN
      <4>1. CASE Len(inbox) >= PumpBatch BY <2>1, <4>1, Zenon
      <4>2. CASE ~(Len(inbox) >= PumpBatch)
        <5>1. (Len(inbox) >= PumpBatch) = FALSE BY <4>2
        <5> QED BY <2>1, <5>1
      <4> QED BY <4>1, <4>2
    <3>2. skipped' \in BOOLEAN BY <2>1
    <3> QED BY <1>1, <2>1, <2>2, <2>4, <3>1, <3>2 DEF PumpTypeOK
  <2>0. 1..n \subseteq DOMAIN inbox
    <3>1. n <= Len(inbox) BY <2>2
    <3> QED BY <2>3, <3>1
  <2>6. Distinct(batch')
    <3>1. Distinct(inbox) BY DEF PInv, BatchIsPending
    <3> QED BY <2>0, <2>4, <3>1 DEF Distinct
  <2>7. Listed' \subseteq Pending'
    BY <1>1, <2>0, <2>4 DEF Listed, Pending
  <2>8. BatchCovers'
    <3>1. ~full' => n = Len(inbox)
      BY <2>1, <2>2, <2>3, PumpAssumption
    <3>2. n = Len(inbox) => Pending' \subseteq Listed'
      BY <1>1, <2>3, <2>4 DEF Listed, Pending
    <3> QED BY <3>1, <3>2 DEF BatchCovers
  <2> QED BY <1>1, <2>1, <2>5, <2>6, <2>7, <2>8
          DEF PInv, BatchIsPending, RetryPlanned, Distinct
<1> QED BY <1>2, <1>3

(* The head leaves the batch.                                              *)
LEMMA TailIs ==
  ASSUME PInv, batch # <<>>, batch' = Tail(batch)
  PROVE  /\ batch' \in Seq(Envelope) /\ Len(batch') <= PumpBatch /\ Distinct(batch')
         /\ Head(batch) \in Listed /\ Listed' = Listed \ {Head(batch)}
<1>1. batch \in Seq(Envelope) /\ Len(batch) <= PumpBatch /\ PumpBatch \in Nat
  BY PumpAssumption DEF PInv, PumpTypeOK
<1>2. PICK n \in Nat : n = Len(batch) /\ n >= 1
  BY <1>1
<1>3. /\ DOMAIN batch = 1..n /\ Head(batch) = batch[1]
      /\ batch' \in Seq(Envelope) /\ Len(batch') = n - 1 /\ DOMAIN batch' = 1..(n - 1)
      /\ \A i \in 1..(n - 1) : batch'[i] = batch[i + 1]
  BY <1>1, <1>2
<1>4. \A i, j \in 1..n : batch[i] = batch[j] => i = j
  BY <1>3 DEF PInv, BatchIsPending, Distinct
<1>5. Distinct(batch')
  <2> SUFFICES ASSUME NEW i \in 1..(n - 1), NEW j \in 1..(n - 1), batch'[i] = batch'[j]
               PROVE  i = j
    BY <1>3 DEF Distinct
  <2>1. i + 1 = j + 1 BY <1>3, <1>4
  <2> QED BY <2>1
<1>6. \A x \in Listed' : x \in Listed \ {Head(batch)}
  <2> SUFFICES ASSUME NEW i \in 1..(n - 1) PROVE batch'[i] \in Listed \ {Head(batch)}
    BY <1>3 DEF Listed
  <2>1. i + 1 \in 1..n /\ batch'[i] = batch[i + 1] /\ i + 1 # 1 BY <1>3
  <2> QED BY <1>2, <1>3, <1>4, <2>1 DEF Listed
<1>7. \A x \in Listed \ {Head(batch)} : x \in Listed'
  <2> SUFFICES ASSUME NEW i \in 1..n, i # 1 PROVE batch[i] \in Listed'
    BY <1>3 DEF Listed
  <2>1. i - 1 \in 1..(n - 1) /\ batch'[i - 1] = batch[i] BY <1>3
  <2> QED BY <1>3, <2>1 DEF Listed
<1>8. Len(batch') <= PumpBatch
  BY <1>1, <1>2, <1>3
<1>9. Head(batch) \in Listed
  BY <1>2, <1>3 DEF Listed
<1> QED BY <1>3, <1>5, <1>6, <1>7, <1>8, <1>9

LEMMA VerifyKeeps ==
  ASSUME PInv, VerifyBegins \/ VerifyRefused \/ ConsumeFaults
  PROVE  PInv'
<1>1. PumpTypeOK BY DEF PInv
<1>2. CASE VerifyBegins
  <2>1. /\ step = "verify" /\ batch # <<>>
        /\ UNCHANGED <<inbox, done, registryUp, revoked, faulted, full, skipped, retry>>
    BY <1>2 DEF VerifyBegins, world
  <2>2. CASE Halts
    <3>1. End BY <1>2, <2>2 DEF VerifyBegins
    <3> QED BY <1>1, <2>1, <2>2, <3>1, EndKeeps DEF PumpTypeOK
  <2>3. CASE ~Halts
    <3>1. step' = "await" /\ UNCHANGED <<batch, triggered, failed, phase>>
      BY <1>2, <2>3 DEF VerifyBegins
    <3>2. PumpTypeOK' BY <1>1, <2>1, <3>1 DEF PumpTypeOK
    <3>3. Pending' = Pending /\ Listed' = Listed
      BY <2>1, <3>1 DEF Pending, Listed
    <3> QED BY <2>1, <3>1, <3>2, <3>3
            DEF PInv, BatchIsPending, BatchCovers, RetryPlanned, Distinct
  <2> QED BY <2>2, <2>3
<1>3. CASE VerifyRefused
  <2>1. /\ step = "await" /\ skipped' = TRUE /\ failed' = failed \union {Head(batch)}
        /\ batch' = Tail(batch) /\ step' = "verify"
        /\ UNCHANGED <<inbox, done, registryUp, revoked, phase, faulted, full, triggered, retry>>
    BY <1>3 DEF VerifyRefused, world
  <2>2. batch # <<>> BY <2>1 DEF PInv
  <2>3. /\ batch' \in Seq(Envelope) /\ Len(batch') <= PumpBatch /\ Distinct(batch')
        /\ Listed' = Listed \ {Head(batch)} /\ Head(batch) \in Listed
    BY <2>1, <2>2, TailIs
  <2>4. Listed \subseteq Envelope
    BY <1>1 DEF Listed, PumpTypeOK
  <2>5. PumpTypeOK' BY <1>1, <2>1, <2>3, <2>4 DEF PumpTypeOK
  <2>6. Pending' = Pending BY <2>1 DEF Pending
  <2> QED BY <2>1, <2>3, <2>5, <2>6
          DEF PInv, BatchIsPending, BatchCovers, RetryPlanned, Distinct
<1>4. CASE ConsumeFaults
  <2>1. /\ faulted' = TRUE /\ batch' = <<>> /\ step' = "idle" /\ phase' \in {phase, "rejected"}
        /\ UNCHANGED <<inbox, done, registryUp, revoked, full, skipped, triggered, retry, failed>>
    BY <1>4 DEF ConsumeFaults, world
  <2>2. PumpTypeOK'
    <3>1. batch' \in Seq(Envelope) /\ Len(batch') <= PumpBatch
      BY <2>1, PumpAssumption
    <3> QED BY <1>1, <2>1, <3>1 DEF PumpTypeOK, Phases
  <2>3. Listed' = {} /\ Pending' = Pending /\ Distinct(batch')
    BY <2>1 DEF Listed, Pending, Distinct
  <2> QED BY <2>1, <2>2, <2>3 DEF PInv, BatchIsPending, BatchCovers, RetryPlanned, Distinct
<1> QED BY <1>2, <1>3, <1>4

LEMMA ConsumeKeeps ==
  ASSUME PInv, Consume
  PROVE  PInv'
<1>1. PumpTypeOK BY DEF PInv
<1>2. /\ step = "await" /\ done' = done \union {Head(batch)}
      /\ batch' = Tail(batch) /\ step' = "verify"
      /\ UNCHANGED <<registryUp, revoked, phase, faulted, full, skipped, triggered, retry, failed>>
  BY DEF Consume, world
<1>3. PICK i \in DOMAIN inbox : inbox[i] = Head(batch) /\ inbox' = Without(i)
  BY DEF Consume
<1>4. inbox \in Seq(Envelope) /\ Distinct(inbox)
  BY <1>1 DEF PInv, PumpTypeOK, BatchIsPending
<1>5. inbox' \in Seq(Envelope) /\ Distinct(inbox') /\ Pending' = Pending \ {Head(batch)}
  <2>1. PICK s : s = Without(i) OBVIOUS
  <2>2. s \in Seq(Envelope) /\ Distinct(s) /\ {s[j] : j \in DOMAIN s} = Pending \ {inbox[i]}
    BY <1>4, <2>1, WithoutIs
  <2>3. inbox' = s /\ Pending' = {s[j] : j \in DOMAIN s}
    BY <1>3, <2>1 DEF Pending
  <2> QED BY <1>3, <2>2, <2>3
<1>6. batch # <<>> BY <1>2 DEF PInv
<1>7. /\ batch' \in Seq(Envelope) /\ Len(batch') <= PumpBatch /\ Distinct(batch')
      /\ Listed' = Listed \ {Head(batch)} /\ Head(batch) \in Listed
  BY <1>2, <1>6, TailIs
<1>8. Listed \subseteq Envelope
  BY <1>1 DEF Listed, PumpTypeOK
<1>9. PumpTypeOK' BY <1>1, <1>2, <1>5, <1>7, <1>8 DEF PumpTypeOK
<1>10. BatchIsPending' BY <1>5, <1>7 DEF PInv, BatchIsPending, Distinct
<1>11. BatchCovers' BY <1>2, <1>5, <1>7 DEF PInv, BatchCovers
<1> QED BY <1>2, <1>9, <1>10, <1>11 DEF PInv, RetryPlanned

LEMMA BatchEndsKeeps ==
  ASSUME PInv, BatchEnds
  PROVE  PInv'
<1>1. /\ PumpTypeOK /\ step = "verify" /\ batch = <<>> /\ retry' = skipped
      /\ UNCHANGED <<inbox, done, registryUp, revoked, faulted, full, skipped>>
  BY DEF PInv, BatchEnds, world
<1>2. CASE full
  <2>1. step' = "fetch" /\ UNCHANGED <<batch, triggered, failed, phase>>
    BY <1>2 DEF BatchEnds
  <2>2. PumpTypeOK' BY <1>1, <2>1 DEF PumpTypeOK
  <2>3. Pending' = Pending /\ Listed' = Listed
    BY <1>1, <2>1 DEF Pending, Listed
  <2> QED BY <1>1, <2>1, <2>2, <2>3
          DEF PInv, BatchIsPending, BatchCovers, RetryPlanned, Distinct
<1>3. CASE ~full
  <2>1. End BY <1>3 DEF BatchEnds
  <2>2. Listed = {} BY <1>1 DEF Listed
  <2>3. Halts \/ triggered \/ retry' \/ inbox = <<>>
    <3> SUFFICES ASSUME ~triggered, ~skipped PROVE inbox = <<>>
      BY <1>1
    <3>1. Pending = {} BY <1>1, <1>3, <2>2 DEF PInv, BatchCovers
    <3>2. inbox \in Seq(Envelope) BY <1>1 DEF PumpTypeOK
    <3>3. inbox # <<>> => 1 \in DOMAIN inbox BY <3>2
    <3> QED BY <3>1, <3>3 DEF Pending
  <2> QED BY <1>1, <2>1, <2>3, EndKeeps DEF PumpTypeOK
<1> QED BY <1>2, <1>3

-----------------------------------------------------------------------------
(* Nothing is pending beside an idle pump of a serving node but for a      *)
(* planned retry, from the first drain() of start() on.                    *)
THEOREM PumpInvariant == PumpSpec => []PInv
<1>1. ASSUME PumpInit PROVE PInv
  <2>1. PumpTypeOK
    <3>1. batch \in Seq(Envelope) /\ inbox \in Seq(Envelope) /\ Len(batch) <= PumpBatch
      BY <1>1, PumpAssumption DEF PumpInit
    <3> QED BY <1>1, <3>1 DEF PumpInit, PumpTypeOK, Phases
  <2> QED BY <1>1, <2>1
          DEF PumpInit, PInv, BatchIsPending, BatchCovers, RetryPlanned, Distinct, Listed, Pending
<1>2. ASSUME PInv, [PumpNext]_pumpVars PROVE PInv'
  BY <1>2, ServingSteps, LifeSteps, ArriveKeeps, RestartKeeps, FetchKeeps, VerifyKeeps,
     ConsumeKeeps, BatchEndsKeeps DEF PumpNext, PumpStep
<1> QED BY <1>1, <1>2, PTL DEF PumpSpec

(* While the node serves, an envelope is never left pending with nobody to *)
(* look at it again (drain and pumpTick of node.ts).                       *)
THEOREM NothingIsStranded == PumpSpec => []NoStranded
<1>1. PInv => NoStranded
  BY DEF PInv, NoStranded, RetryPlanned, Serves
<1> QED BY <1>1, PumpInvariant, PTL

-----------------------------------------------------------------------------
(* RemoteSession.                                                          *)

Flag(b) == IF b THEN 1 ELSE 0

Driver == [stopped : BOOLEAN, limit : BOOLEAN, reapers : Nat, runs : Seq(Child)]

RunsOf(k) ==
  {r \in 1..Current : <<driver.runs[r].task, driver.runs[r].attempt>> = k}

SessionTyped ==
  /\ seen \subseteq ({"offer", "cancel"} \X Task \X Attempt)
  /\ forgotten \subseteq ({"offer", "cancel"} \X Task \X Attempt)
  /\ rec \in Record /\ decided \in [Key -> Nat]
  /\ heartbeats \subseteq Task /\ leases \subseteq Task /\ unacked \in BOOLEAN
  /\ driver \in Driver /\ Current <= MaxRuns

(* The children of an attempt are its verdicts and the run under way.      *)
Answered ==
  \A k \in Key : Cardinality(RunsOf(k)) = decided[k] + Flag(Running(k[1], k[2]))

(* A child may be sent SIGKILL after its stop() and after its hard limit;  *)
(* what is still ahead of the newest one counts as well.                   *)
ReapersBound ==
  driver.reapers + Flag(rec.state = "running") + Flag(driver.limit) <= 2 * Current

(* A running record is about an attempt that was offered, an idle one      *)
(* about none.                                                             *)
RecordInv ==
  /\ rec.state = "running" => <<rec.task, rec.attempt>> \in Key
  /\ rec.state = "idle" => rec.task = None

(* Every child's offer was seen.                                           *)
RunsWereOffered ==
  \A r \in 1..Current :
    <<"offer", driver.runs[r].task, driver.runs[r].attempt>> \in seen \union forgotten

(* The inductive invariant.                                                *)
SInv == SessionTyped /\ Answered /\ ReapersBound /\ RecordInv /\ RunsWereOffered

LEMMA KeyIs ==
  ASSUME NEW k \in Key
  PROVE  k = <<k[1], k[2]>> /\ k[1] \in Task /\ k[2] \in Attempt /\ k[2] \in Nat
<1>1. k \in Task \X (Nat \ {0}) BY SessionAssumption
<1> QED BY <1>1 DEF Attempt

(* The runs of an attempt are at most all the runs.                        *)
LEMMA RunsFinite ==
  ASSUME SessionTyped, NEW k
  PROVE  IsFiniteSet(RunsOf(k)) /\ Cardinality(RunsOf(k)) \in Nat
         /\ Cardinality(RunsOf(k)) <= Current
<1>1. Current \in Nat BY DEF SessionTyped, Driver, Current
<1>2. IsFiniteSet(1..Current) /\ Cardinality(1..Current) = Current
  BY <1>1, FS_Interval
<1>3. RunsOf(k) \subseteq 1..Current BY DEF RunsOf
<1>4. IsFiniteSet(RunsOf(k)) /\ Cardinality(RunsOf(k)) <= Cardinality(1..Current)
  BY <1>2, <1>3, FS_Subset
<1>5. Cardinality(RunsOf(k)) \in Nat BY <1>4, FS_CardinalityType
<1> QED BY <1>2, <1>4, <1>5

(* The invariant is what the runs check, with room for the bounds.         *)
LEMMA SInvImplies ==
  ASSUME SInv PROVE NoSilentDrop
<1>1. SessionTyped /\ Answered /\ ReapersBound BY DEF SInv
<1>2. /\ driver \in Driver /\ Current \in Nat /\ Current <= MaxRuns /\ MaxRuns \in Nat
      /\ driver.reapers \in Nat
  BY <1>1, SessionAssumption DEF SessionTyped, Driver, Current
<1>3. \A k \in Key : decided[k] \in 0..MaxRuns
  <2> SUFFICES ASSUME NEW k \in Key PROVE decided[k] \in 0..MaxRuns
    OBVIOUS
  <2>1. decided[k] \in Nat BY <1>1 DEF SessionTyped
  <2>2. Cardinality(RunsOf(k)) <= Current /\ Cardinality(RunsOf(k)) \in Nat
    BY <1>1, RunsFinite
  <2>3. Cardinality(RunsOf(k)) = decided[k] + Flag(Running(k[1], k[2]))
    BY <1>1 DEF Answered
  <2>4. Flag(Running(k[1], k[2])) \in {0, 1} BY DEF Flag
  <2> QED BY <1>2, <2>1, <2>2, <2>3, <2>4
<1>4. decided \in [Key -> 0..MaxRuns] BY <1>1, <1>3 DEF SessionTyped
<1>5. driver.reapers \in 0..2 * MaxRuns
  <2>1. driver.reapers <= 2 * Current BY <1>1, <1>2 DEF ReapersBound, Flag
  <2> QED BY <1>2, <2>1
<1>6. \A r \in 1..Current : driver.runs[r] \in Child
  BY <1>2 DEF Driver, Current
<1>7. SessionTypeOK
  BY <1>1, <1>2, <1>4, <1>5, <1>6 DEF SessionTyped, SessionTypeOK, Driver, Current
<1> QED BY <1>1, <1>7 DEF NoSilentDrop, Answered, RunsOf, Flag

-----------------------------------------------------------------------------
(* The driver's operations.                                                *)

(* The children are those they were; their fate may differ.                *)
SameRuns(d, e) ==
  /\ e \in Driver /\ Len(e.runs) = Len(d.runs)
  /\ \A r \in 1..Len(d.runs) :
       e.runs[r].task = d.runs[r].task /\ e.runs[r].attempt = d.runs[r].attempt

LEMMA OneRunChanges ==
  ASSUME NEW d \in Driver, NEW r \in 1..Len(d.runs), NEW c \in Child,
         c.task = d.runs[r].task, c.attempt = d.runs[r].attempt, NEW e \in Driver,
         e.runs = [d.runs EXCEPT ![r] = c]
  PROVE  SameRuns(d, e)
<1>1. d.runs \in Seq(Child) BY DEF Driver
<1>2. /\ Len(e.runs) = Len(d.runs) /\ e.runs[r] = c
      /\ \A i \in 1..Len(d.runs) : i # r => e.runs[i] = d.runs[i]
  BY <1>1
<1> QED BY <1>2 DEF SameRuns

LEMMA StopIs ==
  ASSUME NEW d \in Driver, Len(d.runs) >= 1
  PROVE  /\ SameRuns(d, DriverStop(d)) /\ DriverStop(d).limit = FALSE
         /\ DriverStop(d).reapers = d.reapers + 1
<1>1. d.runs \in Seq(Child) /\ Len(d.runs) \in 1..Len(d.runs) /\ d.reapers \in Nat
  BY DEF Driver
<1>2. PICK n \in Nat : n = d.reapers + 1 BY <1>1
<1>3. PICK c : c = [d.runs[Len(d.runs)] EXCEPT !.told = TRUE] OBVIOUS
<1>4. c \in Child /\ c.task = d.runs[Len(d.runs)].task /\ c.attempt = d.runs[Len(d.runs)].attempt
  <2>1. PICK old \in Child : old = d.runs[Len(d.runs)] BY <1>1
  <2> QED BY <1>3, <2>1 DEF Child
<1>5. PICK rs : rs = [d.runs EXCEPT ![Len(d.runs)] = c] OBVIOUS
<1>6. rs \in Seq(Child) BY <1>1, <1>4, <1>5
<1>7. DriverStop(d) = [d EXCEPT !.stopped = TRUE, !.limit = FALSE, !.reapers = n, !.runs = rs]
  BY <1>2, <1>3, <1>5 DEF DriverStop, Driver
<1>8. /\ DriverStop(d) \in Driver /\ DriverStop(d).runs = rs
      /\ DriverStop(d).limit = FALSE /\ DriverStop(d).reapers = n
  BY <1>6, <1>7 DEF Driver
<1> QED BY <1>1, <1>2, <1>4, <1>5, <1>8, OneRunChanges

LEMMA SignalIs ==
  ASSUME NEW d \in Driver, Len(d.runs) >= 1, NEW states, NEW status \in {"alive", "held", "killed"}
  PROVE  /\ SameRuns(d, Signal(d, states, status)) /\ Signal(d, states, status).limit = d.limit
         /\ Signal(d, states, status).reapers = d.reapers
<1>1. d.runs \in Seq(Child) /\ Len(d.runs) \in 1..Len(d.runs)
  BY DEF Driver
<1>2. CASE d.runs[Len(d.runs)].status \in states
  <2>1. PICK c : c = [d.runs[Len(d.runs)] EXCEPT !.status = status] OBVIOUS
  <2>2. c \in Child /\ c.task = d.runs[Len(d.runs)].task /\ c.attempt = d.runs[Len(d.runs)].attempt
    <3>1. PICK old \in Child : old = d.runs[Len(d.runs)] BY <1>1
    <3> QED BY <2>1, <3>1 DEF Child
  <2>3. PICK rs : rs = [d.runs EXCEPT ![Len(d.runs)] = c] OBVIOUS
  <2>4. rs \in Seq(Child) BY <1>1, <2>2, <2>3
  <2>5. Signal(d, states, status) = [d EXCEPT !.runs = rs]
    BY <1>2, <2>1, <2>3 DEF Signal, Driver
  <2>6. /\ Signal(d, states, status) \in Driver /\ Signal(d, states, status).runs = rs
        /\ Signal(d, states, status).limit = d.limit
        /\ Signal(d, states, status).reapers = d.reapers
    BY <2>4, <2>5 DEF Driver
  <2> QED BY <1>1, <2>2, <2>3, <2>6, OneRunChanges
<1>3. CASE d.runs[Len(d.runs)].status \notin states
  BY <1>3 DEF Signal, SameRuns
<1> QED BY <1>2, <1>3

(* A start adds one child.                                                 *)
LEMMA StartIs ==
  ASSUME NEW d \in Driver, NEW t \in Task, NEW a \in Attempt, NEW e, e = DriverStart(d, t, a)
  PROVE  /\ e \in Driver /\ Len(e.runs) = Len(d.runs) + 1 /\ e.reapers = d.reapers
         /\ e.runs[Len(d.runs) + 1].task = t /\ e.runs[Len(d.runs) + 1].attempt = a
         /\ \A r \in 1..Len(d.runs) : e.runs[r] = d.runs[r]
<1>1. d.runs \in Seq(Child) BY DEF Driver
<1>2. PICK c : c = [task |-> t, attempt |-> a, status |-> "alive", told |-> FALSE] OBVIOUS
<1>3. c \in Child /\ c.task = t /\ c.attempt = a BY <1>2 DEF Child
<1>4. PICK rs : rs = Append(d.runs, c) OBVIOUS
<1>5. /\ rs \in Seq(Child) /\ Len(rs) = Len(d.runs) + 1 /\ rs[Len(d.runs) + 1] = c
      /\ \A r \in 1..Len(d.runs) : rs[r] = d.runs[r]
  BY <1>1, <1>3, <1>4
<1>6. e = [d EXCEPT !.stopped = FALSE, !.limit = TRUE, !.runs = rs]
  BY <1>2, <1>4 DEF DriverStart, Driver
<1>7. e \in Driver /\ e.runs = rs /\ e.reapers = d.reapers
  BY <1>5, <1>6 DEF Driver
<1> QED BY <1>3, <1>5, <1>7

-----------------------------------------------------------------------------
(* How the count of the children and of the verdicts goes on.              *)

(* Nobody runs any more: every child has its verdict.                      *)
Settled == decided' \in [Key -> Nat] /\ \A k \in Key : Cardinality(RunsOf(k)) = decided'[k]

LEMMA IdleSettles ==
  ASSUME SInv, rec.state # "running", decided' = decided
  PROVE  Settled
BY DEF SInv, SessionTyped, Answered, Running, Flag, Settled

LEMMA VerdictSettles ==
  ASSUME SInv, rec.state = "running", Verdict
  PROVE  Settled
<1>1. PICK v \in Key : v = <<rec.task, rec.attempt>> BY DEF SInv, RecordInv
<1>2. decided \in [Key -> Nat] BY DEF SInv, SessionTyped
<1>3. decided' = [decided EXCEPT ![v] = @ + 1] BY <1>1 DEF Verdict
<1>4. decided' \in [Key -> Nat] BY <1>2, <1>3
<1>5. \A k \in Key : Running(k[1], k[2]) <=> k = v
  <2> SUFFICES ASSUME NEW k \in Key PROVE Running(k[1], k[2]) <=> k = v
    OBVIOUS
  <2>1. k = <<k[1], k[2]>> BY KeyIs
  <2> QED BY <1>1, <2>1 DEF Running
<1>6. \A k \in Key : Cardinality(RunsOf(k)) = decided[k] + Flag(k = v)
  BY <1>5 DEF SInv, Answered, Flag
<1> QED BY <1>2, <1>3, <1>4, <1>6 DEF Settled, Flag

LEMMA SameRunsOf ==
  ASSUME SameRuns(driver, driver')
  PROVE  Current' = Current /\ \A k : RunsOf(k)' = RunsOf(k)
BY DEF SameRuns, Current, RunsOf

LEMMA SettledStops ==
  ASSUME Settled, SameRuns(driver, driver'), rec'.state # "running"
  PROVE  Answered'
<1>1. \A k \in Key : RunsOf(k)' = RunsOf(k) /\ Running(k[1], k[2])' = FALSE
  BY SameRunsOf DEF Running
<1> QED BY <1>1 DEF Settled, Answered, Flag

LEMMA RunGoesOn ==
  ASSUME SInv, SameRuns(driver, driver'), decided' = decided,
         rec'.state = rec.state, rec'.task = rec.task, rec'.attempt = rec.attempt
  PROVE  Answered'
<1>1. \A k \in Key : RunsOf(k)' = RunsOf(k) /\ (Running(k[1], k[2])' <=> Running(k[1], k[2]))
  BY SameRunsOf DEF Running
<1> QED BY <1>1 DEF SInv, Answered, Flag

(* The new child is the one run under way.                                 *)
LEMMA SettledStarts ==
  ASSUME SessionTyped, Settled, NEW t, NEW a, <<t, a>> \in Key,
         rec'.state = "running", rec'.task = t, rec'.attempt = a,
         Current' = Current + 1, driver'.runs[Current + 1].task = t,
         driver'.runs[Current + 1].attempt = a,
         \A r \in 1..Current : driver'.runs[r].task = driver.runs[r].task
                            /\ driver'.runs[r].attempt = driver.runs[r].attempt
  PROVE  Answered'
<1>0. Current \in Nat BY DEF SessionTyped, Driver, Current
<1> SUFFICES ASSUME NEW k \in Key
             PROVE  Cardinality(RunsOf(k)') = decided'[k] + Flag(Running(k[1], k[2])')
  BY DEF Answered
<1>1. RunsOf(k)' = {r \in 1..(Current + 1) :
                      <<driver'.runs[r].task, driver'.runs[r].attempt>> = k}
  BY DEF RunsOf
<1>2. k = <<k[1], k[2]>> BY KeyIs
<1>3. /\ Cardinality(RunsOf(k)) = decided'[k] /\ IsFiniteSet(RunsOf(k))
      /\ decided'[k] \in Nat
  BY RunsFinite DEF Settled
<1>4. CASE k = <<t, a>>
  <2>1. RunsOf(k)' = RunsOf(k) \cup {Current + 1} /\ Current + 1 \notin RunsOf(k)
    BY <1>0, <1>1, <1>4 DEF RunsOf
  <2>2. Cardinality(RunsOf(k)') = Cardinality(RunsOf(k)) + 1
    BY <1>3, <2>1, FS_AddElement
  <2>3. Running(k[1], k[2])' = TRUE BY <1>2, <1>4 DEF Running
  <2> QED BY <1>3, <2>2, <2>3 DEF Flag
<1>5. CASE k # <<t, a>>
  <2>1. RunsOf(k)' = RunsOf(k)
    BY <1>0, <1>1, <1>5 DEF RunsOf
  <2>2. Running(k[1], k[2])' = FALSE BY <1>2, <1>5 DEF Running
  <2> QED BY <1>3, <2>1, <2>2 DEF Flag
<1> QED BY <1>4, <1>5

LEMMA OffersStaySeen ==
  ASSUME SInv, SameRuns(driver, driver'), seen \union forgotten \subseteq seen' \union forgotten'
  PROVE  RunsWereOffered'
<1>1. Current' = Current BY SameRunsOf
<1> QED BY <1>1 DEF SInv, RunsWereOffered, SameRuns, Current

(* What a typed driver with the same runs leaves to show.                  *)
LEMMA SameRunsKeep ==
  ASSUME SInv, SameRuns(driver, driver'), Answered', RecordInv',
         driver'.reapers + Flag(rec'.state = "running") + Flag(driver'.limit) <= 2 * Current,
         seen' \subseteq ({"offer", "cancel"} \X Task \X Attempt),
         forgotten' \subseteq ({"offer", "cancel"} \X Task \X Attempt),
         seen \union forgotten \subseteq seen' \union forgotten',
         rec' \in Record, decided' \in [Key -> Nat],
         heartbeats' \subseteq Task, leases' \subseteq Task, unacked' \in BOOLEAN
  PROVE  SInv' /\ Current' = Current
<1>1. Current' = Current /\ driver' \in Driver BY SameRunsOf DEF SameRuns
<1>2. SessionTyped' BY <1>1 DEF SInv, SessionTyped
<1>3. ReapersBound' BY <1>1 DEF ReapersBound
<1> QED BY <1>1, <1>2, <1>3, OffersStaySeen DEF SInv

LEMMA RunningHasChild ==
  ASSUME SInv, rec.state = "running" \/ driver.reapers > 0
  PROVE  Current >= 1 /\ Current \in Nat /\ execCtx \in Task
<1>1. driver \in Driver /\ Current \in Nat /\ driver.reapers \in Nat
  BY DEF SInv, SessionTyped, Driver, Current
<1>2. Flag(rec.state = "running") \in {0, 1} /\ Flag(driver.limit) \in {0, 1}
  BY DEF Flag
<1>3. driver.reapers + Flag(rec.state = "running") + Flag(driver.limit) <= 2 * Current
  BY DEF SInv, ReapersBound
<1>4. driver.reapers + Flag(rec.state = "running") >= 1
  BY <1>1, <1>2 DEF Flag
<1>5. Current >= 1 BY <1>1, <1>2, <1>3, <1>4
<1>6. driver.runs[Current] \in Child BY <1>1, <1>5 DEF Driver, Current
<1> QED BY <1>1, <1>5, <1>6 DEF execCtx, Child

LEMMA DriverTimersKeep ==
  ASSUME SInv, LimitTimer \/ ReapTimer
  PROVE  SInv' /\ Current' = Current
<1>1. UNCHANGED <<seen, forgotten, rec, decided, heartbeats, leases, unacked>>
  BY DEF LimitTimer, ReapTimer, dedup, timers
<1>2. driver \in Driver /\ driver.reapers \in Nat /\ driver.limit \in BOOLEAN
      /\ driver.stopped \in BOOLEAN /\ Current \in Nat
  BY DEF SInv, SessionTyped, Driver, Current
<1>3. /\ driver.reapers + Flag(rec.state = "running") + Flag(driver.limit) <= 2 * Current
      /\ Flag(rec.state = "running") \in {0, 1} /\ Flag(driver.limit) \in {0, 1}
  BY DEF SInv, ReapersBound, Flag
<1>4. /\ SameRuns(driver, driver')
      /\ driver'.reapers + Flag(rec.state = "running") + Flag(driver'.limit) <= 2 * Current
  <2>1. CASE LimitTimer
    <3>1. PICK n \in Nat : /\ n = IF driver.stopped THEN driver.reapers ELSE driver.reapers + 1
                           /\ n <= driver.reapers + 1
      BY <1>2
    <3>2. driver.limit /\ driver' = [driver EXCEPT !.limit = FALSE, !.reapers = n]
      BY <2>1, <3>1 DEF LimitTimer
    <3>3. /\ driver' \in Driver /\ driver'.runs = driver.runs
          /\ driver'.limit = FALSE /\ driver'.reapers = n
      BY <1>2, <3>2 DEF Driver
    <3>4. Flag(driver.limit) = 1 /\ Flag(driver'.limit) = 0
      BY <3>2, <3>3 DEF Flag
    <3> QED BY <1>2, <1>3, <3>1, <3>3, <3>4 DEF SameRuns
  <2>2. CASE ReapTimer
    <3>1. driver.reapers > 0 /\ Current >= 1
      BY <2>2, RunningHasChild DEF ReapTimer
    <3>2. PICK n \in Nat : n = driver.reapers - 1 BY <1>2, <3>1
    <3>3. PICK d : d = [driver EXCEPT !.reapers = n] OBVIOUS
    <3>4. d \in Driver /\ d.runs = driver.runs /\ d.limit = driver.limit /\ d.reapers = n
      BY <1>2, <3>3 DEF Driver
    <3>5. driver' = Signal(d, {"alive", "held"}, "killed")
      BY <2>2, <3>2, <3>3 DEF ReapTimer
    <3>6. SameRuns(d, driver') /\ driver'.limit = d.limit /\ driver'.reapers = n
      BY <3>1, <3>4, <3>5, SignalIs DEF Current
    <3>7. SameRuns(driver, driver')
      BY <3>4, <3>6 DEF SameRuns
    <3> QED BY <1>2, <1>3, <3>2, <3>4, <3>6, <3>7
  <2> QED BY <2>1, <2>2
<1>5. Answered' BY <1>1, <1>4, RunGoesOn
<1>6. RecordInv' BY <1>1 DEF SInv, RecordInv
<1> QED BY <1>1, <1>4, <1>5, <1>6, SameRunsKeep DEF SInv, SessionTyped

LEMMA UnchangedDriver ==
  ASSUME SInv, driver' = driver
  PROVE  SameRuns(driver, driver')
BY DEF SInv, SessionTyped, SameRuns

(* Steps that pause or resume a run, or only turn timers and R1 keys over. *)
LEMMA PauseKeeps ==
  ASSUME SInv, SameRuns(driver, driver'),
         driver'.reapers = driver.reapers, driver'.limit = driver.limit,
         rec' \in Record, decided' = decided,
         rec'.state = rec.state, rec'.task = rec.task, rec'.attempt = rec.attempt,
         seen' \subseteq ({"offer", "cancel"} \X Task \X Attempt),
         forgotten' \subseteq ({"offer", "cancel"} \X Task \X Attempt),
         seen \union forgotten \subseteq seen' \union forgotten',
         heartbeats' \subseteq Task, leases' \subseteq Task, unacked' \in BOOLEAN
  PROVE  SInv' /\ Current' = Current
<1>1. Answered' BY RunGoesOn
<1>2. RecordInv' BY DEF SInv, RecordInv
<1>3. driver'.reapers + Flag(rec'.state = "running") + Flag(driver'.limit) <= 2 * Current
  BY DEF SInv, ReapersBound
<1>4. decided' \in [Key -> Nat] BY DEF SInv, SessionTyped
<1> QED BY <1>1, <1>2, <1>3, <1>4, SameRunsKeep

LEMMA TimerStepsKeep ==
  ASSUME SInv,
         \/ HeartbeatAcked
         \/ \E t \in Task : HeartbeatDue(t) \/ LeaseSelfTimeout(t)
         \/ \E key \in seen : Evict(key)
         \/ UNCHANGED sessionVars
  PROVE  SInv' /\ Current' = Current
<1>1. SessionTyped /\ driver \in Driver /\ rec \in Record BY DEF SInv, SessionTyped
<1>2. \A b \in BOOLEAN : /\ [rec EXCEPT !.paused = b] \in Record
                         /\ [rec EXCEPT !.paused = b].state = rec.state
                         /\ [rec EXCEPT !.paused = b].task = rec.task
                         /\ [rec EXCEPT !.paused = b].attempt = rec.attempt
  BY <1>1 DEF Record
<1>3. CASE HeartbeatAcked
  <2>1. UNCHANGED <<seen, forgotten, decided, heartbeats>> /\ unacked' = FALSE
    BY <1>3 DEF HeartbeatAcked, GatewayAck, dedup
  <2>2. CASE rec.state = "running"
    <3>1. /\ rec' = [rec EXCEPT !.paused = FALSE] /\ leases' = leases \union {execCtx}
          /\ driver' \in {driver, Signal(driver, {"held"}, "alive")}
      BY <1>3, <2>2 DEF HeartbeatAcked
    <3>2. Current >= 1 /\ execCtx \in Task BY <2>2, RunningHasChild
    <3>3. /\ SameRuns(driver, driver')
          /\ driver'.reapers = driver.reapers /\ driver'.limit = driver.limit
      BY <1>1, <3>1, <3>2, SignalIs, UnchangedDriver DEF Current
    <3> QED BY <1>1, <1>2, <2>1, <3>1, <3>2, <3>3, PauseKeeps DEF SessionTyped
  <2>3. CASE rec.state # "running"
    <3>1. UNCHANGED <<rec, driver, leases>> BY <1>3, <2>3 DEF HeartbeatAcked
    <3> QED BY <1>1, <2>1, <3>1, UnchangedDriver, PauseKeeps DEF SessionTyped
  <2> QED BY <2>2, <2>3
<1>4. ASSUME NEW t \in Task, HeartbeatDue(t) PROVE SInv' /\ Current' = Current
  <2>1. UNCHANGED <<seen, forgotten, rec, decided, leases, driver>>
    BY <1>4 DEF HeartbeatDue, dedup
  <2>2. heartbeats' \subseteq Task /\ unacked' \in BOOLEAN
    BY <1>1, <1>4 DEF HeartbeatDue, SessionTyped
  <2> QED BY <1>1, <2>1, <2>2, UnchangedDriver, PauseKeeps DEF SessionTyped
<1>5. ASSUME NEW t \in Task, LeaseSelfTimeout(t) PROVE SInv' /\ Current' = Current
  <2>1. /\ UNCHANGED <<seen, forgotten, decided, heartbeats, unacked>>
        /\ leases' = leases \ {t}
    BY <1>5 DEF LeaseSelfTimeout, dedup
  <2>2. CASE rec.state = "running"
    <3>1. /\ rec' = [rec EXCEPT !.paused = TRUE]
          /\ driver' \in {driver, Signal(driver, {"alive"}, "held")}
      BY <1>5, <2>2 DEF LeaseSelfTimeout
    <3>2. Current >= 1 BY <2>2, RunningHasChild
    <3>3. /\ SameRuns(driver, driver')
          /\ driver'.reapers = driver.reapers /\ driver'.limit = driver.limit
      BY <1>1, <3>1, <3>2, SignalIs, UnchangedDriver DEF Current
    <3> QED BY <1>1, <1>2, <2>1, <3>1, <3>3, PauseKeeps DEF SessionTyped
  <2>3. CASE rec.state # "running"
    <3>1. UNCHANGED <<rec, driver>> BY <1>5, <2>3 DEF LeaseSelfTimeout
    <3> QED BY <1>1, <2>1, <3>1, UnchangedDriver, PauseKeeps DEF SessionTyped
  <2> QED BY <2>2, <2>3
<1>6. ASSUME NEW key \in seen, Evict(key) PROVE SInv' /\ Current' = Current
  <2>1. /\ UNCHANGED <<rec, decided, heartbeats, leases, unacked, driver>>
        /\ seen' = seen \ {key} /\ forgotten' = forgotten \union {key}
    BY <1>6 DEF Evict, timers
  <2> QED BY <1>1, <2>1, UnchangedDriver, PauseKeeps DEF SessionTyped
<1>7. CASE UNCHANGED sessionVars
  <2>1. UNCHANGED <<seen, forgotten, rec, decided, heartbeats, leases, unacked, driver>>
    BY <1>7 DEF sessionVars, dedup, timers
  <2> QED BY <1>1, <2>1, UnchangedDriver, PauseKeeps DEF SessionTyped
<1> QED BY <1>3, <1>4, <1>5, <1>6, <1>7

(* The record leaves running with a verdict.                               *)
LEMMA VerdictKeeps ==
  ASSUME SInv, rec.state = "running", Verdict, SameRuns(driver, driver'),
         driver'.reapers <= driver.reapers + 1, driver'.limit = FALSE,
         NEW state \in {"result_sent", "fail_sent", "stopped"},
         rec' = [rec EXCEPT !.state = state], NEW t, CancelTimers(t),
         seen' \subseteq ({"offer", "cancel"} \X Task \X Attempt),
         seen \subseteq seen', UNCHANGED <<forgotten, unacked>>
  PROVE  SInv' /\ Current' = Current
<1>1. SessionTyped BY DEF SInv
<1>2. rec' \in Record /\ rec'.state = state
  BY <1>1 DEF SessionTyped, Record, States
<1>3. Settled BY VerdictSettles
<1>4. Answered' BY <1>2, <1>3, SettledStops
<1>5. RecordInv' BY <1>2 DEF RecordInv
<1>6. driver'.reapers + Flag(rec'.state = "running") + Flag(driver'.limit) <= 2 * Current
  <2>1. driver.reapers \in Nat /\ driver'.reapers \in Nat /\ Current \in Nat
    BY <1>1 DEF SessionTyped, Driver, Current, SameRuns
  <2>2. driver.reapers + Flag(rec.state = "running") + Flag(driver.limit) <= 2 * Current
    BY DEF SInv, ReapersBound
  <2>3. /\ Flag(rec.state = "running") = 1 /\ Flag(driver.limit) \in {0, 1}
        /\ Flag(rec'.state = "running") = 0 /\ Flag(driver'.limit) = 0
    BY <1>2 DEF Flag
  <2> QED BY <2>1, <2>2, <2>3
<1>7. heartbeats' \subseteq Task /\ leases' \subseteq Task
  BY <1>1 DEF CancelTimers, SessionTyped
<1> QED BY <1>1, <1>2, <1>3, <1>4, <1>5, <1>6, <1>7, SameRunsKeep DEF SessionTyped, Settled

LEMMA ClosesKeeps ==
  ASSUME SInv, NEW r \in 1..Current, NEW done_ \in BOOLEAN, Closes(r, done_)
  PROVE  SInv' /\ Current' = Current
<1>1. SessionTyped /\ driver \in Driver /\ driver.runs \in Seq(Child) /\ r \in 1..Len(driver.runs)
  BY DEF SInv, SessionTyped, Driver, Current
<1>2. UNCHANGED <<seen, forgotten, unacked>> BY DEF Closes, dedup
<1>3. /\ SameRuns(driver, driver') /\ driver'.limit = FALSE
      /\ driver'.reapers = driver.reapers
  <2>1. PICK old \in Child : old = driver.runs[r] BY <1>1
  <2>2. PICK c : c = [old EXCEPT !.status = "gone", !.told = FALSE] OBVIOUS
  <2>3. c \in Child /\ c.task = old.task /\ c.attempt = old.attempt
    BY <2>2 DEF Child
  <2>4. PICK rs : rs = [driver.runs EXCEPT ![r] = c] OBVIOUS
  <2>5. rs \in Seq(Child) BY <1>1, <2>3, <2>4
  <2>7. driver' = [driver EXCEPT !.limit = FALSE, !.runs = rs]
    BY <1>1, <2>1, <2>2, <2>4 DEF Closes, Driver
  <2>8. /\ driver' \in Driver /\ driver'.runs = rs /\ driver'.limit = FALSE
        /\ driver'.reapers = driver.reapers
    BY <1>1, <2>5, <2>7 DEF Driver
  <2> QED BY <1>1, <2>1, <2>3, <2>4, <2>8, OneRunChanges
<1>4. driver.reapers \in Nat BY <1>1 DEF Driver
<1>5. CASE UNCHANGED <<rec, decided, heartbeats, leases>>
  <2>1. Answered' BY <1>3, <1>5, RunGoesOn
  <2>2. RecordInv' BY <1>5 DEF SInv, RecordInv
  <2>3. driver'.reapers + Flag(rec'.state = "running") + Flag(driver'.limit) <= 2 * Current
    <3>1. driver.reapers + Flag(rec.state = "running") + Flag(driver.limit) <= 2 * Current
      BY DEF SInv, ReapersBound
    <3>2. /\ Flag(rec'.state = "running") = Flag(rec.state = "running")
          /\ Flag(rec.state = "running") \in {0, 1}
          /\ Flag(driver.limit) \in {0, 1} /\ Flag(driver'.limit) = 0
      BY <1>3, <1>5 DEF Flag
    <3>3. Current \in Nat BY <1>1 DEF Current
    <3> QED BY <1>3, <1>4, <3>1, <3>2, <3>3
  <2> QED BY <1>1, <1>2, <1>3, <1>5, <2>1, <2>2, <2>3, SameRunsKeep DEF SessionTyped
<1>6. CASE ~UNCHANGED <<rec, decided, heartbeats, leases>>
  <2>1. OnDriverEnd(driver.runs[r].task, done_) BY <1>6 DEF Closes
  <2>2. /\ rec.state = "running" /\ rec' = [rec EXCEPT !.state = DriverVerdict(done_)]
        /\ Verdict /\ CancelTimers(driver.runs[r].task)
    BY <1>6, <2>1 DEF OnDriverEnd
  <2>3. DriverVerdict(done_) \in {"result_sent", "fail_sent", "stopped"}
    BY DEF DriverVerdict
  <2>4. driver'.reapers <= driver.reapers + 1 BY <1>3, <1>4
  <2> QED BY <1>1, <1>2, <1>3, <2>2, <2>3, <2>4, VerdictKeeps DEF SessionTyped
<1> QED BY <1>5, <1>6

LEMMA KeySeen ==
  ASSUME SInv, NEW type \in {"offer", "cancel"}, NEW k \in Key, First(type, k[1], k[2])
  PROVE  /\ seen' = seen \union {<<type, k[1], k[2]>>} /\ seen \subseteq seen'
         /\ seen' \subseteq ({"offer", "cancel"} \X Task \X Attempt)
<1>1. k[1] \in Task /\ k[2] \in Attempt BY KeyIs
<1> QED BY <1>1 DEF First, SInv, SessionTyped

LEMMA ReceiveCancelKeeps ==
  ASSUME SInv, NEW k \in Revoked, ReceiveCancel(k[1], k[2])
  PROVE  SInv' /\ Current' = Current
<1>0. k \in Key BY SessionAssumption
<1>1. /\ seen \subseteq seen' /\ seen' \subseteq ({"offer", "cancel"} \X Task \X Attempt)
      /\ UNCHANGED <<forgotten, unacked>> /\ OnCancel(k[1], k[2])
  BY <1>0, KeySeen DEF ReceiveCancel
<1>2. SessionTyped /\ driver \in Driver BY DEF SInv, SessionTyped
<1>3. CASE rec.state = "running" /\ rec.attempt = k[2]
  <2>1. /\ rec' = [rec EXCEPT !.state = "stopped"] /\ driver' = DriverStop(driver)
        /\ CancelTimers(k[1]) /\ Verdict
    BY <1>1, <1>3 DEF OnCancel
  <2>2. Current >= 1 BY <1>3, RunningHasChild
  <2>3. /\ SameRuns(driver, driver') /\ driver'.limit = FALSE
        /\ driver'.reapers = driver.reapers + 1
    BY <1>2, <2>1, <2>2, StopIs DEF Current
  <2>4. driver'.reapers <= driver.reapers + 1
    BY <1>2, <2>3 DEF Driver
  <2> QED BY <1>1, <1>3, <2>1, <2>3, <2>4, VerdictKeeps
<1>4. CASE ~(rec.state = "running" /\ rec.attempt = k[2])
  <2>1. UNCHANGED <<rec, decided, driver, heartbeats, leases>>
    BY <1>1, <1>4 DEF OnCancel
  <2> QED BY <1>1, <1>2, <2>1, UnchangedDriver, PauseKeeps DEF SessionTyped
<1> QED BY <1>3, <1>4

-----------------------------------------------------------------------------
(* Offers.                                                                 *)

(* evaluateOffer, once every earlier child has its verdict.                *)
LEMMA EvaluateKeeps ==
  ASSUME SInv, NEW k \in Key, NEW d, SameRuns(driver, d),
         d.reapers + Flag(d.limit) <= 2 * Current, Settled,
         NEW hs \in SUBSET Task, NEW ls \in SUBSET Task,
         EvaluateOffer(k[1], k[2], d, hs, ls),
         First("offer", k[1], k[2]), UNCHANGED <<forgotten, unacked>>
  PROVE  SInv'
<1>1. /\ SessionTyped /\ driver \in Driver /\ Current \in Nat /\ d \in Driver
      /\ d.reapers \in Nat /\ d.limit \in BOOLEAN /\ Len(d.runs) = Current
      /\ MaxRuns \in Nat
  BY SessionAssumption DEF SInv, SessionTyped, Driver, Current, SameRuns
<1>2. k = <<k[1], k[2]>> /\ k[1] \in Task /\ k[2] \in Attempt BY KeyIs
<1>3. /\ seen' = seen \union {<<"offer", k[1], k[2]>>} /\ seen \subseteq seen'
      /\ seen' \subseteq ({"offer", "cancel"} \X Task \X Attempt)
  BY KeySeen
<1>4. decided' \in [Key -> Nat] BY DEF Settled
<1>5. CASE /\ rec' \in {Blank("rejected"), For("rejected", k[1], k[2])}
           /\ driver' = d /\ heartbeats' = hs /\ leases' = ls
  <2>1. rec' \in Record /\ rec'.state = "rejected"
    <3>1. Blank("rejected") \in Record /\ Blank("rejected").state = "rejected"
      BY DEF Blank, Record, States
    <3>2. /\ For("rejected", k[1], k[2]) \in Record
          /\ For("rejected", k[1], k[2]).state = "rejected"
      BY <1>2 DEF For, Record, States
    <3> QED BY <1>5, <3>1, <3>2
  <2>2. Answered' BY <1>5, <2>1, SettledStops
  <2>3. RecordInv' BY <2>1 DEF RecordInv
  <2>4. driver'.reapers + Flag(rec'.state = "running") + Flag(driver'.limit) <= 2 * Current
    <3>1. Flag(rec'.state = "running") = 0 /\ Flag(d.limit) \in {0, 1} BY <2>1 DEF Flag
    <3> QED BY <1>1, <1>5, <3>1
  <2> QED BY <1>1, <1>3, <1>4, <1>5, <2>1, <2>2, <2>3, <2>4, SameRunsKeep DEF SessionTyped
<1>6. CASE /\ StartDriver(d, k[1], k[2]) /\ rec' = For("running", k[1], k[2])
           /\ heartbeats' = hs \union {k[1]} /\ leases' = ls \union {k[1]}
  <2>1. /\ Len(d.runs) < MaxRuns /\ driver' = DriverStart(d, k[1], k[2])
    BY <1>6 DEF StartDriver
  <2>2. /\ driver' \in Driver /\ Len(driver'.runs) = Current + 1
        /\ driver'.reapers = d.reapers
        /\ driver'.runs[Current + 1].task = k[1] /\ driver'.runs[Current + 1].attempt = k[2]
        /\ \A r \in 1..Current : driver'.runs[r] = d.runs[r]
    BY <1>1, <1>2, <2>1, StartIs
  <2>3. /\ Current' = Current + 1
        /\ \A r \in 1..Current : driver'.runs[r].task = driver.runs[r].task
                              /\ driver'.runs[r].attempt = driver.runs[r].attempt
    BY <2>2 DEF SameRuns, Current
  <2>4. /\ rec' \in Record /\ rec'.state = "running" /\ rec'.task = k[1]
        /\ rec'.attempt = k[2]
    BY <1>2, <1>6 DEF For, Record, States
  <2>5. Answered' BY <1>1, <1>2, <2>2, <2>3, <2>4, SettledStarts
  <2>6. RecordInv' BY <1>2, <2>4 DEF RecordInv
  <2>7. SessionTyped'
    <3>1. Current' <= MaxRuns BY <1>1, <2>1, <2>3
    <3> QED BY <1>1, <1>2, <1>3, <1>4, <1>6, <2>2, <2>4, <3>1 DEF SessionTyped
  <2>8. ReapersBound'
    <3>1. /\ Flag(d.limit) \in {0, 1} /\ Flag(driver'.limit) \in {0, 1}
          /\ Flag(rec'.state = "running") = 1
      BY <2>4 DEF Flag
    <3>2. driver'.reapers + 1 + Flag(driver'.limit) <= 2 * (Current + 1)
      BY <1>1, <2>2, <3>1
    <3> QED BY <2>3, <3>1, <3>2 DEF ReapersBound
  <2>9. RunsWereOffered'
    <3> SUFFICES ASSUME NEW r \in 1..(Current + 1)
                 PROVE  <<"offer", driver'.runs[r].task, driver'.runs[r].attempt>>
                          \in seen' \union forgotten'
      BY <2>3 DEF RunsWereOffered
    <3>1. CASE r = Current + 1 BY <1>3, <2>2, <3>1
    <3>2. CASE r # Current + 1
      <4>1. r \in 1..Current BY <1>1, <3>2
      <4>2. <<"offer", driver.runs[r].task, driver.runs[r].attempt>> \in seen \union forgotten
        BY <4>1 DEF SInv, RunsWereOffered
      <4> QED BY <1>3, <2>3, <4>1, <4>2
    <3> QED BY <3>1, <3>2
  <2> QED BY <2>5, <2>6, <2>7, <2>8, <2>9 DEF SInv
<1> QED BY <1>5, <1>6 DEF EvaluateOffer

LEMMA ReceiveOfferKeeps ==
  ASSUME SInv, NEW k \in Key, ReceiveOffer(k[1], k[2])
  PROVE  SInv'
<1>1. /\ First("offer", k[1], k[2]) /\ UNCHANGED <<forgotten, unacked>>
      /\ seen \subseteq seen' /\ seen' \subseteq ({"offer", "cancel"} \X Task \X Attempt)
  BY KeySeen DEF ReceiveOffer
<1>2. /\ SessionTyped /\ driver \in Driver /\ rec \in Record /\ Current \in Nat
      /\ driver.reapers \in Nat /\ heartbeats \subseteq Task /\ leases \subseteq Task
  BY DEF SInv, SessionTyped, Driver, Current
<1>3. /\ driver.reapers + Flag(rec.state = "running") + Flag(driver.limit) <= 2 * Current
      /\ Flag(rec.state = "running") \in {0, 1} /\ Flag(driver.limit) \in {0, 1}
  BY DEF SInv, ReapersBound, Flag
<1>4. CASE UNCHANGED <<rec, decided, driver, heartbeats, leases>>
  BY <1>1, <1>2, <1>4, UnchangedDriver, PauseKeeps DEF SessionTyped
<1>5. CASE /\ rec' = IF rec.state \in {"idle", "rejected"} THEN Blank("rejected") ELSE rec
           /\ UNCHANGED <<decided, driver, heartbeats, leases>>
  <2>1. CASE rec.state \in {"idle", "rejected"}
    <3>1. rec' \in Record /\ rec'.state = "rejected" /\ rec.state # "running"
      BY <1>5, <2>1 DEF Blank, Record, States
    <3>2. Answered' BY <1>5, <3>1, IdleSettles, SettledStops, UnchangedDriver
    <3>3. RecordInv' BY <3>1 DEF RecordInv
    <3>4. driver'.reapers + Flag(rec'.state = "running") + Flag(driver'.limit) <= 2 * Current
      BY <1>3, <1>5, <3>1 DEF Flag
    <3> QED BY <1>1, <1>2, <1>5, <3>1, <3>2, <3>3, <3>4, UnchangedDriver, SameRunsKeep
            DEF SessionTyped
  <2>2. CASE rec.state \notin {"idle", "rejected"}
    BY <1>1, <1>2, <1>5, <2>2, UnchangedDriver, PauseKeeps DEF SessionTyped
  <2> QED BY <2>1, <2>2
<1>6. CASE /\ rec.state = "running" /\ Verdict
           /\ EvaluateOffer(k[1], k[2], DriverStop(driver), heartbeats \ {k[1]}, leases \ {k[1]})
  <2>1. Current >= 1 BY <1>6, RunningHasChild
  <2>2. PICK d : d = DriverStop(driver) OBVIOUS
  <2>3. SameRuns(driver, d) /\ d.limit = FALSE /\ d.reapers = driver.reapers + 1
    BY <1>2, <2>1, <2>2, StopIs DEF Current
  <2>4. d.reapers + Flag(d.limit) <= 2 * Current
    <3>1. Flag(rec.state = "running") = 1 /\ Flag(d.limit) = 0 BY <1>6, <2>3 DEF Flag
    <3> QED BY <1>2, <1>3, <2>3, <3>1
  <2>5. Settled BY <1>6, VerdictSettles
  <2>6. PICK hs \in SUBSET Task, ls \in SUBSET Task :
          hs = heartbeats \ {k[1]} /\ ls = leases \ {k[1]}
    BY <1>2
  <2> QED BY <1>1, <1>6, <2>2, <2>3, <2>4, <2>5, <2>6, EvaluateKeeps
<1>7. CASE /\ rec.state # "running" /\ UNCHANGED decided
           /\ EvaluateOffer(k[1], k[2], driver, heartbeats, leases)
  <2>1. Settled BY <1>7, IdleSettles
  <2>2. SameRuns(driver, driver) BY <1>2 DEF SameRuns
  <2>3. driver.reapers + Flag(driver.limit) <= 2 * Current BY <1>2, <1>3
  <2> QED BY <1>1, <1>2, <1>7, <2>1, <2>2, <2>3, EvaluateKeeps
<1> QED BY <1>4, <1>5, <1>6, <1>7 DEF ReceiveOffer, OnOffer

-----------------------------------------------------------------------------
(* The session's children, verdicts, timers and R1 keys stay in step,      *)
(* whatever arrives in whatever order.                                     *)
THEOREM SessionInvariant == SessionSpec => []SInv
<1>1. ASSUME SessionInit PROVE SInv
  <2>1. driver = [stopped |-> FALSE, limit |-> FALSE, reapers |-> 0, runs |-> <<>>]
    BY <1>1 DEF SessionInit
  <2>2. driver \in Driver /\ Current = 0 /\ driver.reapers = 0 /\ driver.limit = FALSE
    BY <2>1 DEF Driver, Current
  <2>3. rec \in Record /\ rec.state = "idle" /\ rec.task = None
    BY <1>1 DEF SessionInit, Blank, Record, States
  <2>4. SessionTyped
    <3>1. MaxRuns \in Nat /\ 0 <= MaxRuns BY SessionAssumption
    <3>2. decided \in [Key -> Nat] BY <1>1 DEF SessionInit
    <3> QED BY <1>1, <2>2, <2>3, <3>1, <3>2 DEF SessionInit, SessionTyped
  <2>5. Answered
    <3> SUFFICES ASSUME NEW k \in Key
                 PROVE  Cardinality(RunsOf(k)) = decided[k] + Flag(Running(k[1], k[2]))
      BY DEF Answered
    <3>1. RunsOf(k) = {} BY <2>2 DEF RunsOf
    <3>2. Cardinality(RunsOf(k)) = 0 BY <3>1, FS_EmptySet
    <3>3. decided[k] = 0 /\ Flag(Running(k[1], k[2])) = 0
      BY <1>1, <2>3 DEF SessionInit, Running, Flag
    <3> QED BY <3>2, <3>3
  <2>6. ReapersBound /\ RecordInv /\ RunsWereOffered
    BY <2>2, <2>3 DEF ReapersBound, RecordInv, RunsWereOffered, Flag
  <2> QED BY <2>4, <2>5, <2>6 DEF SInv
<1>2. ASSUME SInv, [SessionNext]_sessionVars PROVE SInv'
  <2>1. ASSUME NEW r \in 1..Current, Exits(r) \/ DiesKilled(r) PROVE SInv'
    <3>1. PICK done_ \in BOOLEAN : Closes(r, done_) BY <2>1 DEF Exits, DiesKilled
    <3> QED BY <1>2, <3>1, ClosesKeeps
  <2> QED BY <1>2, <2>1, DriverTimersKeep, TimerStepsKeep, ReceiveOfferKeeps, ReceiveCancelKeeps
          DEF SessionNext
<1> QED BY <1>1, <1>2, PTL DEF SessionSpec

(* R6: every accepted attempt runs or was answered once per acceptance,    *)
(* whatever offers, cancels and exits of older children arrive meanwhile   *)
(* (processExec of remote/session.ts, executor/machine.ts).                *)
THEOREM NothingIsDropped == SessionSpec => []NoSilentDrop
BY SessionInvariant, SInvImplies, PTL

(* A child is only started for an offer that was not in the R1 keys, by a  *)
(* record that does not rule the attempt out.                              *)
LEMMA OnlyOffersStart ==
  ASSUME SInv, NEW k \in Key, ReceiveOffer(k[1], k[2]), Len(driver'.runs) > Current
  PROVE  /\ <<"offer", k[1], k[2]>> \notin seen
         /\ driver'.runs[Len(driver'.runs)].task = k[1]
         /\ driver'.runs[Len(driver'.runs)].attempt = k[2]
         /\ rec.task # k[1] \/ rec.state = "rejected" \/ rec.attempt < k[2]
<1>1. driver \in Driver /\ Current \in Nat /\ Current = Len(driver.runs) /\ rec \in Record
  BY DEF SInv, SessionTyped, Driver, Current
<1>2. k[1] \in Task /\ k[2] \in Attempt /\ k[2] \in Nat BY KeyIs
<1>3. driver' # driver BY <1>1
<1>4. PICK d, hs, ls :
        /\ EvaluateOffer(k[1], k[2], d, hs, ls)
        /\ \/ rec.state = "running" /\ k[2] > rec.attempt /\ d = DriverStop(driver)
           \/ rec.state # "running" /\ ~AlreadyDecided(k[1], k[2]) /\ d = driver
  BY <1>3 DEF ReceiveOffer, OnOffer
<1>5. d \in Driver /\ Len(d.runs) = Current
  <2>1. CASE d = driver BY <1>1, <2>1
  <2>2. CASE rec.state = "running" /\ d = DriverStop(driver)
    BY <1>1, <2>2, RunningHasChild, StopIs DEF SameRuns
  <2> QED BY <1>4, <2>1, <2>2
<1>6. driver' = DriverStart(d, k[1], k[2])
  BY <1>1, <1>4, <1>5 DEF EvaluateOffer, StartDriver
<1>7. /\ driver'.runs[Len(driver'.runs)].task = k[1]
      /\ driver'.runs[Len(driver'.runs)].attempt = k[2]
  BY <1>2, <1>5, <1>6, StartIs
<1>8. rec.task # k[1] \/ rec.state = "rejected" \/ rec.attempt < k[2]
  <2>1. rec.attempt \in Nat
    <3>1. \A q \in Key : q[2] \in Nat BY KeyIs
    <3>2. Attempt \subseteq Nat BY <3>1 DEF Attempt
    <3>3. rec.attempt \in Attempt \union {0} BY <1>1 DEF Record
    <3>4. CASE rec.attempt = 0 BY <3>4
    <3>5. CASE rec.attempt \in Attempt BY <3>2, <3>5
    <3> QED BY <3>3, <3>4, <3>5
  <2>2. CASE rec.state = "running" /\ k[2] > rec.attempt BY <1>2, <2>1, <2>2
  <2>3. CASE rec.state # "running" /\ ~AlreadyDecided(k[1], k[2])
    <3>1. CASE rec.state = "idle"
      BY <1>2, <3>1, SessionAssumption DEF SInv, RecordInv
    <3>2. CASE rec.state \in Decided
      BY <1>2, <2>1, <2>3, <3>2 DEF AlreadyDecided
    <3>3. CASE rec.state = "rejected" BY <3>3
    <3> QED BY <1>1, <2>3, <3>1, <3>2, <3>3 DEF Record, States, Decided
  <2> QED BY <1>4, <2>2, <2>3
<1>9. <<"offer", k[1], k[2]>> \notin seen BY DEF ReceiveOffer, First
<1> QED BY <1>7, <1>8, <1>9

(* A second child of an attempt is only started when its R1 key has        *)
(* outlived its retention and the machine's record is about something else.*)
THEOREM RerunsAreForgotten == SessionSpec => RerunOnlyWhenForgotten
<1> DEFINE Rerun ==
      \A r \in 1..Current :
        LET c == driver.runs[r]
            next == driver'.runs[Len(driver'.runs)]
        IN  (/\ Len(driver'.runs) > Current
             /\ next.task = c.task /\ next.attempt = c.attempt)
            => /\ <<"offer", c.task, c.attempt>> \in forgotten
               /\ rec.task # c.task \/ rec.state = "rejected" \/ rec.attempt < c.attempt
<1>1. ASSUME SInv, [SessionNext]_sessionVars PROVE [Rerun]_sessionVars
  <2> SUFFICES ASSUME NEW r \in 1..Current,
                      Len(driver'.runs) > Current,
                      driver'.runs[Len(driver'.runs)].task = driver.runs[r].task,
                      driver'.runs[Len(driver'.runs)].attempt = driver.runs[r].attempt
               PROVE  /\ <<"offer", driver.runs[r].task, driver.runs[r].attempt>> \in forgotten
                      /\ \/ rec.task # driver.runs[r].task \/ rec.state = "rejected"
                         \/ rec.attempt < driver.runs[r].attempt
    OBVIOUS
  <2>1. Current \in Nat /\ Current' = Len(driver'.runs) /\ Current' # Current
    BY <1>1 DEF SInv, SessionTyped, Driver, Current
  <2>2. ASSUME NEW q \in 1..Current, Exits(q) \/ DiesKilled(q) PROVE FALSE
    <3>1. PICK done_ \in BOOLEAN : Closes(q, done_) BY <2>2 DEF Exits, DiesKilled
    <3> QED BY <1>1, <2>1, <3>1, ClosesKeeps
  <2>3. PICK k \in Key : ReceiveOffer(k[1], k[2])
    BY <1>1, <2>1, <2>2, DriverTimersKeep, TimerStepsKeep, ReceiveCancelKeeps DEF SessionNext
  <2>4. <<"offer", driver.runs[r].task, driver.runs[r].attempt>> \in seen \union forgotten
    BY <1>1 DEF SInv, RunsWereOffered
  <2> QED BY <1>1, <2>3, <2>4, OnlyOffersStart
<1>2. SInv /\ [SessionNext]_sessionVars => [Rerun]_sessionVars BY <1>1
<1> QED BY <1>2, SessionInvariant, PTL DEF SessionSpec, RerunOnlyWhenForgotten
=============================================================================

----------------------------- MODULE CustodyProofs -----------------------------
(***************************************************************************)
(* Proofs about the durable path of an envelope, for any number of         *)
(* envelopes and any window.  NoLoss is not inductive: a stored frame that *)
(* is still under way, or a receipt, carries a promise of its own.         *)
(***************************************************************************)
EXTENDS Custody, TLAPS

\* The envelope is somewhere else than in the sender's outbox, or too late.
Safe(m) == row[m] = "pending" \/ inbox[m] # "none" \/ m \in due

Promises ==
  /\ \A m \in acks : Safe(m)
  /\ \A m \in receipts : inbox[m] # "none"
  /\ \A m \in Msg : row[m] = "expired" => m \in due

\* Nothing is under way that was not sent.
Known(m) == delivery[m] # "none"
Sent ==
  /\ \A m \in uplink : Known(m)
  /\ \A m \in Msg : row[m] # "none" => Known(m)
  /\ \A m \in downlink : Known(m)
  /\ \A i \in 1..Len(inbound) : Known(inbound[i])
  /\ verifying # None => Known(verifying)

CInv == CustodyTypeOK /\ NoLoss /\ ReceivedIsCommitted /\ Promises /\ Sent

LEMMA InitCInv == CustodyInit => CInv
<1> SUFFICES ASSUME CustodyInit PROVE CInv OBVIOUS
<1> USE DEF CustodyInit
<1>q. inbound \in Seq(Msg) OBVIOUS
<1>1. CustodyTypeOK
  BY <1>q DEF CustodyTypeOK, DeliveryStatus, CustodyStatus, InboxDecision, Ends
<1>2. NoLoss /\ ReceivedIsCommitted /\ Promises
  BY DEF NoLoss, ReceivedIsCommitted, Promises
<1>3. Sent
  <2>1. Len(inbound) = 0 OBVIOUS
  <2> QED BY <2>1 DEF Sent
<1> QED BY <1>1, <1>2, <1>3 DEF CInv

(* Emptying the queue, or taking its head, loses the types and the past of *)
(* no envelope.                                                            *)
LEMMA EmptyQueue ==
  ASSUME inbound' = <<>>
  PROVE  inbound' \in Seq(Msg) /\ Len(inbound') = 0
OBVIOUS

LEMMA NextQueue ==
  ASSUME CustodyTypeOK, Sent, verifying # None, NextInbound
  PROVE  /\ inbound' \in Seq(Msg)
         /\ verifying' \in Msg \union {None}
         /\ stale' \in BOOLEAN
         /\ \A i \in 1..Len(inbound') : Known(inbound'[i])
         /\ verifying' # None => Known(verifying')
<1> USE DEF NextInbound, CustodyTypeOK, Sent
<1>1. CASE inbound = <<>> BY <1>1
<1>2. CASE inbound # <<>>
  <2>1. verifying' = inbound[1] /\ inbound' = Tail(inbound) /\ Len(inbound) > 0 BY <1>2
  <2>2. inbound' \in Seq(Msg) /\ Len(inbound') = Len(inbound) - 1 BY <2>1
  <2>3. \A i \in 1..Len(inbound') : inbound'[i] = inbound[i + 1] /\ i + 1 \in 1..Len(inbound) BY <2>1, <2>2
  <2>4. inbound[1] \in Msg /\ Known(inbound[1]) BY <2>1
  <2>5. \A i \in 1..Len(inbound') : Known(inbound'[i]) BY <2>3
  <2>6. stale' = FALSE OBVIOUS
  <2> HIDE DEF NextInbound, CustodyTypeOK, Sent, Known
  <2> QED BY <2>1, <2>2, <2>4, <2>5, <2>6
<1> QED BY <1>1, <1>2

LEMMA ExpiredType ==
  ASSUME NEW r \in [Msg -> CustodyStatus]
  PROVE  /\ Expired(r) \in [Msg -> CustodyStatus]
         /\ \A m \in Msg : Expired(r)[m] = r[m] \/ (r[m] = "pending" /\ m \in due /\ Expired(r)[m] = "expired")
BY DEF Expired, CustodyStatus

LEMMA PendingType ==
  ASSUME NEW r, NEW o
  PROVE  /\ Pending(r, o) \subseteq Msg
         /\ \A m \in Pending(r, o) : r[m] = "pending"
BY DEF Pending

(* A pump may expire rows that are due, and offers pending rows only.      *)
LEMMA PumpEffect ==
  ASSUME CustodyTypeOK, NEW r \in [Msg -> CustodyStatus], NEW o \in SUBSET (Msg \X Msg),
         NEW flying \in SUBSET Msg, Pump(r, o, flying)
  PROVE  /\ row' \in [Msg -> CustodyStatus]
         /\ older' \subseteq Msg \X Msg
         /\ inflight' \subseteq Msg
         /\ downlink' \subseteq Msg
         /\ \A m \in Msg : row'[m] = r[m] \/ (r[m] = "pending" /\ m \in due /\ row'[m] = "expired")
         /\ \A m \in downlink' : m \in downlink \/ r[m] = "pending"
<1>1. CASE conn["receiver"] # "authed"
  BY <1>1 DEF Pump, CustodyTypeOK
<1>2. CASE conn["receiver"] = "authed"
  <2>1. row' = Expired(r) /\ older' = o /\ inflight' = Pending(Expired(r), o)
    BY <1>2 DEF Pump
  <2>2. PICK again \in SUBSET (Pending(Expired(r), o) \intersect flying) :
          downlink' = downlink \union (Pending(Expired(r), o) \ flying) \union again
    BY <1>2 DEF Pump
  <2>3. \A m \in Pending(Expired(r), o) : m \in Msg /\ Expired(r)[m] = "pending"
    BY PendingType
  <2>4. \A m \in Msg : Expired(r)[m] = "pending" => r[m] = "pending"
    BY ExpiredType
  <2> HIDE DEF Pump
  <2> QED BY <2>1, <2>2, <2>3, <2>4, ExpiredType, PendingType DEF CustodyTypeOK
<1> QED BY <1>1, <1>2

(* The inductive step, once what a step does to the tables is known.  It   *)
(* is enough to look at one envelope at a time.                            *)
LEMMA NextInv ==
  ASSUME CInv, [CustodyNext]_custodyVars
  PROVE  CInv'
<1> USE DEF CInv, Safe, Known
<1>u. CASE UNCHANGED custodyVars
  BY <1>u DEF custodyVars, stores, senderFrames, receiverLink, client, CustodyTypeOK, NoLoss,
     ReceivedIsCommitted, Promises, Sent, DeliveryStatus, CustodyStatus, InboxDecision
<1>1. CASE Flush
  BY <1>1 DEF Flush, Eligible, stores, receiverLink, client, CustodyTypeOK, NoLoss,
     ReceivedIsCommitted, Promises, Sent, DeliveryStatus, CustodyStatus, InboxDecision
<1>2. CASE NodePrune
  BY <1>2 DEF NodePrune, stores, senderFrames, receiverLink, client, CustodyTypeOK, NoLoss,
     ReceivedIsCommitted, Promises, Sent, DeliveryStatus, CustodyStatus, InboxDecision
<1>3. CASE Sweep
  <2>1. Pump(row, older, inflight) BY <1>3 DEF Sweep
  <2>2. row \in [Msg -> CustodyStatus] /\ older \subseteq Msg \X Msg /\ inflight \subseteq Msg BY DEF CustodyTypeOK
  <2> QED BY <1>3, <2>1, <2>2, PumpEffect DEF Sweep, senderFrames, client, CustodyTypeOK, NoLoss,
     ReceivedIsCommitted, Promises, Sent
<1>4. CASE CustodyPrune
  <2>1. PICK newest \in Msg :
          LET gone == {m \in Msg : /\ row[m] \in {"received", "expired"}
                                   /\ m = newest \/ <<m, newest>> \in older}
          IN /\ row' = [m \in Msg |-> IF m \in gone THEN "none" ELSE row[m]]
             /\ older' = {p \in older : p[1] \notin gone /\ p[2] \notin gone}
    BY <1>4 DEF CustodyPrune
  <2>2. /\ row' \in [Msg -> CustodyStatus]
        /\ \A m \in Msg : row'[m] = row[m] \/ (row[m] \in {"received", "expired"} /\ row'[m] = "none")
    BY <2>1 DEF CustodyTypeOK, CustodyStatus
  <2>3. older' \subseteq Msg \X Msg BY <2>1 DEF CustodyTypeOK
  <2>4. UNCHANGED <<delivery, inbox, due, conn, gateway, uplink, acks, downlink, receipts, inflight,
                    inbound, verifying, stale>>
    BY <1>4 DEF CustodyPrune, senderFrames, receiverLink, client
  <2>5. CustodyTypeOK' BY <2>2, <2>3, <2>4 DEF CustodyTypeOK
  <2>6. NoLoss' /\ ReceivedIsCommitted' /\ Promises'
    BY <2>2, <2>4 DEF CustodyTypeOK, NoLoss, ReceivedIsCommitted, Promises
  <2>7. Sent' BY <2>2, <2>4 DEF Sent
  <2> QED BY <2>5, <2>6, <2>7
<1>5. CASE Receive
  <2>1. verifying \in Msg /\ Known(verifying) BY <1>5 DEF Receive, CustodyTypeOK, Sent
  <2>2. /\ inbox' \in [Msg -> InboxDecision]
        /\ inbox'[verifying] # "none"
        /\ \A m \in Msg : inbox[m] # "none" => inbox'[m] # "none"
    BY <1>5, <2>1 DEF Receive, Received, CustodyTypeOK, InboxDecision
  <2>3. UNCHANGED <<delivery, row, older, due, conn, gateway, uplink, acks, downlink, inflight>>
        /\ receipts' = receipts \union {verifying}
    BY <1>5 DEF Receive, senderFrames
  <2>4. verifying # None /\ NextInbound BY <1>5 DEF Receive
  <2>5. CustodyTypeOK' BY <2>1, <2>2, <2>3, <2>4, NextQueue DEF CustodyTypeOK
  <2>6. NoLoss' /\ ReceivedIsCommitted' /\ Promises'
    BY <2>1, <2>2, <2>3 DEF CustodyTypeOK, NoLoss, ReceivedIsCommitted, Promises
  <2>7. Sent' BY <2>3, <2>4, NextQueue DEF Sent
  <2> QED BY <2>5, <2>6, <2>7
<1>6. CASE Discard
  <2>1. verifying # None /\ NextInbound /\ UNCHANGED <<stores, due, conn, gateway, senderFrames, receiverLink>>
    BY <1>6 DEF Discard
  <2>2. CustodyTypeOK' BY <2>1, NextQueue DEF CustodyTypeOK, stores, senderFrames, receiverLink
  <2>3. NoLoss' /\ ReceivedIsCommitted' /\ Promises'
    BY <2>1 DEF NoLoss, ReceivedIsCommitted, Promises, stores, senderFrames, receiverLink
  <2>4. Sent' BY <2>1, NextQueue DEF Sent, stores, senderFrames, receiverLink
  <2> QED BY <2>2, <2>3, <2>4
<1>7. CASE VerifyTimeout
  <2>1. inbound' \in Seq(Msg) /\ Len(inbound') = 0
    BY <1>7, EmptyQueue DEF VerifyTimeout, CloseReceiver
  <2>2. CustodyTypeOK' BY <1>7, <2>1 DEF VerifyTimeout, CloseReceiver, stores, senderFrames, CustodyTypeOK
  <2>3. NoLoss' /\ ReceivedIsCommitted' /\ Promises'
    BY <1>7 DEF VerifyTimeout, CloseReceiver, stores, senderFrames, NoLoss, ReceivedIsCommitted, Promises
  <2>4. Sent' BY <1>7, <2>1 DEF VerifyTimeout, CloseReceiver, stores, senderFrames, Sent
  <2> QED BY <2>2, <2>3, <2>4
<1>8. CASE OpenSender
  BY <1>8 DEF OpenSender, stores, receiverLink, client, CustodyTypeOK, NoLoss,
     ReceivedIsCommitted, Promises, Sent
<1>9. CASE OpenReceiver
  <2>1. /\ row' \in [Msg -> CustodyStatus]
        /\ \A m \in Msg : row'[m] = row[m] \/ (row[m] = "pending" /\ m \in due /\ row'[m] = "expired")
    BY <1>9, ExpiredType DEF OpenReceiver, CustodyTypeOK
  <2>2. inflight' \subseteq Msg /\ \A m \in downlink' : m \in Msg /\ row'[m] = "pending"
    BY <1>9, PendingType DEF OpenReceiver
  <2> QED BY <1>9, <2>1, <2>2 DEF OpenReceiver, senderFrames, client, CustodyTypeOK, NoLoss,
     ReceivedIsCommitted, Promises, Sent
<1>10. CASE DropSender
  BY <1>10 DEF DropSender, stores, receiverLink, client, CustodyTypeOK, NoLoss,
     ReceivedIsCommitted, Promises, Sent
<1>11. CASE DropReceiver
  <2>1. inbound' \in Seq(Msg) /\ Len(inbound') = 0
    BY <1>11, EmptyQueue DEF DropReceiver, CloseReceiver
  <2>2. CustodyTypeOK' BY <1>11, <2>1 DEF DropReceiver, CloseReceiver, stores, senderFrames, CustodyTypeOK
  <2>3. NoLoss' /\ ReceivedIsCommitted' /\ Promises'
    BY <1>11 DEF DropReceiver, CloseReceiver, stores, senderFrames, NoLoss, ReceivedIsCommitted, Promises
  <2>4. Sent' BY <1>11, <2>1 DEF DropReceiver, CloseReceiver, stores, senderFrames, Sent
  <2> QED BY <2>2, <2>3, <2>4
<1>12. CASE RestartReceiver
  <2>1. inbound' \in Seq(Msg) /\ Len(inbound') = 0
    BY <1>12, EmptyQueue DEF RestartReceiver, CloseReceiver
  <2>2. CustodyTypeOK' BY <1>12, <2>1 DEF RestartReceiver, CloseReceiver, stores, senderFrames, CustodyTypeOK
  <2>3. NoLoss' /\ ReceivedIsCommitted' /\ Promises'
    BY <1>12 DEF RestartReceiver, CloseReceiver, stores, senderFrames, NoLoss, ReceivedIsCommitted, Promises
  <2>4. Sent' BY <1>12, <2>1 DEF RestartReceiver, CloseReceiver, stores, senderFrames, Sent
  <2> QED BY <2>2, <2>3, <2>4
<1>13. CASE GatewayFails
  <2>1. inbound' \in Seq(Msg) /\ Len(inbound') = 0
    BY <1>13, EmptyQueue DEF GatewayFails
  <2>2. CustodyTypeOK' BY <1>13, <2>1 DEF GatewayFails, stores, CustodyTypeOK
  <2>3. NoLoss' /\ ReceivedIsCommitted' /\ Promises'
    BY <1>13 DEF GatewayFails, stores, NoLoss, ReceivedIsCommitted, Promises
  <2>4. Sent' BY <1>13, <2>1 DEF GatewayFails, stores, Sent
  <2> QED BY <2>2, <2>3, <2>4
<1>14. CASE RestartGateway
  BY <1>14 DEF RestartGateway, stores, senderFrames, receiverLink, client, CustodyTypeOK, NoLoss,
     ReceivedIsCommitted, Promises, Sent
<1>15. ASSUME NEW m \in Msg, Send(m) PROVE CInv'
  BY <1>15 DEF Send, Saved, Eligible, receiverLink, client, CustodyTypeOK, NoLoss,
     ReceivedIsCommitted, Promises, Sent, DeliveryStatus
<1>16. ASSUME NEW m \in Msg, Stored(m) PROVE CInv'
  BY <1>16 DEF Stored, StoredRow, receiverLink, client, CustodyTypeOK, NoLoss,
     ReceivedIsCommitted, Promises, Sent, DeliveryStatus
<1>17. ASSUME NEW m \in Msg, Admit(m) PROVE CInv'
  <2>1. /\ m \in uplink /\ uplink' = uplink \ {m} /\ Known(m)
        /\ UNCHANGED <<delivery, inbox, due, conn, gateway, receipts, client>>
    BY <1>17 DEF Admit, Sent
  <2>2. CASE UNCHANGED <<row, older, acks, downlink, inflight>>
    BY <2>1, <2>2 DEF client, CustodyTypeOK, NoLoss, ReceivedIsCommitted, Promises, Sent
  <2>3. ASSUME NEW answer \in OfferAnswers(m) \ {"stored"}, row' = Offered(m, answer),
               UNCHANGED <<older, acks, downlink, inflight>>
        PROVE  CInv'
    <3>1. row' = row \/ row' = Expired(row) BY <2>3 DEF Offered, OfferAnswers
    <3>2. /\ row' \in [Msg -> CustodyStatus]
          /\ \A n \in Msg : row'[n] = row[n] \/ (row[n] = "pending" /\ n \in due /\ row'[n] = "expired")
      BY <3>1, ExpiredType DEF CustodyTypeOK
    <3> QED BY <2>1, <2>3, <3>2 DEF client, CustodyTypeOK, NoLoss, ReceivedIsCommitted, Promises, Sent
  <2>4. ASSUME acks' = acks \union {m},
               Pump(Offered(m, "stored"), IF row[m] = "none" THEN Inserted(m) ELSE older, inflight)
        PROVE  CInv'
    <3> DEFINE r == Offered(m, "stored")
               o == IF row[m] = "none" THEN Inserted(m) ELSE older
    <3>1. /\ r \in [Msg -> CustodyStatus]
          /\ r[m] # "none"
          /\ row[m] # "none" => r = row
          /\ row[m] = "none" => r[m] = "pending"
          /\ \A n \in Msg \ {m} : r[n] = row[n] \/ (row[n] = "pending" /\ n \in due /\ r[n] = "expired")
      BY ExpiredType DEF Offered, CustodyTypeOK, CustodyStatus
    <3>2. o \in SUBSET (Msg \X Msg) BY DEF Inserted, CustodyTypeOK
    <3>3. inflight \in SUBSET Msg BY DEF CustodyTypeOK
    <3> HIDE DEF r, o
    <3>4. Pump(r, o, inflight) BY <2>4 DEF r, o
    <3>5. /\ row' \in [Msg -> CustodyStatus]
          /\ older' \subseteq Msg \X Msg
          /\ inflight' \subseteq Msg
          /\ downlink' \subseteq Msg
          /\ \A n \in Msg : row'[n] = r[n] \/ (r[n] = "pending" /\ n \in due /\ row'[n] = "expired")
          /\ \A n \in downlink' : n \in downlink \/ r[n] = "pending"
      BY <3>1, <3>2, <3>3, <3>4, PumpEffect
    <3>6. CustodyTypeOK' BY <2>1, <2>4, <3>5 DEF CustodyTypeOK, client
    <3>7. \A n \in Msg : Safe(n) /\ n # m => Safe(n)' BY <2>1, <3>1, <3>5
    <3>8. Safe(m)'
      <4>1. CASE row[m] = "none" BY <2>1, <3>1, <3>5, <4>1
      <4>2. CASE row[m] # "none"
        BY <2>1, <3>1, <3>5, <4>2 DEF CustodyTypeOK, CustodyStatus, Promises, ReceivedIsCommitted
      <4> QED BY <4>1, <4>2
    <3>9. NoLoss' BY <2>1, <3>7, <3>8 DEF NoLoss
    <3>10. ReceivedIsCommitted' /\ Promises'
      BY <2>1, <2>4, <3>1, <3>5, <3>7, <3>8 DEF CustodyTypeOK, ReceivedIsCommitted, Promises
    <3>11. \A n \in Msg : r[n] # "none" => Known(n) BY <2>1, <3>1 DEF Sent
    <3>12. Sent' BY <2>1, <3>5, <3>11 DEF Sent, CustodyTypeOK, client
    <3> QED BY <3>6, <3>9, <3>10, <3>12
  <2> QED BY <1>17, <2>2, <2>3, <2>4 DEF Admit
<1>18. ASSUME NEW m \in Msg, Acknowledge(m) PROVE CInv'
  <2> DEFINE r == AcknowledgedRow(m)
  <2>1. /\ m \in receipts /\ receipts' = receipts \ {m} /\ inbox[m] # "none"
        /\ UNCHANGED <<delivery, inbox, due, conn, gateway, senderFrames, client>>
    BY <1>18 DEF Acknowledge, Promises
  <2>2. /\ r \in [Msg -> CustodyStatus]
        /\ \A n \in Msg : n # m => r[n] = row[n]
        /\ r[m] = row[m] \/ (row[m] = "pending" /\ r[m] = IF m \in due THEN "expired" ELSE "received")
    BY DEF AcknowledgedRow, CustodyTypeOK, CustodyStatus
  <2> HIDE DEF r
  <2>3. CASE UNCHANGED <<row, older, downlink, inflight>>
    BY <2>1, <2>3 DEF senderFrames, client, CustodyTypeOK, NoLoss, ReceivedIsCommitted, Promises, Sent
  <2>4. CASE row' = r /\ UNCHANGED <<older, downlink, inflight>>
    BY <2>1, <2>2, <2>4 DEF senderFrames, client, CustodyTypeOK, NoLoss, ReceivedIsCommitted, Promises, Sent
  <2>5. CASE Pump(r, older, inflight \ {m})
    <3>1. older \in SUBSET (Msg \X Msg) /\ inflight \ {m} \in SUBSET Msg BY DEF CustodyTypeOK
    <3>2. /\ row' \in [Msg -> CustodyStatus]
          /\ older' \subseteq Msg \X Msg
          /\ inflight' \subseteq Msg
          /\ downlink' \subseteq Msg
          /\ \A n \in Msg : row'[n] = r[n] \/ (r[n] = "pending" /\ n \in due /\ row'[n] = "expired")
          /\ \A n \in downlink' : n \in downlink \/ r[n] = "pending"
      BY <2>2, <2>5, <3>1, PumpEffect
    <3> QED BY <2>1, <2>2, <3>2 DEF senderFrames, client, CustodyTypeOK, NoLoss, ReceivedIsCommitted, Promises, Sent
  <2> QED BY <1>18, <2>3, <2>4, <2>5 DEF Acknowledge, r
<1>19. ASSUME NEW m \in Msg, Arrive(m) PROVE CInv'
  <2>1. /\ m \in downlink /\ downlink' = downlink \ {m} /\ Known(m)
        /\ UNCHANGED <<stores, due, conn, gateway, senderFrames, receipts, inflight>>
    BY <1>19 DEF Arrive, Sent
  <2>2. /\ inbound' \in Seq(Msg)
        /\ verifying' \in Msg \union {None}
        /\ stale' \in BOOLEAN
        /\ \A i \in 1..Len(inbound') : Known(inbound'[i])
        /\ verifying' # None => Known(verifying')
    <3>1. CASE verifying = None
      BY <1>19, <2>1, <3>1 DEF Arrive, CustodyTypeOK, Sent
    <3>2. CASE verifying # None /\ inbound' = inbound
      BY <1>19, <3>2 DEF Arrive, CustodyTypeOK, Sent
    <3>3. CASE verifying # None /\ inbound' = Append(inbound, m)
      <4>1. inbound' \in Seq(Msg) /\ Len(inbound') = Len(inbound) + 1 BY <3>3 DEF CustodyTypeOK
      <4>2. \A i \in 1..Len(inbound') : inbound'[i] = IF i = Len(inbound) + 1 THEN m ELSE inbound[i]
        BY <3>3, <4>1 DEF CustodyTypeOK
      <4>3. Len(inbound) \in Nat BY DEF CustodyTypeOK
      <4>4. \A i \in 1..Len(inbound') : Known(inbound'[i]) BY <2>1, <4>1, <4>2, <4>3 DEF Sent
      <4> QED BY <1>19, <3>3, <4>1, <4>4 DEF Arrive, CustodyTypeOK, Sent
    <3> QED BY <1>19, <3>1, <3>2, <3>3 DEF Arrive
  <2>3. CustodyTypeOK' BY <2>1, <2>2 DEF CustodyTypeOK, stores, senderFrames
  <2>4. NoLoss' /\ ReceivedIsCommitted' /\ Promises'
    BY <2>1 DEF NoLoss, ReceivedIsCommitted, Promises, stores, senderFrames
  <2>5. Sent' BY <2>1, <2>2 DEF Sent, stores, senderFrames
  <2> QED BY <2>3, <2>4, <2>5
<1>20. ASSUME NEW m \in Msg, Consume(m) PROVE CInv'
  BY <1>20 DEF Consume, senderFrames, receiverLink, client, CustodyTypeOK, NoLoss,
     ReceivedIsCommitted, Promises, Sent, InboxDecision
<1>21. ASSUME NEW m \in Msg, PassExp(m) PROVE CInv'
  BY <1>21 DEF PassExp, stores, senderFrames, receiverLink, client, CustodyTypeOK, NoLoss,
     ReceivedIsCommitted, Promises, Sent
<1> QED
  BY <1>u, <1>1, <1>2, <1>3, <1>4, <1>5, <1>6, <1>7, <1>8, <1>9, <1>10, <1>11, <1>12, <1>13, <1>14,
     <1>15, <1>16, <1>17, <1>18, <1>19, <1>20, <1>21 DEF CustodyNext

(* CInv holds in every reachable state.                                    *)
THEOREM CustodyInvariant == CustodySpec => []CInv
<1>1. CInv /\ [CustodyNext]_custodyVars => CInv' BY NextInv
<1> QED BY InitCInv, <1>1, PTL DEF CustodySpec

(* Types of the transport's tables, connections and queues.                *)
THEOREM CustodyTypes == CustodySpec => []CustodyTypeOK
<1>1. CInv => CustodyTypeOK BY DEF CInv
<1> QED BY <1>1, CustodyInvariant, PTL

(* For any number of envelopes and any window: what stored() has made the  *)
(* sender let go of is in custody, in the receiver's inbox, or too late.   *)
THEOREM NothingLost == CustodySpec => [](NoLoss /\ ReceivedIsCommitted)
<1>1. CInv => NoLoss /\ ReceivedIsCommitted BY DEF CInv
<1> QED BY <1>1, CustodyInvariant, PTL

--------------------------------------------------------------------------------
(* The refinement of Mailbox.  Seen from there a step changes one envelope *)
(* by hand, or gives up late ones, or changes nothing.                     *)

LEMMA BoxFun == Box = [m \in Msg |-> Box[m]] /\ Box' = [m \in Msg |-> Box'[m]]
BY DEF Box

LEMMA BoxExt ==
  ASSUME \A m \in Msg : Box'[m] = Box[m]
  PROVE  Box' = Box
BY BoxFun

(* Rows that a sweep expires: nothing else may change.                     *)
LEMMA ExpireStep ==
  ASSUME CInv, UNCHANGED <<delivery, inbox, due>>,
         NEW r, \A m \in Msg : /\ row'[m] = r[m] \/ (r[m] = "pending" /\ m \in due /\ row'[m] = "expired")
                               /\ inbox[m] = "none" /\ delivery[m] # "pending" => r[m] = row[m]
  PROVE  M!Expire
<1> DEFINE S == {m \in Msg : Box[m] = "held" /\ Box'[m] # "held"}
<1>1. \A m \in Msg : Box'[m] = Box[m] \/ (Box[m] = "held" /\ Box'[m] = "expired" /\ m \in due)
  <2> TAKE m \in Msg
  <2>1. CASE inbox[m] # "none" BY <2>1 DEF Box
  <2>2. CASE inbox[m] = "none" /\ delivery[m] = "pending" BY <2>2 DEF Box
  <2>3. CASE inbox[m] = "none" /\ delivery[m] # "pending"
    BY <2>3 DEF Box, CInv, Sent, Known
  <2> QED BY <2>1, <2>2, <2>3
<1>2. S \in SUBSET {m \in Msg : Box[m] = "held" /\ m \in due} BY <1>1
<1>3. \A m \in Msg : Box'[m] = IF m \in S THEN "expired" ELSE Box[m] BY <1>1
<1>4. Box' = [m \in Msg |-> IF m \in S THEN "expired" ELSE Box[m]] BY <1>3, BoxFun
<1> HIDE DEF S
<1> QED BY <1>2, <1>4 DEF M!Expire

(* Steps that leave both ends as they are.                                 *)
LEMMA SameBox ==
  ASSUME UNCHANGED <<delivery, row, inbox, due>>
  PROVE  UNCHANGED M!boxVars
BY DEF Box, M!boxVars

LEMMA StepRefines ==
  ASSUME CInv, [CustodyNext]_custodyVars
  PROVE  [M!Next]_(M!boxVars)
<1>1. CASE \/ Flush \/ Discard \/ VerifyTimeout \/ OpenSender \/ DropSender \/ DropReceiver
           \/ RestartReceiver \/ GatewayFails \/ RestartGateway \/ UNCHANGED custodyVars
           \/ \E m \in Msg : Arrive(m)
  <2>1. UNCHANGED <<delivery, row, inbox, due>>
    BY <1>1 DEF Flush, Discard, VerifyTimeout, OpenSender, DropSender, DropReceiver, RestartReceiver,
       GatewayFails, RestartGateway, custodyVars, Arrive, stores
  <2> QED BY <2>1, SameBox
<1>2. CASE NodePrune
  <2>1. /\ UNCHANGED <<row, inbox, due>>
        /\ \A m \in Msg : delivery'[m] = delivery[m] \/ (delivery[m] = "stored" /\ delivery'[m] = "pruned")
    BY <1>2 DEF NodePrune
  <2>2. \A m \in Msg : Box'[m] = Box[m] BY <2>1 DEF Box
  <2> QED BY <2>1, <2>2, BoxExt DEF M!boxVars
<1>3. CASE CustodyPrune
  <2>1. /\ UNCHANGED <<delivery, inbox, due>>
        /\ \A m \in Msg : row'[m] = row[m] \/ (row[m] # "pending" /\ row'[m] = "none")
    BY <1>3 DEF CustodyPrune
  <2>2. \A m \in Msg : Box'[m] = Box[m] BY <2>1 DEF Box
  <2> QED BY <2>1, <2>2, BoxExt DEF M!boxVars
<1>4. CASE Sweep
  <2>1. UNCHANGED <<delivery, inbox, due>> /\ Pump(row, older, inflight) BY <1>4 DEF Sweep
  <2>2. \A m \in Msg : row'[m] = row[m] \/ (row[m] = "pending" /\ m \in due /\ row'[m] = "expired")
    BY <2>1, PumpEffect DEF CInv, CustodyTypeOK
  <2>3. M!Expire BY <2>1, <2>2, ExpireStep
  <2> QED BY <2>3 DEF M!Next
<1>5. CASE OpenReceiver
  <2>1. UNCHANGED <<delivery, inbox, due>> /\ row' = Expired(row) BY <1>5 DEF OpenReceiver
  <2>2. \A m \in Msg : row'[m] = row[m] \/ (row[m] = "pending" /\ m \in due /\ row'[m] = "expired")
    BY <2>1, ExpiredType DEF CInv, CustodyTypeOK
  <2>3. M!Expire BY <2>1, <2>2, ExpireStep
  <2> QED BY <2>3 DEF M!Next
<1>6. CASE Receive
  <2>1. /\ verifying \in Msg /\ delivery[verifying] # "none"
        /\ UNCHANGED <<delivery, row, due>> /\ inbox' = Received(verifying)
    BY <1>6 DEF Receive, CInv, CustodyTypeOK, Sent, Known
  <2>2. CASE inbox[verifying] = "none"
    <3>1. /\ \A m \in Msg : m # verifying => inbox'[m] = inbox[m]
          /\ inbox'[verifying] = "pending"
      BY <2>1, <2>2 DEF Received, CInv, CustodyTypeOK
    <3>2. /\ \A m \in Msg : m # verifying => Box'[m] = Box[m]
          /\ Box'[verifying] = "delivered"
          /\ Box[verifying] \in {"held", "expired"}
      BY <2>1, <2>2, <3>1 DEF Box
    <3>3. Box' = [Box EXCEPT ![verifying] = "delivered"] BY <2>1, <3>2, BoxFun
    <3>4. M!Deliver(verifying) BY <2>1, <3>2, <3>3 DEF M!Deliver
    <3> QED BY <2>1, <3>4 DEF M!Next
  <2>3. CASE inbox[verifying] # "none"
    <3>1. inbox' = inbox BY <2>1, <2>3 DEF Received, CInv, CustodyTypeOK
    <3> QED BY <2>1, <3>1, SameBox
  <2> QED BY <2>2, <2>3
<1>7. ASSUME NEW m \in Msg, Send(m) PROVE [M!Next]_(M!boxVars)
  <2>1. UNCHANGED <<row, inbox, due>> /\ delivery' = Saved(m) BY <1>7 DEF Send
  <2>2. \A n \in Msg : n # m => Box'[n] = Box[n]
    BY <2>1 DEF Saved, Box, CInv, CustodyTypeOK
  <2>3. Box'[m] = Box[m] \/ (Box[m] \in {"absent", "expired"} /\ Box'[m] = "held")
    BY <2>1 DEF Saved, Box, CInv, CustodyTypeOK
  <2>4. CASE Box'[m] = Box[m] BY <2>1, <2>2, <2>4, BoxExt DEF M!boxVars
  <2>5. CASE Box[m] \in {"absent", "expired"} /\ Box'[m] = "held"
    <3>1. Box' = [Box EXCEPT ![m] = "held"] BY <2>2, <2>5, BoxFun
    <3>2. M!Accept(m) BY <2>1, <2>5, <3>1 DEF M!Accept
    <3> QED BY <3>2 DEF M!Next
  <2> QED BY <2>3, <2>4, <2>5
<1>8. ASSUME NEW m \in Msg, Stored(m) PROVE [M!Next]_(M!boxVars)
  <2>1. UNCHANGED <<row, inbox, due>> /\ delivery' = StoredRow(m) /\ Safe(m)
    BY <1>8 DEF Stored, CInv, Promises
  <2>2. /\ \A n \in Msg : n # m => delivery'[n] = delivery[n]
        /\ delivery'[m] = delivery[m] \/ (delivery[m] = "pending" /\ delivery'[m] = "stored")
    BY <2>1 DEF StoredRow, CInv, CustodyTypeOK
  <2>3. \A n \in Msg : n # m => Box'[n] = Box[n] BY <2>1, <2>2 DEF Box
  <2>4. Box'[m] = Box[m] \/ (Box[m] = "held" /\ Box'[m] = "expired" /\ m \in due)
    BY <2>1, <2>2 DEF Box, Safe
  <2>5. M!Expire
    <3> DEFINE S == {n \in {m} : Box'[m] # Box[m]}
    <3>1. S \in SUBSET {n \in Msg : Box[n] = "held" /\ n \in due} BY <2>4
    <3>2. Box' = [n \in Msg |-> IF n \in S THEN "expired" ELSE Box[n]] BY <2>3, <2>4, BoxFun
    <3> HIDE DEF S
    <3> QED BY <2>1, <3>1, <3>2 DEF M!Expire
  <2> QED BY <2>5 DEF M!Next
<1>9. ASSUME NEW m \in Msg, Admit(m) PROVE [M!Next]_(M!boxVars)
  <2>1. UNCHANGED <<delivery, inbox, due>> /\ delivery[m] # "none"
    BY <1>9 DEF Admit, CInv, Sent, Known
  <2>2. CASE UNCHANGED row BY <2>1, <2>2, SameBox
  <2>3. CASE row' = Expired(row)
    <3>1. \A n \in Msg : row'[n] = row[n] \/ (row[n] = "pending" /\ n \in due /\ row'[n] = "expired")
      BY <2>3, ExpiredType DEF CInv, CustodyTypeOK
    <3>2. M!Expire BY <2>1, <3>1, ExpireStep
    <3> QED BY <3>2 DEF M!Next
  <2>4. ASSUME "stored" \in OfferAnswers(m),
               Pump(Offered(m, "stored"), IF row[m] = "none" THEN Inserted(m) ELSE older, inflight)
        PROVE  M!Expire
    <3> DEFINE r == Offered(m, "stored")
               o == IF row[m] = "none" THEN Inserted(m) ELSE older
    <3>1. /\ r \in [Msg -> CustodyStatus]
          /\ row[m] # "none" => r = row
          /\ row[m] = "none" => r[m] = "pending" /\ m \notin due
          /\ \A n \in Msg \ {m} : r[n] = row[n] \/ (row[n] = "pending" /\ n \in due /\ r[n] = "expired")
      BY <2>4, ExpiredType DEF Offered, OfferAnswers, CInv, CustodyTypeOK, CustodyStatus
    <3>2. o \in SUBSET (Msg \X Msg) /\ inflight \in SUBSET Msg BY DEF Inserted, CInv, CustodyTypeOK
    <3> HIDE DEF r, o
    <3>3. \A n \in Msg : row'[n] = r[n] \/ (r[n] = "pending" /\ n \in due /\ row'[n] = "expired")
      BY <2>4, <3>1, <3>2, PumpEffect DEF CInv, r, o
    <3> DEFINE q == [n \in Msg |-> IF n = m THEN r[n] ELSE row[n]]
    <3>4. \A n \in Msg : row'[n] = q[n] \/ (q[n] = "pending" /\ n \in due /\ row'[n] = "expired")
      BY <3>1, <3>3
    <3>5. \A n \in Msg : inbox[n] = "none" /\ delivery[n] # "pending" => q[n] = row[n]
      <4>1. inbox[m] = "none" /\ delivery[m] # "pending" => row[m] # "none"
        BY <2>1, <3>1 DEF CInv, NoLoss, CustodyTypeOK, DeliveryStatus
      <4> QED BY <3>1, <4>1
    <3> HIDE DEF q
    <3> QED BY <2>1, <3>4, <3>5, ExpireStep
  <2>5. \A answer \in OfferAnswers(m) \ {"stored"} : Offered(m, answer) = row \/ Offered(m, answer) = Expired(row)
    BY DEF Offered, OfferAnswers
  <2> QED BY <1>9, <2>2, <2>3, <2>4, <2>5 DEF Admit, M!Next
<1>10. ASSUME NEW m \in Msg, Acknowledge(m) PROVE [M!Next]_(M!boxVars)
  <2> DEFINE r == AcknowledgedRow(m)
  <2>1. UNCHANGED <<delivery, inbox, due>> /\ inbox[m] # "none"
    BY <1>10 DEF Acknowledge, CInv, Promises
  <2>2. r \in [Msg -> CustodyStatus] /\ \A n \in Msg : inbox[n] = "none" => r[n] = row[n]
    BY <2>1 DEF AcknowledgedRow, CInv, CustodyTypeOK, CustodyStatus
  <2> HIDE DEF r
  <2>3. CASE UNCHANGED row BY <2>1, <2>3, SameBox
  <2>4. CASE row' = r
    <3>1. M!Expire BY <2>1, <2>2, <2>4, ExpireStep
    <3> QED BY <3>1 DEF M!Next
  <2>5. CASE Pump(r, older, inflight \ {m})
    <3>1. older \in SUBSET (Msg \X Msg) /\ inflight \ {m} \in SUBSET Msg BY DEF CInv, CustodyTypeOK
    <3>2. \A n \in Msg : row'[n] = r[n] \/ (r[n] = "pending" /\ n \in due /\ row'[n] = "expired")
      BY <2>2, <2>5, <3>1, PumpEffect DEF CInv
    <3>3. M!Expire BY <2>1, <2>2, <3>2, ExpireStep
    <3> QED BY <3>3 DEF M!Next
  <2> QED BY <1>10, <2>3, <2>4, <2>5 DEF Acknowledge, r
<1>11. ASSUME NEW m \in Msg, Consume(m) PROVE [M!Next]_(M!boxVars)
  <2>1. UNCHANGED <<delivery, row, due>> /\ inbox[m] = "pending" /\ inbox' = [inbox EXCEPT ![m] = "decided"]
    BY <1>11 DEF Consume
  <2>2. /\ \A n \in Msg : n # m => Box'[n] = Box[n]
        /\ Box[m] = "delivered" /\ Box'[m] = "decided"
    BY <2>1 DEF Box, CInv, CustodyTypeOK
  <2>3. Box' = [Box EXCEPT ![m] = "decided"] BY <2>2, BoxFun
  <2>4. M!Decide(m) BY <2>1, <2>2, <2>3 DEF M!Decide
  <2> QED BY <2>4 DEF M!Next
<1>12. ASSUME NEW m \in Msg, PassExp(m) PROVE [M!Next]_(M!boxVars)
  <2>1. UNCHANGED <<delivery, row, inbox>> /\ m \notin due /\ due' = due \union {m}
    BY <1>12 DEF PassExp, stores
  <2>2. Box' = Box BY <2>1 DEF Box
  <2>3. M!Pass(m) BY <2>1, <2>2 DEF M!Pass
  <2> QED BY <2>3 DEF M!Next
<1> QED
  BY <1>1, <1>2, <1>3, <1>4, <1>5, <1>6, <1>7, <1>8, <1>9, <1>10, <1>11, <1>12 DEF CustodyNext

(* The transport implements Mailbox, for any number of envelopes and any   *)
(* window: nothing accepted disappears before its exp, nothing is decided  *)
(* twice.                                                                  *)
THEOREM CustodyRefines == CustodySpec => ImplementsMailbox
<1>1. CustodyInit => M!Init
  <2> SUFFICES ASSUME CustodyInit PROVE M!Init OBVIOUS
  <2>1. \A m \in Msg : Box[m] = "absent" BY DEF CustodyInit, Box
  <2>2. Box = [m \in Msg |-> "absent"] BY <2>1 DEF Box
  <2> QED BY <2>2 DEF M!Init, CustodyInit
<1>2. CInv /\ [CustodyNext]_custodyVars => [M!Next]_(M!boxVars) BY StepRefines
<1> QED BY <1>1, <1>2, CustodyInvariant, PTL DEF CustodySpec, ImplementsMailbox, M!Spec
================================================================================

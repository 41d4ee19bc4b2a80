-------------------------------- MODULE Custody --------------------------------
(***************************************************************************)
(* The durable path of an envelope: the sender's outbox                    *)
(* (runtime/store.ts), the gateway client at both ends (gateway-client.ts),*)
(* the gateway's custody table (custody-store.ts) and the part of the      *)
(* gateway that moves envelopes (ws.ts), and the receiver's inbox.         *)
(*                                                                         *)
(* One sender, one receiver, the envelopes Msg from the one to the other.  *)
(* The databases survive everything; connections, frames, windows and      *)
(* queues of verification do not.  A frame is lost with its connection     *)
(* only, may overtake another one, and is handled once; every retry sends  *)
(* a new one.  Abstracted: sizes and byte budgets (every store may answer  *)
(* "full" at any time, because other senders share it), the pacing of      *)
(* retries (which of the eligible entries a flush or a sweep sends again   *)
(* is a choice), and tickets: a receipt counts if its envelope is in       *)
(* flight on the current connection.  All clocks agree.                    *)
(***************************************************************************)
EXTENDS Naturals, Sequences, FiniteSets

CONSTANTS
  Msg,      \* the envelopes; each has one msg_id and one digest
  Window,   \* envelopes in flight per connection (16 in the code)
  None      \* no envelope

ASSUME WindowAssumption == Window \in Nat \ {0}

VARIABLES
  delivery,   \* node_delivery at the sender; "pruned" is a row that is gone again
  row,        \* gateway_custody: status of the row of each envelope
  older,      \* pairs of envelopes whose custody rows have ascending rowids
  inbox,      \* node_inbox at the receiver
  due,        \* envelopes whose exp has passed
  conn,       \* each client: idle, authed, or stopped for good
  gateway,    \* up, or unavailable after failClosed
  uplink,     \* envelope frames on their way to the gateway
  acks,       \* stored frames on their way to the sender
  downlink,   \* delivery frames on their way to the receiver
  receipts,   \* receipt frames on their way to the gateway
  inflight,   \* ConnState.inflight of the receiver's connection
  inbound,    \* the receiver's queue for verification
  verifying,  \* the envelope that is being verified
  stale       \* it arrived on a connection that has closed since

stores == <<delivery, row, older, inbox>>
senderFrames == <<uplink, acks>>
receiverLink == <<downlink, receipts, inflight>>
client == <<inbound, verifying, stale>>
custodyVars == <<stores, due, conn, gateway, senderFrames, receiverLink, client>>

Ends == {"sender", "receiver"}

\* The statuses each table may hold; a row with any other is refused as corrupt.
DeliveryStatus == {"none", "pending", "stored", "pruned"}
CustodyStatus == {"none", "pending", "received", "expired"}
InboxDecision == {"none", "pending", "decided"}

CustodyInit ==
  /\ delivery = [m \in Msg |-> "none"]
  /\ row = [m \in Msg |-> "none"]
  /\ older = {}
  /\ inbox = [m \in Msg |-> "none"]
  /\ due = {}
  /\ conn = [e \in Ends |-> "idle"]
  /\ gateway = "up"
  /\ uplink = {} /\ acks = {} /\ downlink = {} /\ receipts = {}
  /\ inflight = {}
  /\ inbound = <<>>
  /\ verifying = None
  /\ stale = FALSE

--------------------------------------------------------------------------------
(* The sender. *)

\* What flush() may send when the outbox is d: pending, not expired, connected.
Eligible(d) ==
  IF conn["sender"] = "authed" THEN {m \in Msg : d[m] = "pending" /\ m \notin due} ELSE {}

\* flush(): save() of the attempt changes pacing data only, then the frame is sent.
Flush ==
  /\ \E again \in SUBSET Eligible(delivery) :
       /\ again # {}
       /\ uplink' = uplink \union again
  /\ UNCHANGED <<stores, due, conn, gateway, acks, receiverLink, client>>

\* save(), directly or as the outbox of a transition.  A pending or stored row
\* is left as it is: retained identity forbids resurrection.
Saved(m) == [delivery EXCEPT ![m] = IF @ \in {"none", "pruned"} THEN "pending" ELSE @]

\* send(): save, then flush.
Send(m) ==
  /\ delivery' = Saved(m)
  /\ \E again \in SUBSET Eligible(delivery') : uplink' = uplink \union again
  /\ UNCHANGED <<row, older, inbox, due, conn, gateway, acks, receiverLink, client>>

\* stored(): pending becomes stored; without a row the frame is ignored.
StoredRow(m) == [delivery EXCEPT ![m] = IF @ = "pending" THEN "stored" ELSE @]

\* A stored frame reaches the sender.
Stored(m) ==
  /\ m \in acks
  /\ acks' = acks \ {m}
  /\ delivery' = StoredRow(m)
  /\ UNCHANGED <<row, older, inbox, due, conn, gateway, uplink, receiverLink, client>>

\* Retention at the sender: tombstones only.
NodePrune ==
  /\ \E S \in (SUBSET {m \in Msg : delivery[m] = "stored"}) \ {{}} :
       delivery' = [m \in Msg |-> IF m \in S THEN "pruned" ELSE delivery[m]]
  /\ UNCHANGED <<row, older, inbox, due, conn, gateway, senderFrames, receiverLink, client>>

--------------------------------------------------------------------------------
(* The gateway. *)

\* expire(): every pending row whose time has come.
Expired(r) == [m \in Msg |-> IF r[m] = "pending" /\ m \in due THEN "expired" ELSE r[m]]

\* pending(): the oldest rows that are still pending.
Pending(r, o) ==
  {m \in Msg : r[m] = "pending" /\
     Cardinality({n \in Msg : r[n] = "pending" /\ <<n, m>> \in o}) < Window}

\* The rowids after the row of m was inserted.
Inserted(m) == older \union {<<n, m>> : n \in {k \in Msg : row[k] # "none"}}

\* pumpCustody() on the receiver's connection, over the table r in the order o:
\* tickets of rows that are no longer pending go, new ones are issued and
\* sent, and those that have waited long enough are sent again.
Pump(r, o, flying) ==
  IF conn["receiver"] # "authed"
  THEN row' = r /\ older' = o /\ inflight' = flying /\ UNCHANGED downlink
  ELSE LET live == Expired(r)
           now == Pending(live, o)
       IN /\ row' = live
          /\ older' = o
          /\ inflight' = now
          /\ \E again \in SUBSET (now \intersect flying) :
               downlink' = downlink \union (now \ flying) \union again

\* offer(): what it may answer.  A known identity is stored whatever became of
\* it; other senders' rows decide whether there is room for a new one.
OfferAnswers(m) ==
  IF row[m] # "none" THEN {"stored"}
  ELSE IF m \in due THEN {"expired"} ELSE {"stored", "full"}

\* The custody table after a new identity was offered; expire() runs before the
\* quotas are looked at.
Offered(m, answer) ==
  IF row[m] # "none" \/ answer = "expired" THEN row
  ELSE IF answer = "full" THEN Expired(row)
  ELSE [Expired(row) EXCEPT ![m] = "pending"]

\* Fault: the stored frame is sent before the answer of offer() is known.
AdmitEarly(m) ==
  /\ m \in uplink
  /\ uplink' = uplink \ {m}
  /\ \E answer \in OfferAnswers(m) :
       /\ acks' = acks \union {m}
       /\ row' = Offered(m, answer)
       /\ older' = IF answer = "stored" /\ row[m] = "none" THEN Inserted(m) ELSE older
  /\ UNCHANGED <<delivery, inbox, due, conn, gateway, receiverLink, client>>

\* admitCustody(): the ACL, offer(), then the stored frame, then the target's
\* pump.  A refusal is a nack, which only delays the next retry.
Admit(m) ==
  /\ m \in uplink
  /\ uplink' = uplink \ {m}
  /\ \/ UNCHANGED <<row, older, acks, downlink, inflight>>
     \/ \E answer \in OfferAnswers(m) \ {"stored"} :
          /\ row' = Offered(m, answer)
          /\ UNCHANGED <<older, acks, downlink, inflight>>
     \/ /\ "stored" \in OfferAnswers(m)
        /\ acks' = acks \union {m}
        /\ Pump(Offered(m, "stored"), IF row[m] = "none" THEN Inserted(m) ELSE older, inflight)
  /\ UNCHANGED <<delivery, inbox, due, conn, gateway, receipts, client>>

\* acknowledge(): the row after a receipt.
AcknowledgedRow(m) ==
  [row EXCEPT ![m] = IF @ # "pending" THEN @ ELSE IF m \in due THEN "expired" ELSE "received"]

\* receiveReceipt(): only a receipt that the table accepts frees the window.
Acknowledge(m) ==
  /\ m \in receipts
  /\ receipts' = receipts \ {m}
  /\ IF m \notin inflight
     THEN UNCHANGED <<row, older, downlink, inflight>>
     ELSE IF AcknowledgedRow(m)[m] = "received"
     THEN Pump(AcknowledgedRow(m), older, inflight \ {m})
     ELSE row' = AcknowledgedRow(m) /\ UNCHANGED <<older, downlink, inflight>>
  /\ UNCHANGED <<delivery, inbox, due, conn, gateway, senderFrames, client>>

\* The retry timer.
Sweep ==
  /\ conn["receiver"] = "authed"
  /\ Pump(row, older, inflight)
  /\ UNCHANGED <<delivery, inbox, due, conn, gateway, senderFrames, receipts, client>>

\* prune(): terminal rows up to an age, counted from admission.
CustodyPrune ==
  /\ \E newest \in Msg :
       LET gone == {m \in Msg : /\ row[m] \in {"received", "expired"}
                                /\ m = newest \/ <<m, newest>> \in older}
       IN /\ gone # {}
          /\ row' = [m \in Msg |-> IF m \in gone THEN "none" ELSE row[m]]
          /\ older' = {p \in older : p[1] \notin gone /\ p[2] \notin gone}
  /\ UNCHANGED <<delivery, inbox, due, conn, gateway, senderFrames, receiverLink, client>>

--------------------------------------------------------------------------------
(* The receiver. *)

\* admitInbound(): one envelope is verified at a time, Window at most wait.
Arrive(m) ==
  /\ m \in downlink
  /\ downlink' = downlink \ {m}
  /\ IF verifying = None
     THEN /\ verifying' = m
          /\ stale' = FALSE
          /\ UNCHANGED inbound
     ELSE /\ inbound' = IF Len(inbound) + 1 >= Window THEN inbound ELSE Append(inbound, m)
          /\ UNCHANGED <<verifying, stale>>
  /\ UNCHANGED <<stores, due, conn, gateway, senderFrames, receipts, inflight>>

\* Fault: the flag "verifying" is not cleared when the connection is gone.
NextUnlessStale ==
  /\ ~stale
  /\ UNCHANGED stale
  /\ IF inbound = <<>>
     THEN verifying' = None /\ UNCHANGED inbound
     ELSE verifying' = Head(inbound) /\ inbound' = Tail(inbound)

\* drainInbound() takes the next queued envelope; the queue is emptied when a
\* connection closes, so what is in it is live.
NextInbound ==
  /\ stale' = FALSE
  /\ IF inbound = <<>>
     THEN verifying' = None /\ UNCHANGED inbound
     ELSE verifying' = Head(inbound) /\ inbound' = Tail(inbound)

\* Fault: a known envelope is inserted again.
ReceivedAgain(m) == [inbox EXCEPT ![m] = "pending"]

\* receive(): a new envelope becomes a pending row, a known one changes nothing.
Received(m) == [inbox EXCEPT ![m] = IF @ = "none" THEN "pending" ELSE @]

\* Verification succeeded on a live connection: receive() commits, then the
\* receipt is sent, for a new and for a known envelope.
Receive ==
  /\ verifying # None /\ ~stale
  /\ inbox' = Received(verifying)
  /\ receipts' = receipts \union {verifying}
  /\ NextInbound
  /\ UNCHANGED <<delivery, row, older, due, conn, gateway, senderFrames, downlink, inflight>>

\* Verification failed, or the connection is gone, or the inbox is full: no
\* commit, no receipt.
Discard ==
  /\ verifying # None
  /\ NextInbound
  /\ UNCHANGED <<stores, due, conn, gateway, senderFrames, receiverLink>>

CloseReceiver(how) ==
  /\ conn' = [conn EXCEPT !["receiver"] = how]
  /\ downlink' = {} /\ receipts' = {} /\ inflight' = {}
  /\ inbound' = <<>>

\* The verifier did not answer in time, or the store threw: the client stops
\* for good, until the node is restarted.
VerifyTimeout ==
  /\ verifying # None
  /\ conn["receiver"] # "stopped"
  /\ CloseReceiver("stopped")
  /\ verifying' = None /\ stale' = FALSE
  /\ UNCHANGED <<stores, due, gateway, senderFrames>>

\* consume(): the pending envelope gets its decision, once.
Consume(m) ==
  /\ inbox[m] = "pending"
  /\ inbox' = [inbox EXCEPT ![m] = "decided"]
  /\ UNCHANGED <<delivery, row, older, due, conn, gateway, senderFrames, receiverLink, client>>

--------------------------------------------------------------------------------
(* Connections, crashes and time. *)

\* auth_ok at the sender, which flushes its outbox.
OpenSender ==
  /\ conn["sender"] = "idle" /\ gateway = "up"
  /\ conn' = [conn EXCEPT !["sender"] = "authed"]
  /\ \E again \in SUBSET {m \in Msg : delivery[m] = "pending" /\ m \notin due} :
       uplink' = again
  /\ UNCHANGED <<stores, due, gateway, acks, receiverLink, client>>

\* auth_ok at the receiver; the gateway pumps right behind it.
OpenReceiver ==
  /\ conn["receiver"] = "idle" /\ gateway = "up"
  /\ conn' = [conn EXCEPT !["receiver"] = "authed"]
  /\ LET now == Pending(Expired(row), older)
     IN /\ row' = Expired(row)
        /\ inflight' = now
        /\ downlink' = now
  /\ UNCHANGED <<delivery, older, inbox, due, gateway, senderFrames, receipts, client>>

\* A connection breaks, or the sender crashes: a process that comes up again
\* and a client that reconnects know the same.
DropSender ==
  /\ conn["sender"] = "authed"
  /\ conn' = [conn EXCEPT !["sender"] = "idle"]
  /\ uplink' = {} /\ acks' = {}
  /\ UNCHANGED <<stores, due, gateway, receiverLink, client>>

\* The verification under way outlives the connection.
DropReceiver ==
  /\ conn["receiver"] = "authed"
  /\ CloseReceiver("idle")
  /\ stale' = (verifying # None)
  /\ UNCHANGED <<stores, due, gateway, senderFrames, verifying>>

RestartReceiver ==
  /\ CloseReceiver("idle")
  /\ verifying' = None /\ stale' = FALSE
  /\ UNCHANGED <<stores, due, gateway, senderFrames>>

\* failClosed() or a crash of the gateway: every connection goes.
GatewayFails ==
  /\ gateway = "up"
  /\ gateway' = "unavailable"
  /\ conn' = [e \in Ends |-> IF conn[e] = "authed" THEN "idle" ELSE conn[e]]
  /\ uplink' = {} /\ acks' = {}
  /\ downlink' = {} /\ receipts' = {} /\ inflight' = {}
  /\ inbound' = <<>>
  /\ stale' = (verifying # None)
  /\ UNCHANGED <<stores, due, verifying>>

RestartGateway ==
  /\ gateway = "unavailable"
  /\ gateway' = "up"
  /\ UNCHANGED <<stores, due, conn, senderFrames, receiverLink, client>>

\* exp passes.
PassExp(m) ==
  /\ m \notin due
  /\ due' = due \union {m}
  /\ UNCHANGED <<stores, conn, gateway, senderFrames, receiverLink, client>>

CustodyNext ==
  \/ Flush \/ NodePrune \/ Sweep \/ CustodyPrune
  \/ Receive \/ Discard \/ VerifyTimeout
  \/ OpenSender \/ OpenReceiver \/ DropSender \/ DropReceiver \/ RestartReceiver
  \/ GatewayFails \/ RestartGateway
  \/ \E m \in Msg : \/ Send(m) \/ Stored(m) \/ Admit(m) \/ Acknowledge(m)
                    \/ Arrive(m) \/ Consume(m) \/ PassExp(m)

CustodySpec == CustodyInit /\ [][CustodyNext]_custodyVars

\* Clients reconnect, the retry timers run, and whoever runs a gateway or a node
\* that has stopped restarts it.  Connections may break again and again, so
\* what travels needs strong fairness: an envelope that can be sent, admitted,
\* delivered or verified again and again is, in the end.
CustodyFairness ==
  /\ SF_custodyVars(OpenSender) /\ SF_custodyVars(OpenReceiver)
  /\ WF_custodyVars(RestartGateway)
  /\ WF_custodyVars(RestartReceiver /\ conn["receiver"] = "stopped")
  /\ \A m \in Msg :
       /\ SF_custodyVars(Flush /\ m \in uplink')
       /\ SF_custodyVars(Admit(m) /\ m \in acks')
       /\ SF_custodyVars(Sweep /\ m \in downlink')
       /\ SF_custodyVars(Arrive(m) /\ verifying' = m)
       /\ SF_custodyVars(Receive /\ verifying = m)
       /\ SF_custodyVars(Acknowledge(m))
  /\ WF_custodyVars(Receive \/ Discard)

CustodyFairSpec == CustodySpec /\ CustodyFairness

--------------------------------------------------------------------------------
\* Every variable keeps its type.
CustodyTypeOK ==
  /\ delivery \in [Msg -> DeliveryStatus]
  /\ row \in [Msg -> CustodyStatus]
  /\ older \subseteq Msg \X Msg
  /\ inbox \in [Msg -> InboxDecision]
  /\ due \subseteq Msg
  /\ conn \in [Ends -> {"idle", "authed", "stopped"}]
  /\ gateway \in {"up", "unavailable"}
  /\ uplink \subseteq Msg /\ acks \subseteq Msg
  /\ downlink \subseteq Msg /\ receipts \subseteq Msg /\ inflight \subseteq Msg
  /\ inbound \in Seq(Msg)
  /\ verifying \in Msg \union {None}
  /\ stale \in BOOLEAN

\* What the sender has let go of (its outbox row is deleted by stored()) is in
\* custody, or in the receiver's inbox, or past its exp.
NoLoss ==
  \A m \in Msg : delivery[m] \in {"stored", "pruned"} =>
    row[m] = "pending" \/ inbox[m] # "none" \/ m \in due

\* A payload that custody has dropped as received is committed at the receiver:
\* the receipt follows the commit of receive() on every path.
ReceivedIsCommitted ==
  \A m \in Msg : row[m] = "received" => inbox[m] # "none"

\* One envelope, seen from both ends.
Box ==
  [m \in Msg |->
     IF inbox[m] # "none" THEN (IF inbox[m] = "pending" THEN "delivered" ELSE "decided")
     ELSE IF delivery[m] = "pending" \/ row[m] = "pending" THEN "held"
     ELSE IF delivery[m] = "none" THEN "absent" ELSE "expired"]

M == INSTANCE Mailbox WITH box <- Box, late <- due

\* The transport as a whole implements Mailbox: nothing accepted disappears
\* before its exp, and nothing is decided twice.
ImplementsMailbox == M!Spec

\* What is sent arrives, however often connections break and processes stop,
\* unless its exp passes first.
ArrivesOrExpires ==
  \A m \in Msg : (delivery[m] = "pending") ~> (inbox[m] # "none" \/ m \in due)
================================================================================

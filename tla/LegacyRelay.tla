----------------------------- MODULE LegacyRelay -----------------------------
(***************************************************************************)
(* The transport without custody (v1): a sender's outbox, gateways with    *)
(* mailboxes of their own (gateway/mailbox.ts, core.ts), and the routing   *)
(* between gateway processes (cluster.ts, bus.ts, internalDeliver), which  *)
(* awaits the peers one after the other while the recipient comes and      *)
(* goes.  Every process is the only member of its cluster and its own home *)
(* shard, as cli/server.ts composes them.                                  *)
(*                                                                         *)
(* One sender and one recipient; a gateway's mailbox of that recipient is  *)
(* a sequence.  A frame is handled while its connection lasts: one that is *)
(* lost is sent again from the outbox.  Writing to a connection of the     *)
(* recipient ends the transport's part, whether or not the socket is       *)
(* still alive.  A mailbox file that is not configured is one to which     *)
(* every write fails.                                                      *)
(***************************************************************************)
EXTENDS Naturals, Sequences, FiniteSets

CONSTANTS
  Gateways,    \* gateway processes
  Single,      \* the one of a deployment without a cluster
  Peers,       \* clusterPeers of each process, in order
  NoGateway,   \* the sender is not connected
  Messages,    \* envelopes to the recipient
  Aid,         \* those of kind aid, which are not kept for offline nodes
  Capacity,    \* mailbox capacity
  MaxRoutes    \* bound: routes under way at a time

ASSUME RelayAssumption ==
  /\ Single \in Gateways /\ NoGateway \notin Gateways
  /\ Peers \in [Gateways -> Seq(Gateways)]
  /\ Aid \subseteq Messages
  /\ Capacity \in Nat \ {0} /\ MaxRoutes \in Nat

VARIABLES
  clustered,  \* clusterSecret is configured
  outbox,     \* the sender's outbox
  source,     \* the gateway the sender is connected to
  has,        \* the gateways that hold a connection of the recipient
  inbox,      \* per gateway: the recipient's mailbox
  file,       \* per gateway: the mailbox file
  routes,     \* routeAsync calls that await a peer
  expired,    \* messages past their exp
  sent,       \* history: messages given to send()
  ended       \* history: messages written to the recipient, refused, evicted,
              \* expired in a mailbox or lost with an unwritten mailbox file

relayVars == <<clustered, outbox, source, has, inbox, file, routes, expired, sent, ended>>
boxVars == <<inbox, file>>
nodeVars == <<clustered, source, has, expired, sent>>

Route == [msg : Messages, at : Gateways, next : Nat \ {0}, acks : BOOLEAN]

Used == IF clustered THEN Gateways ELSE {Single}

RelayInit ==
  /\ clustered \in BOOLEAN
  /\ outbox = {} /\ source = NoGateway /\ has = {}
  /\ inbox = [g \in Gateways |-> <<>>]
  /\ file = [g \in Gateways |-> <<>>]
  /\ routes = {} /\ expired = {} /\ sent = {} /\ ended = {}

-----------------------------------------------------------------------------
(* The mailbox.                                                            *)

In(box) == {box[i] : i \in 1..Len(box)}

Overflow(box) == IF Len(box) >= Capacity THEN {Head(box)} ELSE {}

(* offer: at capacity the oldest makes room.                               *)
Offered(box, m) == Append(IF Len(box) >= Capacity THEN Tail(box) ELSE box, m)

(* persist: written through, or the write fails and is swallowed.          *)
SetBox(g, box) ==
  /\ inbox' = [inbox EXCEPT ![g] = box]
  /\ file' \in {file, [file EXCEPT ![g] = box]}

(* queueInbox, InboxStore.offer.                                           *)
QueueInbox(g, m) ==
  /\ SetBox(g, Offered(inbox[g], m))
  /\ ended' = ended \cup Overflow(inbox[g])

Drain(g) == SetBox(g, <<>>)

(* takeInbox: everything is drained; what has expired is not delivered.    *)
TakeInbox(g, box) ==
  /\ Drain(g)
  /\ ended' = ended \cup In(box)

(* routeToNode, deliverTo.                                                 *)
Deliver(m) == ended' = ended \cup {m} /\ UNCHANGED boxVars

-----------------------------------------------------------------------------
(* The nodes.                                                              *)

Send(m) ==
  /\ m \notin sent
  /\ sent' = sent \cup {m} /\ outbox' = outbox \cup {m}
  /\ UNCHANGED <<clustered, source, has, boxVars, routes, expired, ended>>

Expire(m) ==
  /\ m \in sent \ expired /\ expired' = expired \cup {m}
  /\ UNCHANGED <<clustered, outbox, source, has, boxVars, routes, sent, ended>>

SenderConnects(g) ==
  /\ source = NoGateway /\ source' = g
  /\ UNCHANGED <<clustered, outbox, has, boxVars, routes, expired, sent, ended>>

(* The connection or the process ends; the outbox is a file.  The          *)
(* acknowledgements of routes still under way have nowhere to go.          *)
SenderLeaves ==
  /\ source # NoGateway /\ source' = NoGateway
  /\ routes' = {IF r.at = source THEN [r EXCEPT !.acks = FALSE] ELSE r : r \in routes}
  /\ UNCHANGED <<clustered, outbox, has, boxVars, expired, sent, ended>>

(* A3: the recipient is registered, answered and given its mailbox.        *)
RecipientConnects(g) ==
  /\ has' = has \cup {g}
  /\ TakeInbox(g, inbox[g])
  /\ UNCHANGED <<clustered, outbox, source, routes, expired, sent>>

RecipientLeaves(g) ==
  /\ g \in has /\ has' = has \ {g}
  /\ UNCHANGED <<clustered, outbox, source, boxVars, routes, expired, sent, ended>>

-----------------------------------------------------------------------------
(* Routing.  flush sends what has not expired; uplink drops without an     *)
(* answer what expired on the way.                                         *)

Uplinked(m) == source # NoGateway /\ m \in outbox \ expired

(* An acknowledgement or a refusal takes the envelope out of the outbox;   *)
(* internal_error and cluster_error do not.                                *)
Acknowledged(m) == outbox' = outbox \ {m}

(* routing.denied: the verdict of the ACL is the environment's.            *)
UplinkDenied(m) ==
  /\ Uplinked(m)
  /\ Acknowledged(m) /\ ended' = ended \cup {m}
  /\ UNCHANGED <<nodeVars, boxVars, routes>>

(* offline_not_stored: the lead dispatches an aid to another node.         *)
UplinkNotStored(m) ==
  /\ Uplinked(m) /\ source \notin has /\ ~clustered /\ m \in Aid
  /\ Acknowledged(m) /\ ended' = ended \cup {m}
  /\ UNCHANGED <<nodeVars, boxVars, routes>>

UplinkLocal(m) ==
  /\ Uplinked(m) /\ source \in has
  /\ Deliver(m) /\ Acknowledged(m)
  /\ UNCHANGED <<nodeVars, routes>>

UplinkQueued(m) ==
  /\ Uplinked(m) /\ source \notin has /\ ~clustered /\ m \notin Aid
  /\ QueueInbox(source, m) /\ Acknowledged(m)
  /\ UNCHANGED <<nodeVars, routes>>

(* deferOffline: routeAsync starts and awaits its first peer.              *)
UplinkDeferred(m) ==
  /\ Uplinked(m) /\ source \notin has /\ clustered
  /\ Cardinality(routes) < MaxRoutes
  /\ routes' = routes \cup {[msg |-> m, at |-> source, next |-> 1, acks |-> TRUE]}
  /\ UNCHANGED <<nodeVars, outbox, boxVars, ended>>

Finish(r) ==
  /\ routes' = routes \ {r}
  /\ IF r.acks THEN Acknowledged(r.msg) ELSE UNCHANGED outbox

TryNext(r) ==
  /\ routes' = (routes \ {r}) \cup {[r EXCEPT !.next = @ + 1]}
  /\ UNCHANGED outbox

(* internalDeliver at a peer.                                              *)
InternalDeliver(p, m) ==
  CASE p \in has -> "delivered"
    [] p \notin has /\ m \in Aid -> "not_here"
    [] OTHER -> "queued"

(* Fault: any answer of a peer ends the search.                            *)
TakesOverAlways(result) == TRUE

(* publish: the answers that end the search.                               *)
TakesOver(result) == result \in {"delivered", "queued"}

(* A peer handles the request; its answer may be lost.                     *)
PeerHandles(r) ==
  /\ r.next <= Len(Peers[r.at])
  /\ LET p == Peers[r.at][r.next]
         result == InternalDeliver(p, r.msg)
     IN  /\ CASE result = "delivered" -> Deliver(r.msg)
              [] result = "queued"    -> QueueInbox(p, r.msg)
              [] OTHER                -> UNCHANGED <<boxVars, ended>>
         /\ \/ TakesOver(result) /\ Finish(r)
            \/ TryNext(r)
  /\ UNCHANGED nodeVars

(* No connection to the peer, a wrong secret, or a refused body.           *)
PeerFails(r) ==
  /\ r.next <= Len(Peers[r.at])
  /\ TryNext(r)
  /\ UNCHANGED <<nodeVars, boxVars, ended>>

(* Fault: the recipient's connection is not looked at again.               *)
HomeQueuesBlindly(r) ==
  /\ r.next > Len(Peers[r.at])
  /\ QueueInbox(r.at, r.msg)
  /\ Finish(r)
  /\ UNCHANGED nodeVars

(* No peer took it: the home shard queues it, and drains the mailbox at    *)
(* once when the recipient connected during the awaits.                    *)
HomeQueues(r) ==
  /\ r.next > Len(Peers[r.at])
  /\ IF r.at \in has
     THEN TakeInbox(r.at, Append(inbox[r.at], r.msg))
     ELSE QueueInbox(r.at, r.msg)
  /\ Finish(r)
  /\ UNCHANGED nodeVars

(* A gateway process dies and starts again: load.                          *)
GatewayRestarts(g) ==
  /\ inbox' = [inbox EXCEPT ![g] = file[g]]
  /\ ended' = ended \cup (In(inbox[g]) \ In(file[g]))
  /\ has' = has \ {g}
  /\ source' = IF source = g THEN NoGateway ELSE source
  /\ routes' = {r \in routes : r.at # g}
  /\ UNCHANGED <<clustered, outbox, file, expired, sent>>

-----------------------------------------------------------------------------
RelayNext ==
  \/ \E m \in Messages :
       \/ Send(m) \/ Expire(m)
       \/ UplinkDenied(m) \/ UplinkNotStored(m)
       \/ UplinkLocal(m) \/ UplinkQueued(m) \/ UplinkDeferred(m)
  \/ SenderLeaves
  \/ \E g \in Used :
       SenderConnects(g) \/ RecipientConnects(g) \/ RecipientLeaves(g) \/ GatewayRestarts(g)
  \/ \E r \in routes : PeerHandles(r) \/ PeerFails(r) \/ HomeQueues(r)

RelaySpec == RelayInit /\ [][RelayNext]_relayVars

-----------------------------------------------------------------------------
(* Properties.                                                             *)

RelayTypeOK ==
  /\ clustered \in BOOLEAN
  /\ outbox \subseteq Messages /\ sent \subseteq Messages
  /\ expired \subseteq Messages /\ ended \subseteq Messages
  /\ source \in Gateways \cup {NoGateway}
  /\ has \subseteq Gateways
  /\ inbox \in [Gateways -> Seq(Messages)] /\ file \in [Gateways -> Seq(Messages)]
  /\ routes \subseteq Route
  /\ \A g \in Gateways : Len(inbox[g]) <= Capacity

(* No mail lies in the mailbox of a gateway to which the recipient is      *)
(* connected: a message that is queued after the recipient came, because   *)
(* the routing awaited its peers meanwhile, is handed over at once         *)
(* (竞态封口 in routeAsync).                                               *)
NoMailBesideConnection ==
  \A g \in has : inbox[g] = <<>>

(* A message leaves the sender's outbox only for a mailbox or for one of   *)
(* the ends the code names: written to the recipient, refused, evicted at  *)
(* capacity, expired, or in a mailbox whose file was not written.  Lost peer*)
(* answers, restarts and reconnects in between never lose it (R11).        *)
NothingVanishes ==
  /\ RelayTypeOK
  /\ \A m \in sent : m \in outbox \cup ended \cup UNION {In(inbox[g]) : g \in Gateways}

(* An aid is never kept in a mailbox ("aid 不暂存", core.ts).              *)
AidNotStored ==
  \A g \in Gateways : In(inbox[g]) \cap Aid = {}
=============================================================================
